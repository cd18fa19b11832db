------------------------------ MODULE XmlCodec ------------------------------
(***************************************************************************)
(* The entity codec of the XML library (spxmlcodec.cpp).  A text is a      *)
(* sequence of symbols: a character, or a run of characters the code never *)
(* takes apart ("lt;", "CDATA[", "DOCTYPE").  Lead stands for a byte of    *)
(* 0x80 and above that announces one more byte, Tail for the byte that     *)
(* completes it; a Tail on its own is again a byte of 0x80 and above.      *)
(***************************************************************************)
EXTENDS Integers, Sequences, SequencesExt

Lead == "lead"
Tail2 == "tail"
Spaces == {" ", "\n"}

(* XML_CHARS and ESC_CHARS; the entities are two symbols, "&" and the rest. *)
Escapes == ("<" :> "lt;") @@ (">" :> "gt;") @@ ("&" :> "amp;")
             @@ ("'" :> "apos;") @@ ("\"" :> "quot;")

(* The character a numeric entity names.  A document in a Chinese encoding *)
(* gets it from uni2gbk, which drops what is not a two-byte character.     *)
Numerics == ("#10;" :> "\n") @@ ("#60;" :> "<")

(* One step after the other over a sequence (FoldLeft, which TLC would     *)
(* evaluate in cubic time).                                                *)
Run(Step(_, _), base, seq) ==
  LET After[i \in 0..Len(seq)] == IF i = 0 THEN base ELSE Step(After[i - 1], seq[i])
  IN  After[Len(seq)]

CharOf(entity) == CHOOSE c \in DOMAIN Escapes : Escapes[c] = entity

IsEntity(s) == \E c \in DOMAIN Escapes : Escapes[c] = s

IsSpaces(text) == \A i \in DOMAIN text : text[i] \in Spaces

(* Mutant: quotes are left as they are.                                    *)
EncodeUtf8Text(text) ==
  FlattenSeq([i \in DOMAIN text |->
                IF text[i] \in {"<", "&"} THEN <<"&", Escapes[text[i]]>> ELSE <<text[i]>>])

(* encode with a utf-8 encoding.  An escaped character becomes its entity; *)
(* the apostrophe does not; a Lead takes the next symbol along as it is,   *)
(* the multi-byte character being copied without a look at its bytes.      *)
EncodeUtf8(text) ==
  LET From[i \in 1..Len(text) + 1] ==
        IF i > Len(text) THEN <<>>
        ELSE IF text[i] \in DOMAIN Escapes \ {"'"}
        THEN <<"&", Escapes[text[i]]>> \o From[i + 1]
        ELSE IF text[i] \in {Lead, Tail2} /\ i < Len(text)
        THEN <<text[i], text[i + 1]>> \o From[i + 2]
        ELSE <<text[i]>> \o From[i + 1]
  IN  From[1]

(* encode with any other encoding: byte by byte.                           *)
EncodeBytes(text) ==
  FlattenSeq([i \in DOMAIN text |->
                IF text[i] \in DOMAIN Escapes \ {"'"} THEN <<"&", Escapes[text[i]]>>
                ELSE <<text[i]>>])

(* decode.  Every other use of "&" is kept as it is written.               *)
Decode(encoding, text) ==
  LET Then(i) == IF i < Len(text) THEN text[i + 1] ELSE ""
      From[i \in 1..Len(text) + 1] ==
        IF i > Len(text) THEN <<>>
        ELSE IF text[i] = "&" /\ IsEntity(Then(i)) THEN <<CharOf(Then(i))>> \o From[i + 2]
        ELSE IF text[i] = "&" /\ Then(i) \in DOMAIN Numerics
        THEN (IF encoding = "gbk" THEN <<>> ELSE <<Numerics[Then(i)]>>) \o From[i + 2]
        ELSE <<text[i]>> \o From[i + 1]
  IN  From[1]

(* An "&" that starts neither an entity nor a number: decode then reads    *)
(* through the pointer `next`, which nothing has set.  The build either    *)
(* reads some byte and keeps the "&", or stops with a fault.               *)
Wild(text) ==
  \E i \in DOMAIN text :
    /\ text[i] = "&"
    /\ ~(i < Len(text) /\ (IsEntity(text[i + 1]) \/ text[i + 1] \in DOMAIN Numerics))

(* canonEncode: the byte-wise encoding with every line end written out.    *)
CanonEncode(text) ==
  LET bytes == EncodeBytes(text)
  IN  FlattenSeq([i \in DOMAIN bytes |->
                    IF bytes[i] = "\n" THEN <<"&", "#10;">> ELSE <<bytes[i]>>])

(* isNameChar                                                              *)
IsNameChar(encoding, c) ==
  encoding = "utf-8" \/ c \notin {"<", ">", "&", "'", "\"", "=", "/", "?", "!", "[", "]", Lead, Tail2} \cup Spaces
=============================================================================
