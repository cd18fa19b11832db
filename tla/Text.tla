-------------------------------- MODULE Text --------------------------------
(***************************************************************************)
(* eString (estring.h, estring.cpp): texts are sequences of bytes, cut at  *)
(* characters, trimmed, searched and replaced in, escaped for XML.         *)
(* Positions count from 0 as in the code.                                  *)
(***************************************************************************)
EXTENDS Integers, Sequences, SequencesExt, FiniteSetsExt, Entities

Byte == 0..255
Blank == 32

(* The values of encode, as they also announce a text in its first byte.   *)
GB18030 == 19
BIG5 == 20
UTF8 == 21
UNICODE == 22
UTF16BE == 23
UTF16LE == 24
Encodings == {0, GB18030, BIG5, UTF8, UNICODE}

IsSpaceChar(b) == b <= Blank

Left(s, len) == SubSeq(s, 1, IF len >= Len(s) THEN Len(s) ELSE len)

(* mid(index, len) of one-byte characters, and of the rest of the text.    *)
Mid(s, index, len) ==
  IF index >= Len(s) THEN <<>>
  ELSE SubSeq(s, index + 1, IF Len(s) < index + len THEN Len(s) ELSE index + len)
-----------------------------------------------------------------------------
(* UTF-8 characters.                                                       *)
Continues(b) == b \in 128..191

(* How many bytes are to follow a leading byte: 0xFC is masked with 0xFD.  *)
Follow(b) ==
  CASE b \in 192..223 -> 1
    [] b \in 224..239 -> 2
    [] b \in 240..247 -> 3
    [] b \in 248..251 -> 4
    [] b \in {252, 254} -> 5
    [] OTHER -> 0

Complete(s, pos) ==
  /\ pos + Follow(s[pos + 1]) < Len(s)
  /\ \A k \in 1..Follow(s[pos + 1]) : Continues(s[pos + 1 + k])

(* stepUTF8: behind a whole character, or else behind one byte.            *)
StepUTF8(s, pos) ==
  IF Complete(s, pos) THEN pos + 1 + Follow(s[pos + 1]) ELSE pos + 1

(* isUTF8 asks for whole characters but takes a continuation for one, too. *)
IsUTF8(s) ==
  LET ok[pos \in 0..Len(s)] ==
        pos = Len(s) \/ (Complete(s, pos) /\ ok[StepUTF8(s, pos)])
  IN ok[0]

TwoByte(c1, c2) ==
  \/ c1 \in 129..254 /\ c2 \in 64..254
  \/ c1 \in 161..248 /\ (c2 \in 64..126 \/ c2 \in 161..254)

(* Where mid takes no further step: only UTF-8 goes to the end.            *)
StepEnds(s, encode, pos) ==
  CASE encode = UTF8 -> pos >= Len(s)
    [] encode \in {GB18030, BIG5, UNICODE} -> pos + 2 >= Len(s)
    [] OTHER -> pos + 1 >= Len(s)

StepOver(s, encode, pos) ==
  CASE encode = UTF8 -> StepUTF8(s, pos)
    [] encode \in {GB18030, BIG5} -> pos + (IF TwoByte(s[pos + 1], s[pos + 2]) THEN 2 ELSE 1)
    [] encode = UNICODE -> pos + 2
    [] OTHER -> pos + 1
-----------------------------------------------------------------------------
(* trim.  It compares an iterator from before the leading blanks were      *)
(* erased with the end after it, and loses a text of one character to the  *)
(* search for trailing blanks, which stops before the first.               *)
Leading(s) ==
  LET seen == {k \in DOMAIN s : ~IsSpaceChar(s[k])}
  IN IF seen = {} THEN Len(s) ELSE Min(seen) - 1

Ending(s) == Max({0} \cup {k \in DOMAIN s : ~IsSpaceChar(s[k])})

Trim(s) ==
  LET rest == SubSeq(s, Leading(s) + 1, Len(s))
  IN IF Leading(s) = Len(rest) \/ Ending(rest) <= 1 THEN <<>>
     ELSE SubSeq(rest, 1, Ending(rest))

At(s, pos, f) == pos + Len(f) <= Len(s) /\ SubSeq(s, pos + 1, pos + Len(f)) = f

Finds(s, f) == {pos \in 0..Len(s) : At(s, pos, f)}

(* The step of strReplace over what does not match, which knows only some  *)
(* characters of more than two bytes.                                      *)
ReplaceStep(s, encode, pos) ==
  LET c(k) == IF pos + k <= Len(s) THEN s[pos + k] ELSE 0
      low3 == c(1) \in 224..239 /\ c(2) \in 192..223 /\ Continues(c(3))
  IN CASE encode = UTF8 ->
            IF c(1) \in 192..223 /\ Continues(c(2)) THEN 2 ELSE IF low3 THEN 3 ELSE 1
       [] encode \in {GB18030, BIG5} -> IF TwoByte(c(1), c(2)) THEN 2 ELSE 1
       [] encode = UNICODE -> 2
       [] OTHER -> 1

(* strReplace: what is put in is not searched again.  With two-byte        *)
(* characters the last byte of a text is never reached by a step.          *)
StrReplace(s, f, r, encode) ==
  LET from[pos \in 0..Len(s) + 1] ==
        IF pos >= Len(s) THEN <<>>
        ELSE IF At(s, pos, f) THEN r \o from[pos + Len(f)]
        ELSE IF encode \in {GB18030, BIG5} /\ pos + 1 >= Len(s) THEN SubSeq(s, pos + 1, Len(s))
        ELSE LET next == pos + ReplaceStep(s, encode, pos)
             IN SubSeq(s, pos + 1, IF next < Len(s) THEN next ELSE Len(s)) \o from[next]
  IN IF f = <<>> THEN s ELSE from[0]

Upper(s) == [k \in DOMAIN s |-> IF s[k] \in 97..122 THEN s[k] - 32 ELSE s[k]]

(* icompare: -1, 0 or 1, the shorter text first if all else is equal.      *)
ICompare(s, u) ==
  LET lower(b) == IF b \in 65..90 THEN b + 32 ELSE b
      shorter == IF Len(s) < Len(u) THEN Len(s) ELSE Len(u)
      differ == {k \in 1..shorter : lower(s[k]) # lower(u[k])}
  IN IF differ # {}
       THEN IF lower(s[Min(differ)]) < lower(u[Min(differ)]) THEN -1 ELSE 1
     ELSE IF Len(s) = Len(u) THEN 0 ELSE IF Len(s) < Len(u) THEN -1 ELSE 1
-----------------------------------------------------------------------------
XmlEncode(s) ==
  StrReplace(StrReplace(StrReplace(s, <<38>>, Amp, 0), <<60>>, Lt, 0), <<62>>, Gt, 0)
-----------------------------------------------------------------------------
Outer(s) == {k \in DOMAIN s : ~IsSpaceChar(s[k])}
Stripped(s) == IF Outer(s) = {} THEN <<>> ELSE SubSeq(s, Min(Outer(s)), Max(Outer(s)))

(* trim takes the outer blanks from a text and nothing else, or loses it:  *)
(* what is one character without them, and what has as many before it as   *)
(* the rest of it is long.                                                 *)
TrimStrips(s) ==
  IF Len(Stripped(s)) > 1 /\ 2 * Leading(s) # Len(s) THEN Trim(s) = Stripped(s)
  ELSE Trim(s) = <<>>

(* What is escaped is read back, but for a text that is itself an entity   *)
(* of a bracket or a blank (XML_ENCODE, XML_DECODE).                       *)
EntitiesSurvive(s) ==
  Finds(s, Lt) \cup Finds(s, Gt) \cup Finds(s, Nbsp) = {} => XmlDecode(XmlEncode(s)) = s

(* icompare orders texts: two ways round the answers are opposite, and it  *)
(* is 0 for texts that differ in the case of letters and for no others.    *)
CompareOrders(s, u) ==
  /\ ICompare(s, u) = -ICompare(u, s)
  /\ ICompare(s, u) = 0 <=> Upper(s) = Upper(u)
=============================================================================
