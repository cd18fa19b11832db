----------------------------- MODULE EventTexts -----------------------------
(***************************************************************************)
(* What EITEvent and get_v7 read from the descriptors that were made of a  *)
(* description cut into chunks (dvb.cpp): TextCut's chunks as descriptors, *)
(* one behind the other in the descriptor loop of an event, and read back. *)
(***************************************************************************)
EXTENDS TextCut

Desc == INSTANCE Descriptors WITH LenMod <- 256, RefMod <- 65536

(* The descriptors of the chunks, in a loop of bytes.                      *)
Extended ==
  [k \in DOMAIN chunks |->
     Desc!ExtendedEvent(k, Mid(text, chunks[k].from, chunks[k].to - chunks[k].from), "B")]
LoopBytes == FlattenSeq(<<Desc!XmlShort(<<98>>)>> \o Extended)

(* Mutant: the language is looked for one byte too early.                  *)
BeginsAtEarly(d, k) ==
  LET at(n) == d[k + 1 + n]
  IN k + 7 < Len(d) /\ at(0) = 78 /\ <<at(2), at(3), at(4)>> = Desc!Lang

(* With autofix, a descriptor begins where its tag and its language seem   *)
(* to; lengths in upper case count, too.                                   *)
BeginsAt(d, k) ==
  LET at(n) == d[k + 1 + n]
      eng(n) == <<at(n), at(n + 1), at(n + 2)>> \in {Desc!Lang, <<69, 78, 71>>}
  IN \/ k + 7 < Len(d) /\ at(0) = 78 /\ eng(3)
     \/ k + 6 < Len(d) /\ at(0) = 77 /\ eng(2)

(* getDescriptorLen, for the descriptor that begins the bytes d.           *)
DescriptorLen(d, autofix) ==
  LET begins == {k \in 5..Len(d) - 1 : BeginsAt(d, k)}
  IN IF autofix /\ d[1] \in {Desc!ExtendedTag, Desc!ShortTag}
       THEN IF begins = {} THEN IF Len(d) < 5 THEN 5 ELSE Len(d) ELSE Min(begins)
     ELSE d[2] + 2

(* The descriptors init_EITEvent finds, up to one of another tag.          *)
Walked(bytes, autofix) ==
  LET from[ptr \in 0..Len(bytes) + 300] ==
        IF ptr >= Len(bytes) THEN <<>>
        ELSE LET d == SubSeq(bytes, ptr + 1, Len(bytes))
             IN IF d[1] \notin {Desc!ExtendedTag, Desc!ShortTag} THEN <<>>
                ELSE <<d>> \o from[ptr + DescriptorLen(d, autofix)]
  IN from[0]

(* The first byte of every text but the first goes, if it announces an     *)
(* encoding.  In get_v7, where char has a sign, all bytes from 128 on      *)
(* count as less than 0x20, too.                                           *)
Announces(b, signed) == b < 32 \/ (signed /\ b >= 128)

Joined(ds, signed) ==
  LET texts == SelectSeq(ds, LAMBDA d : d[1] = Desc!ExtendedTag)
      join(sofar, d) ==
        LET t == Desc!ExtendedText(d)
            whole == SubSeq(d, 9, 8 + d[8])
        IN sofar \o (IF sofar # <<>> /\ Announces(whole[1], signed) THEN t ELSE whole)
  IN FoldLeft(join, <<>>, texts)

(* convertDVBUTF8 of a text announced as UTF-8.                            *)
Plain(s) == IF s # <<>> /\ s[1] = UTF8 THEN Tail(s) ELSE s

MadeOfDescriptors == cutting = "cut" /\ encode = UTF8
-----------------------------------------------------------------------------
Boundaries ==
  {Len(FlattenSeq(<<Desc!XmlShort(<<98>>)>> \o SubSeq(Extended, 1, n))) : n \in 0..Len(Extended)}

(* However a description was cut, no character of it was, and reading its  *)
(* descriptors gives it back, also where their lengths are not trusted,    *)
(* unless it reads like the beginning of a descriptor itself               *)
(* (getDescriptorLen, init_EITEvent).                                      *)
DescriptionReadsBack ==
  /\ CharactersWhole
  /\ MadeOfDescriptors =>
       /\ Plain(Joined(Walked(LoopBytes, FALSE), FALSE)) = text
       /\ Plain(Joined(Extended, TRUE)) = text
       /\ {k \in 0..Len(LoopBytes) - 1 : BeginsAt(LoopBytes, k)} \subseteq Boundaries
            => Plain(Joined(Walked(LoopBytes, TRUE), FALSE)) = text
=============================================================================
