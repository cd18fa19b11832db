---------------------------- MODULE TextConvert -----------------------------
(***************************************************************************)
(* convertDVBUTF8 with GB18030ToUTF8, Big5ToUTF8 and UnicodeToUTF8         *)
(* (estring.cpp): a text of a descriptor or of an XMLTV file announces its *)
(* coding in its first byte and is converted to UTF-8 in one loop.         *)
(***************************************************************************)
EXTENDS Text, Charsets

CONSTANTS
  Datas,      \* the texts there are, with their first bytes
  Tables,     \* the encodings they are taken for if they announce none
  Filled,     \* sets of character tables with an entry at each place looked up
  Codes,      \* the entries
  PastEnd,    \* bytes there may be behind a text
  OutMax      \* 4095 in the code

ASSUME ConvertAssumption ==
  /\ Datas \subseteq Seq(Byte) /\ Tables \subseteq Byte /\ PastEnd \subseteq Byte
  /\ OutMax \in Nat /\ OutMax >= 4

(* Entries are of two bytes, and 0 stands for none.                        *)
ASSUME EntriesAssumption == Codes \subseteq Nat /\ \A c \in Codes : c > 0 /\ c < 65536

VARIABLES
  data, table,
  coding, start,   \* what the text announces, and where it begins behind that
  at, out,         \* i in the code, and what is converted so far
  code,            \* the last character converted
  converting,      \* "announce", "loop" or "done"
  turn             \* of the rounds of the loop: even or odd

convertVars == <<data, table, coding, start, at, out, code, converting, turn>>

ConvertInit ==
  /\ data \in Datas /\ table \in Tables
  /\ coding = 0 /\ start = 0 /\ at = 0 /\ out = <<>> /\ code = 0
  /\ converting = (IF data = <<>> THEN "done" ELSE "announce")
  /\ turn = FALSE

(* A byte behind the first of a character: six of its bits.                *)
Low(c, unit) == 128 + ((c \div unit) % 64)

Utf8(c) ==
  IF c < 128 THEN <<c>>
  ELSE IF c < 2048 THEN <<192 + c \div 64, Low(c, 1)>>
  ELSE IF c < 65536 THEN <<224 + c \div 4096, Low(c, 64), Low(c, 1)>>
  ELSE <<240 + c \div 262144, Low(c, 4096), Low(c, 64), Low(c, 1)>>

Wide == {UNICODE, UTF16BE, UTF16LE}
(* The codings convertDVBUTF8 enters its loop with and has no branch for.  *)
IsoOrNone == (1..31) \ ({17, GB18030, BIG5, UTF8} \cup Wide)

Announced ==
  IF table \in Wide THEN [coding |-> table, start |-> 0]
  ELSE CASE data[1] \in 1..11 -> [coding |-> data[1] + 4, start |-> 1]
         [] data[1] = 16 -> [coding |-> 16 + 256 * (IF Len(data) > 1 THEN data[2] ELSE 0),
                             start |-> 2]
         [] data[1] \in {17, UTF16BE} -> [coding |-> UTF16BE, start |-> 1]
         [] data[1] \in {GB18030, BIG5, UTF8, UNICODE, UTF16LE} ->
              [coding |-> data[1], start |-> 1]
         [] data[1] \in {0, 18} \cup 13..15 \cup 25..31 -> [coding |-> table, start |-> 1]
         [] OTHER -> [coding |-> table, start |-> 0]

Announce ==
  /\ converting = "announce"
  /\ coding' = Announced.coding /\ start' = Announced.start /\ at' = Announced.start
  /\ converting' = IF Announced.coding \in 0..31 THEN "loop" ELSE "done"
  /\ UNCHANGED <<data, table, out, code, turn>>

Rest == Len(data) - at
D(k) == data[at + k]

(* A round of the loop that takes n bytes and puts out s.                  *)
Round(n, s) ==
  /\ at' = at + n /\ out' = out \o s /\ turn' = ~turn
  /\ UNCHANGED <<data, table, coding, start>>

CopyByte ==
  /\ converting = "loop" /\ coding \in {0, UTF8} /\ Rest > 0
  /\ Round(1, <<D(1)>>)
  /\ UNCHANGED <<code, converting>>

(* Codings the loop has no branch for: no code, and nothing is taken.      *)
TakeNothing ==
  /\ converting = "loop" /\ coding \in IsoOrNone /\ Rest > 0
  /\ Round(0, <<>>)
  /\ code' = 0 /\ UNCHANGED converting

(* The end of a round: after a zero the last byte is looked at again.      *)
Emit(c, n) ==
  /\ Round(IF c = 0 THEN n - 1 ELSE n, IF c = 0 THEN <<>> ELSE Utf8(c))
  /\ code' = c
  /\ converting' = IF c # 0 /\ Len(out') + 4 > OutMax THEN "done" ELSE "loop"

TakeUnicode ==
  /\ converting = "loop" /\ coding = UNICODE /\ Rest > 0
  /\ \E high \in IF Rest > 1 THEN {D(2)} ELSE PastEnd : Emit(256 * high + D(1), 2)

(* The word that begins at byte k from here.                               *)
Word(k) == IF coding = UTF16BE THEN 256 * D(k) + D(k + 1) ELSE 256 * D(k + 1) + D(k)

Paired(w1, w2) == 65536 + (w1 % 1024) * 1024 + (w2 % 1024)

Stop(s) ==
  /\ converting' = "done" /\ out' = s
  /\ UNCHANGED <<data, table, coding, start, at, code, turn>>

(* Mutant: a pair is stepped over as if it were one word and a half.       *)
TakeUtf16Short ==
  /\ converting = "loop" /\ coding \in {UTF16BE, UTF16LE} /\ Rest > 0
  /\ IF Rest < 2 THEN Stop(out)
     ELSE IF Word(1) \notin 55296..57343 THEN Emit(Word(1), 2)
     ELSE IF Word(1) > 56319 \/ Rest <= 4 THEN Stop(out)
     ELSE IF Word(3) \notin 56320..57343 THEN Stop(IF coding = UTF16BE THEN <<>> ELSE out)
     ELSE Emit(Paired(Word(1), Word(3)), 3)

(* A pair of words is taken only if more text comes behind it.             *)
TakeUtf16 ==
  /\ converting = "loop" /\ coding \in {UTF16BE, UTF16LE} /\ Rest > 0
  /\ IF Rest < 2 THEN Stop(out)
     ELSE IF Word(1) \notin 55296..57343 THEN Emit(Word(1), 2)
     ELSE IF Word(1) > 56319 \/ Rest <= 4 THEN Stop(out)
     ELSE IF Word(3) \notin 56320..57343 THEN Stop(IF coding = UTF16BE THEN <<>> ELSE out)
     ELSE Emit(Paired(Word(1), Word(3)), 4)

(* Mutant: bytes that are no character are not stepped over.               *)
TakeGB18030Stuck ==
  /\ converting = "loop" /\ coding = GB18030 /\ Rest > 0
  /\ \E full \in Filled, entry \in Codes :
       LET r == Gb18030(SubSeq(data, at + 1, Len(data)), Rest, full, entry)
       IN IF r.n > 0 THEN Round(r.n, Utf8(r.code)) ELSE Round(0, <<>>)
  /\ UNCHANGED <<code, converting>>

TakeGB18030 ==
  /\ converting = "loop" /\ coding = GB18030 /\ Rest > 0
  /\ \E full \in Filled, entry \in Codes :
       LET r == Gb18030(SubSeq(data, at + 1, Len(data)), Rest, full, entry)
       IN IF r.n > 0 THEN Round(r.n, Utf8(r.code)) ELSE Round(1, <<>>)
  /\ UNCHANGED <<code, converting>>

Big5Pair(c1, c2) == c1 \in 161..249 /\ (c2 \in 64..127 \/ c2 \in 161..254)

(* Two bytes that are no character put out the one before once more.       *)
TakeBig5 ==
  /\ converting = "loop" /\ coding = BIG5 /\ Rest > 1
  /\ IF Big5Pair(D(1), D(2))
     THEN \E full \in Filled, entry \in Codes :
            /\ code' = LET r == Big5(D(1), D(2), full, entry) IN IF r.n > 0 THEN r.code ELSE code
            /\ Round(2, Utf8(code'))
     ELSE Round(1, <<D(1)>>) /\ UNCHANGED code
  /\ UNCHANGED converting

(* The last byte counts unless it is zero or could begin a character.      *)
EndBig5 ==
  /\ converting = "loop" /\ coding = BIG5 /\ Rest <= 1
  /\ IF Rest = 1 /\ D(1) # 0 /\ D(1) \notin 160..249 THEN Round(1, <<D(1)>>) ELSE Round(0, <<>>)
  /\ converting' = "done" /\ UNCHANGED code

EndOfText ==
  /\ converting = "loop" /\ coding # BIG5 /\ Rest <= 0
  /\ converting' = "done"
  /\ UNCHANGED <<data, table, coding, start, at, out, code, turn>>

-----------------------------------------------------------------------------
(* UTF8ToGB2312: a character there is no code for is left out; what is no  *)
(* character is copied, and where the text ends in one, so does the copy.  *)
ToGB2312(s, full) ==
  LET from[i \in 0..Len(s) + 6] ==
        IF i >= Len(s) THEN <<>>
        ELSE LET n == Follow(s[i + 1])
             IN IF n = 0 THEN <<s[i + 1]>> \o from[i + 1]
                ELSE IF i + n >= Len(s) THEN <<s[i + 1]>>
                ELSE IF ~Complete(s, i) THEN SubSeq(s, i + 1, i + n + 1) \o from[i + n + 1]
                ELSE (IF n <= 2 /\ "gb2312" \in full THEN <<161, 161>> ELSE <<>>)
                       \o from[i + n + 1]
  IN from[0]

ConvertNext ==
  \/ Announce \/ CopyByte \/ TakeNothing \/ TakeUnicode \/ TakeUtf16
  \/ TakeGB18030 \/ TakeBig5 \/ EndBig5 \/ EndOfText

ConvertSpec == ConvertInit /\ [][ConvertNext]_convertVars /\ WF_convertVars(ConvertNext)
-----------------------------------------------------------------------------
(* The buffers are as long as the loops need, the byte behind the text     *)
(* included, unless a text is only its announcement (szOut, res).  Copied  *)
(* text is as long as it was.                                              *)
OutFits ==
  IF coding \in {GB18030, BIG5}
    THEN Len(data) > start => Len(out) < 2 * (Len(data) - start)
  ELSE coding \in Wide => Len(out) <= OutMax

Words == (Len(data) - start) \div 2
W(k) ==
  LET b1 == data[start + 2 * k - 1]  b2 == data[start + 2 * k]
  IN IF coding = UTF16BE THEN 256 * b1 + b2 ELSE 256 * b2 + b1
High(w) == w \in 55296..56319
Low10(w) == w \in 56320..57343

SoundUtf16 ==
  /\ Len(data) = start + 2 * Words
  /\ \A k \in 1..Words :
       /\ W(k) # 0
       /\ High(W(k)) => k < Words /\ Low10(W(k + 1))
       /\ Low10(W(k)) => k > 1 /\ High(W(k - 1))

Utf16Text ==
  LET from[k \in 1..Words + 1] ==
        IF k > Words THEN <<>>
        ELSE IF Low10(W(k)) THEN from[k + 1]
        ELSE IF ~High(W(k)) THEN Utf8(W(k)) \o from[k + 1]
        ELSE (IF k + 1 = Words THEN <<>> ELSE Utf8(Paired(W(k), W(k + 1)))) \o from[k + 1]
  IN from[1]

(* A sound UTF-16 text is converted character by character, but for a pair *)
(* of words at its very end, which is lost ((i+4)<len).                    *)
Utf16Right ==
  converting = "done" /\ coding \in {UTF16BE, UTF16LE} /\ SoundUtf16
    /\ Len(Utf16Text) + 3 <= OutMax
    => out = Utf16Text

(* Whatever the bytes, what isUTF8 is asked about afterwards is UTF-8.     *)
ConvertedIsUtf8 == coding \in Wide \cup {GB18030} => IsUTF8(out)

(* Two-byte codings are converted to the end: at most half a character or  *)
(* a zero is left behind (pconvertedLen).                                  *)
ConvertedToTheEnd ==
  converting = "done" /\ coding \in {GB18030, BIG5} =>
    \/ at = Len(data)
    \/ coding = BIG5 /\ Rest = 1 /\ D(1) \in {0} \cup 160..249

(* What conversion promises of a text of any bytes: it keeps within its    *)
(* buffers, gives UTF-8, loses no UTF-16 character but a last pair, and    *)
(* reads the text to its end (convertDVBUTF8, GB18030ToUTF8, Big5ToUTF8).  *)
ConversionRight == OutFits /\ Utf16Right /\ ConvertedIsUtf8 /\ ConvertedToTheEnd

(* Conversion comes to an end, on any bytes, for every coding that has a   *)
(* branch in the loop.                                                     *)
ConvertEnds ==
  (converting = "loop" /\ coding \notin IsoOrNone) ~> (converting = "done")

(* A text turned back into GB2312 gets no longer, and of a sound text no   *)
(* ASCII character is lost with those that have no code (UTF8ToGB2312).    *)
BackToGB2312(s, full) ==
  LET ascii(u) == SelectSeq(u, LAMBDA b : b < 128)
      sound == \A pos \in 0..Len(s) - 1 : Complete(s, pos)
  IN /\ Len(ToGB2312(s, full)) <= Len(s)
     /\ sound => ascii(ToGB2312(s, full)) = ascii(s)

(* Every text that is announced as convertDVBUTF8 lists it is converted.   *)
TextsConverted == <>(converting = "done")
=============================================================================
