----------------------------- MODULE TextProofs -----------------------------
(***************************************************************************)
(* What TLAPS proves of texts: UTF-8 descriptions are cut into chunks that *)
(* follow each other and fit, for any text, sound or not, and any width;   *)
(* and the conversion to UTF-8 is right of any bytes, in any coding, with  *)
(* any character tables.                                                   *)
(***************************************************************************)
EXTENDS TextCut, TextConvert, Lemmas

size == Len(text)

Typed ==
  /\ text \in Seq(Byte) /\ encode = UTF8
  /\ pos \in 0..size /\ i \in 0..size /\ j \in 0..size
  /\ cutting \in {"walk", "take", "cut"}
  /\ chunks \in Seq([from : Nat, to : Nat])

(* The ends of steps are the text's characters, whatever pass they were    *)
(* met in: no pass steps over one of them.                                 *)
Chained ==
  /\ starts \subseteq 0..size /\ far \in starts /\ 0 \in starts
  /\ \A p \in starts : p <= far
  /\ \A p \in starts : p < far => StepUTF8(text, p) \in starts
  /\ \A p \in starts, q \in starts : p < size => q <= p \/ q >= StepUTF8(text, p)
  /\ i \in starts /\ pos \in starts

Walked ==
  CASE cutting = "walk" -> /\ pos < size
                           /\ \/ i <= pos
                              \/ i > pos /\ j = pos /\ i - pos <= MaxLen
    [] cutting = "take" -> /\ pos < size
                           /\ i > pos /\ j = pos /\ i - pos <= MaxLen + 6
    [] OTHER -> pos = size

Laid ==
  /\ \A k \in DOMAIN chunks :
       chunks[k].from = IF k = 1 THEN 0 ELSE chunks[k - 1].to
  /\ pos = IF chunks = <<>> THEN 0 ELSE chunks[Len(chunks)].to
  /\ \A k \in DOMAIN chunks : chunks[k].to - chunks[k].from + 7 <= MaxLength

CutInv == Typed /\ Chained /\ Walked /\ Laid

CutInvUTF8 == encode = UTF8 => CutInv

LEMMA StepFacts ==
  ASSUME NEW s \in Seq(Byte), NEW p \in 0..Len(s) - 1
  PROVE  /\ StepUTF8(s, p) \in Nat
         /\ p < StepUTF8(s, p) /\ StepUTF8(s, p) <= Len(s)
         /\ StepUTF8(s, p) <= p + 6
<1>1. Follow(s[p + 1]) \in 0..5
  BY SMT DEF Follow
<1>2. Len(s) \in Nat
  BY SMT
<1> HIDE DEF Follow
<1>3. CASE Complete(s, p)
  <2>1. p + Follow(s[p + 1]) < Len(s)
    BY <1>3 DEF Complete
  <2>2. StepUTF8(s, p) = p + 1 + Follow(s[p + 1])
    BY <1>3 DEF StepUTF8
  <2> QED
    BY <1>1, <1>2, <2>1, <2>2, SMT
<1>4. CASE ~Complete(s, p)
  <2>1. StepUTF8(s, p) = p + 1
    BY <1>4 DEF StepUTF8
  <2> QED
    BY <1>2, <2>1, SMT
<1> QED
  BY <1>3, <1>4

LEMMA WidthFacts ==
  ASSUME text \in Seq(Byte)
  PROVE  MaxLen \in Nat /\ MaxLen <= ChunkWidth + 1
<1>1. ChunkWidth \in Nat
  BY CutAssumption
<1>2. CASE pos = 0 /\ \E k \in FirstColon(text) : k <= ChunkWidth + 1
  <2>1. MaxLen \in FirstColon(text) /\ MaxLen <= ChunkWidth + 1
    BY <1>2 DEF MaxLen
  <2>2. FirstColon(text) \subseteq Nat
    BY SMT DEF FirstColon
  <2> QED
    BY <2>1, <2>2
<1>3. CASE ~(pos = 0 /\ \E k \in FirstColon(text) : k <= ChunkWidth + 1)
  <2>1. MaxLen = ChunkWidth
    BY <1>3 DEF MaxLen
  <2> QED
    BY <1>1, <2>1, SMT
<1> QED
  BY <1>2, <1>3

LEMMA InitialCut == CutInit => CutInvUTF8
<1> SUFFICES ASSUME CutInit, encode = UTF8 PROVE CutInv
  BY DEF CutInvUTF8
<1>1. text \in Seq(Byte)
  BY CutAssumption DEF CutInit
<1>2. size \in Nat /\ (size = 0 <=> text = <<>>)
  BY <1>1, SMT DEF size
<1>3. /\ pos = 0 /\ i = 0 /\ j = 0 /\ chunks = <<>> /\ starts = {0} /\ far = 0
      /\ cutting = IF text = <<>> THEN "cut" ELSE "walk"
  BY DEF CutInit
<1>4. Typed
  BY <1>1, <1>2, <1>3, SMT DEF Typed
<1>5. Chained
  BY <1>2, <1>3, SMT DEF Chained
<1>6. Walked
  BY <1>2, <1>3, SMT DEF Walked
<1>7. Laid
  BY <1>3, SMT DEF Laid
<1> QED
  BY <1>4, <1>5, <1>6, <1>7 DEF CutInv

(* A step of mid: it ends at a character known already, or is the first to *)
(* come so far.                                                            *)
LEMMA WalkOnKeeps == CutInv /\ WalkOn => CutInv'
<1> SUFFICES ASSUME CutInv, WalkOn PROVE CutInv'
  OBVIOUS
<1> DEFINE next == StepUTF8(text, i)
<1>1. /\ text \in Seq(Byte) /\ encode = UTF8 /\ size \in Nat
      /\ pos \in 0..size /\ i \in 0..size /\ j \in 0..size
      /\ chunks \in Seq([from : Nat, to : Nat])
  BY SMT DEF CutInv, Typed, size
<1>2. cutting = "walk" /\ i < size
  BY <1>1, SMT DEF WalkOn, StepEnds, size
<1>3. /\ i' = next /\ j' = From(next)
      /\ cutting' = IF next > pos /\ next - From(next) > MaxLen THEN "take" ELSE "walk"
      /\ starts' = starts \cup {next}
      /\ far' = IF next > far THEN next ELSE far
      /\ text' = text /\ encode' = encode /\ pos' = pos /\ chunks' = chunks
  <2>1. StepOver(text, encode, i) = next
    BY <1>1, SMT DEF StepOver, UTF8, GB18030, BIG5, UNICODE
  <2> QED
    BY <2>1 DEF WalkOn
<1>4. next \in Nat /\ i < next /\ next <= size /\ next <= i + 6
  <2>1. i \in 0..Len(text) - 1
    BY <1>1, <1>2, SMT DEF size
  <2> QED
    BY <1>1, <2>1, StepFacts DEF size
<1>5. /\ starts \subseteq 0..size /\ far \in starts /\ 0 \in starts
      /\ \A p \in starts : p <= far
      /\ \A p \in starts : p < far => StepUTF8(text, p) \in starts
      /\ \A p \in starts, q \in starts : p < size => q <= p \/ q >= StepUTF8(text, p)
      /\ i \in starts /\ pos \in starts
  BY DEF CutInv, Chained
<1> HIDE DEF next
<1>6. MaxLen \in Nat /\ MaxLen' = MaxLen
  <2>1. MaxLen' = MaxLen
    BY <1>3 DEF MaxLen
  <2> QED
    BY <1>1, <2>1, WidthFacts
<1>7. next > far => i = far
  <2>1. i < far => next \in starts
    BY <1>5 DEF next
  <2> QED
    BY <1>1, <1>4, <1>5, <2>1, SMT
<1>8. next <= far => starts' = starts
  <2>1. next <= far => i < far
    BY <1>1, <1>4, <1>5, SMT
  <2>2. i < far => next \in starts
    BY <1>5 DEF next
  <2> QED
    BY <1>3, <2>1, <2>2
<1>9. i <= pos /\ next > pos => i = pos
  <2>1. pos <= i \/ pos >= next
    BY <1>2, <1>5 DEF next
  <2> QED
    BY <1>1, <1>4, <2>1, SMT
<1>10. Typed'
  <2>1. From(next) \in 0..size
    BY <1>1 DEF From
  <2> QED
    BY <1>1, <1>3, <1>4, <2>1, SMT DEF Typed, size
<1>11. Chained'
  <2>1. CASE next <= far
    <3>1. far' = far /\ starts' = starts /\ next \in starts
      BY <1>1, <1>3, <1>4, <1>5, <1>8, <2>1, SMT
    <3> QED
      BY <1>3, <1>5, <3>1 DEF Chained, size
  <2>2. CASE next > far
    <3>1. far' = next /\ i = far
      BY <1>3, <1>7, <2>2
    <3>2. \A p \in starts' : p <= far'
      BY <1>1, <1>3, <1>4, <1>5, <2>2, <3>1, SMT
    <3>3. ASSUME NEW p \in starts', p < far' PROVE StepUTF8(text, p) \in starts'
      <4>1. p \in starts /\ (p = far \/ p < far)
        BY <1>1, <1>3, <1>4, <1>5, <2>2, <3>1, <3>3, SMT
      <4> QED
        BY <1>3, <1>5, <3>1, <4>1 DEF next
    <3>4. ASSUME NEW p \in starts', NEW q \in starts', p < size
          PROVE  q <= p \/ q >= StepUTF8(text, p)
      <4>1. CASE p = next
        BY <3>1, <3>2, <4>1
      <4>2. CASE p \in starts /\ q \in starts
        BY <1>5, <3>4, <4>2
      <4>3. CASE p = far /\ q = next
        BY <1>4, <3>1, <4>3, SMT DEF next
      <4>4. CASE p \in starts /\ p < far /\ q = next
        <5> DEFINE end == StepUTF8(text, p)
        <5>1. end \in starts /\ end <= far /\ end \in 0..size /\ far \in 0..size
          BY <1>5, <4>4
        <5> HIDE DEF end
        <5>2. q >= end
          BY <1>1, <1>4, <2>2, <4>4, <5>1, SMT
        <5> QED
          BY <5>2 DEF end
      <4>5. p \in starts => p = far \/ p < far
        BY <1>1, <1>5, SMT
      <4> QED
        BY <1>3, <4>1, <4>2, <4>3, <4>4, <4>5
    <3> QED
      <4>1. starts' \subseteq 0..size /\ far' \in starts' /\ 0 \in starts'
        BY <1>1, <1>3, <1>4, <1>5, <3>1, SMT
      <4>2. i' \in starts' /\ pos' \in starts'
        BY <1>3, <1>5
      <4> QED
        BY <1>3, <3>2, <3>3, <3>4, <4>1, <4>2 DEF Chained, size
  <2> QED
    BY <1>1, <1>4, <1>5, <2>1, <2>2, SMT
<1>12. Walked'
  <2>1. pos < size /\ (i <= pos \/ (i > pos /\ j = pos /\ i - pos <= MaxLen))
    BY <1>2 DEF CutInv, Walked
  <2>2. next > pos => From(next) = pos /\ next - pos <= MaxLen + 6
    BY <1>1, <1>4, <1>6, <1>9, <2>1, SMT DEF From
  <2>3. next > pos /\ next - pos > MaxLen <=> cutting' = "take"
    BY <1>3, <2>2
  <2>4. cutting' = "walk" \/ cutting' = "take"
    BY <1>3
  <2> QED
    BY <1>1, <1>3, <1>4, <1>6, <2>1, <2>2, <2>3, <2>4, SMT DEF Walked, size
<1>13. Laid'
  BY <1>3 DEF CutInv, Laid
<1> QED
  BY <1>10, <1>11, <1>12, <1>13 DEF CutInv

LEMMA WalkOutKeeps == CutInv /\ WalkOut => CutInv'
<1> SUFFICES ASSUME CutInv, WalkOut PROVE CutInv'
  OBVIOUS
<1>1. /\ text' = text /\ encode' = encode /\ pos' = pos /\ i' = i /\ j' = j
      /\ chunks' = chunks /\ starts' = starts /\ far' = far
      /\ cutting = "walk" /\ cutting' = "take"
  BY DEF WalkOut
<1>2. /\ text \in Seq(Byte) /\ encode = UTF8 /\ size \in Nat
      /\ pos \in 0..size /\ i \in 0..size /\ j \in 0..size
  BY SMT DEF CutInv, Typed, size
<1>3. i >= size
  BY <1>2, SMT DEF WalkOut, StepEnds, size, UTF8, GB18030, BIG5, UNICODE
<1>4. MaxLen \in Nat /\ MaxLen' = MaxLen
  <2>1. MaxLen' = MaxLen
    BY <1>1 DEF MaxLen
  <2> QED
    BY <1>2, <2>1, WidthFacts
<1>5. Typed'
  BY <1>1 DEF CutInv, Typed, size
<1>6. Walked'
  <2>1. pos < size /\ (i <= pos \/ (i > pos /\ j = pos /\ i - pos <= MaxLen))
    BY <1>1 DEF CutInv, Walked
  <2>2. size' = size
    BY <1>1 DEF size
  <2> QED
    BY <1>1, <1>2, <1>3, <1>4, <2>1, <2>2, SMT DEF Walked
<1> QED
  BY <1>1, <1>5, <1>6 DEF CutInv, Chained, Laid, size

(* A chunk begins where the last one ended.                                *)
LEMMA TakeKeeps == CutInv /\ Take => CutInv'
<1> SUFFICES ASSUME CutInv, Take PROVE CutInv'
  OBVIOUS
<1>1. /\ text \in Seq(Byte) /\ encode = UTF8 /\ size \in Nat
      /\ pos \in 0..size /\ i \in 0..size /\ j \in 0..size
      /\ chunks \in Seq([from : Nat, to : Nat])
  BY SMT DEF CutInv, Typed, size
<1>2. cutting = "take" /\ pos < size /\ i > pos /\ j = pos /\ i - pos <= MaxLen + 6
  BY DEF Take, CutInv, Walked
<1>3. i # j
  BY <1>1, <1>2, SMT
<1>4. /\ chunks' = Append(chunks, [from |-> pos, to |-> i])
      /\ pos' = pos + (i - j) /\ i' = 0 /\ j' = 0
      /\ cutting' = IF pos' < size THEN "walk" ELSE "cut"
      /\ text' = text /\ encode' = encode /\ starts' = starts /\ far' = far
  BY <1>2, <1>3 DEF Take, size
<1>5. pos' = i
  BY <1>1, <1>2, <1>4, SMT
<1>6. size' = size
  BY <1>4 DEF size
<1>7. [from |-> pos, to |-> i] \in [from : Nat, to : Nat]
  BY <1>1, SMT
<1>8. Typed'
  <2>1. chunks' \in Seq([from : Nat, to : Nat])
    BY <1>1, <1>4, <1>7, SMT
  <2> QED
    BY <1>1, <1>4, <1>5, <1>6, <2>1, SMT DEF Typed
<1>9. Chained'
  BY <1>4, <1>5, <1>6 DEF CutInv, Chained
<1>10. Walked'
  BY <1>1, <1>4, <1>5, <1>6, SMT DEF Walked
<1>11. Laid'
  <2>1. /\ \A k \in DOMAIN chunks :
             chunks[k].from = IF k = 1 THEN 0 ELSE chunks[k - 1].to
        /\ pos = IF chunks = <<>> THEN 0 ELSE chunks[Len(chunks)].to
        /\ \A k \in DOMAIN chunks : chunks[k].to - chunks[k].from + 7 <= MaxLength
    BY DEF CutInv, Laid
  <2> DEFINE n == Len(chunks)
  <2>2. /\ n \in Nat /\ DOMAIN chunks = 1..n
        /\ (chunks = <<>> <=> n = 0)
        /\ Len(chunks') = n + 1 /\ DOMAIN chunks' = 1..n + 1
        /\ chunks'[n + 1] = [from |-> pos, to |-> i]
        /\ \A k \in 1..n : chunks'[k] = chunks[k]
    BY <1>1, <1>4, <1>7, SMT
  <2>3. /\ \A k \in 1..n : chunks[k].from = IF k = 1 THEN 0 ELSE chunks[k - 1].to
        /\ pos = IF n = 0 THEN 0 ELSE chunks[n].to
        /\ \A k \in 1..n : chunks[k].to - chunks[k].from + 7 <= MaxLength
    BY <2>1, <2>2
  <2> HIDE DEF n
  <2>4. ASSUME NEW k \in 1..n + 1
        PROVE  chunks'[k].from = IF k = 1 THEN 0 ELSE chunks'[k - 1].to
    <3>1. CASE k \in 1..n
      <4>1. k # 1 => k - 1 \in 1..n
        BY <2>2, <3>1, SMT
      <4> QED
        BY <2>2, <2>3, <3>1, <4>1
    <3>2. CASE k = n + 1
      <4>1. n # 0 => n \in 1..n /\ k - 1 = n /\ k # 1
        BY <2>2, <3>2, SMT
      <4>2. n = 0 => k = 1
        BY <2>2, <3>2, SMT
      <4> QED
        BY <2>2, <2>3, <3>2, <4>1, <4>2
    <3> QED
      BY <2>2, <3>1, <3>2, SMT
  <2>5. i - pos + 7 <= MaxLength
    <3>1. MaxLen \in Nat /\ MaxLen <= ChunkWidth + 1
      BY <1>1, WidthFacts
    <3>2. ChunkWidth \in Nat /\ MaxLength \in Nat /\ ChunkWidth + 14 <= MaxLength
      BY CutAssumption
    <3> QED
      BY <1>1, <1>2, <3>1, <3>2, SMT
  <2>6. ASSUME NEW k \in 1..n + 1
        PROVE  chunks'[k].to - chunks'[k].from + 7 <= MaxLength
    <3>1. CASE k \in 1..n
      BY <2>2, <2>3, <3>1
    <3>2. CASE k = n + 1
      BY <2>2, <2>5, <3>2
    <3> QED
      BY <2>2, <3>1, <3>2, SMT
  <2>7. chunks' # <<>> /\ pos' = chunks'[Len(chunks')].to
    BY <1>5, <2>2, SMT
  <2> QED
    BY <2>2, <2>4, <2>6, <2>7 DEF Laid
<1> QED
  BY <1>8, <1>9, <1>10, <1>11 DEF CutInv

LEMMA CutStep == CutInvUTF8 /\ [CutNext]_cutVars => CutInvUTF8'
<1> SUFFICES ASSUME CutInvUTF8, [CutNext]_cutVars, encode' = UTF8 PROVE CutInv'
  BY DEF CutInvUTF8
<1>1. encode' = encode
  BY DEF CutNext, WalkOn, WalkOut, Take, cutVars
<1>2. CutInv
  BY <1>1 DEF CutInvUTF8
<1>3. CASE UNCHANGED cutVars
  <2>1. MaxLen' = MaxLen
    BY <1>3 DEF cutVars, MaxLen
  <2> QED
    BY <1>2, <1>3, <2>1 DEF CutInv, cutVars, Typed, Chained, Walked, Laid, size
<1> QED
  BY <1>2, <1>3, WalkOnKeeps, WalkOutKeeps, TakeKeeps DEF CutNext

LEMMA CutInvariant == CutSpec => []CutInvUTF8
  BY InitialCut, CutStep, PTL DEF CutSpec

(* The chunks of a UTF-8 description follow each other without a gap or an *)
(* overlap and are in the end all of it, for every text, whether it is     *)
(* sound UTF-8 or not, and every width (get_v7, eString::mid, stepUTF8).   *)
THEOREM AlwaysContiguous == CutSpec => []ChunksContiguous
<1>1. CutInvUTF8 => ChunksContiguous
  <2> SUFFICES ASSUME CutInv, encode = UTF8 PROVE ChunksContiguous
    BY DEF CutInvUTF8, ChunksContiguous
  <2>1. cutting = "cut" => pos = size
    BY DEF CutInv, Walked
  <2>2. /\ \A k \in DOMAIN chunks :
             chunks[k].from = IF k = 1 THEN 0 ELSE chunks[k - 1].to
        /\ pos = IF chunks = <<>> THEN 0 ELSE chunks[Len(chunks)].to
    BY DEF CutInv, Laid
  <2>3. size = 0 => text = <<>>
    BY SMT DEF CutInv, Typed, size
  <2> QED
    BY <2>1, <2>2, <2>3 DEF ChunksContiguous, size
<1> QED
  BY <1>1, CutInvariant, PTL

(* Whatever characters end them, the chunks fit the byte that holds their  *)
(* length, if only 14 more than the width do; 240 and 255 in the code.     *)
THEOREM ChunksAlwaysFit == CutSpec => []ChunksFit
<1>1. CutInvUTF8 => ChunksFit
  BY DEF CutInvUTF8, CutInv, Laid, ChunksFit
<1> QED
  BY <1>1, CutInvariant, PTL

(* Both together.                                                          *)
THEOREM ChunksAlwaysRight == CutSpec => []ChunksRight
<1>1. ChunksContiguous /\ ChunksFit => ChunksRight
  BY DEF ChunksRight
<1> QED
  BY <1>1, AlwaysContiguous, ChunksAlwaysFit, PTL
-----------------------------------------------------------------------------

(* Places in a text from each of which stepping over whole characters goes *)
(* to the next and in the end to the end of the text.                      *)
WholeFrom(s, B) ==
  /\ B \subseteq 0..Len(s)
  /\ \A p \in B : p = Len(s) \/ (Complete(s, p) /\ StepUTF8(s, p) \in B)

LEMMA FollowRange == \A b \in Byte : Follow(b) \in 0..5
<1> TAKE b \in Byte
<1> QED
  BY DEF Follow, Byte

LEMMA StepInText ==
  ASSUME NEW s \in Seq(Byte), NEW p \in 0..Len(s) - 1
  PROVE  /\ s[p + 1] \in Byte /\ Follow(s[p + 1]) \in 0..5
         /\ StepUTF8(s, p) \in (p + 1)..Len(s)
<1>1. s[p + 1] \in Byte
  OBVIOUS
<1>2. Follow(s[p + 1]) \in 0..5
  BY <1>1, FollowRange
<1> QED
  BY <1>1, <1>2 DEF StepUTF8, Complete

(* isUTF8 finds such places, and where there are some it says so.           *)
LEMMA IsUTF8Means ==
  ASSUME NEW s \in Seq(Byte)
  PROVE  IsUTF8(s) <=> \E B : WholeFrom(s, B) /\ 0 \in B
<1> DEFINE P(f) == f = [p \in 0..Len(s) |->
                          p = Len(s) \/ (Complete(s, p) /\ f[StepUTF8(s, p)])]
<1>1. \E f : P(f)
  <2> DEFINE f == [p \in 0..Len(s) |-> \E B : WholeFrom(s, B) /\ p \in B]
  <2>1. ASSUME NEW p \in 0..Len(s)
        PROVE  f[p] <=> (p = Len(s) \/ (Complete(s, p) /\ f[StepUTF8(s, p)]))
    <3>1. CASE p = Len(s)
      <4>1. WholeFrom(s, {p})
        BY <3>1 DEF WholeFrom
      <4> QED
        BY <3>1, <4>1
    <3>2. CASE p # Len(s)
      <4>1. StepUTF8(s, p) \in 0..Len(s)
        BY <3>2, StepInText
      <4>2. ASSUME f[p] PROVE Complete(s, p) /\ f[StepUTF8(s, p)]
        <5>1. PICK B : WholeFrom(s, B) /\ p \in B
          BY <4>2
        <5>2. Complete(s, p) /\ StepUTF8(s, p) \in B
          BY <3>2, <5>1 DEF WholeFrom
        <5> QED
          BY <4>1, <5>1, <5>2
      <4>3. ASSUME Complete(s, p), f[StepUTF8(s, p)] PROVE f[p]
        <5>1. PICK B : WholeFrom(s, B) /\ StepUTF8(s, p) \in B
          BY <4>1, <4>3
        <5>2. WholeFrom(s, B \cup {p})
          BY <4>3, <5>1 DEF WholeFrom
        <5> QED
          BY <5>2
      <4> QED
        BY <3>2, <4>2, <4>3
    <3> QED
      BY <3>1, <3>2
  <2>2. f = [p \in 0..Len(s) |-> p = Len(s) \/ (Complete(s, p) /\ f[StepUTF8(s, p)])]
    BY <2>1
  <2> QED
    BY <2>2
<1> DEFINE ok == CHOOSE f : P(f)
<1>2. P(ok)
  BY <1>1
<1>3. IsUTF8(s) = ok[0]
  BY DEF IsUTF8
<1> HIDE DEF ok
<1>4. \A p \in 0..Len(s) : ok[p] <=> (p = Len(s) \/ (Complete(s, p) /\ ok[StepUTF8(s, p)]))
  BY <1>2
<1>5. ASSUME ok[0] PROVE \E B : WholeFrom(s, B) /\ 0 \in B
  <2> DEFINE B == {p \in 0..Len(s) : ok[p]}
  <2>1. ASSUME NEW p \in B, p # Len(s) PROVE Complete(s, p) /\ StepUTF8(s, p) \in B
    <3>1. p \in 0..Len(s) - 1
      BY <2>1
    <3> QED
      BY <1>4, <2>1, <3>1, StepInText
  <2>2. WholeFrom(s, B)
    BY <2>1 DEF WholeFrom
  <2> QED
    BY <1>5, <2>2
<1>6. ASSUME NEW B, WholeFrom(s, B), 0 \in B PROVE ok[0]
  <2> DEFINE T == {p \in 0..Len(s) : p \in B /\ ~ok[p]}
             R == {Len(s) - p : p \in T}
  <2>1. ASSUME T # {} PROVE FALSE
    <3>1. R \in SUBSET Nat /\ R # {}
      BY <2>1
    <3>2. Min(R) \in R /\ \A y \in R : Min(R) <= y
      <4> HIDE DEF R
      <4> QED
        BY <3>1, MinNat
    <3>3. PICK p \in T : \A q \in T : Len(s) - p <= Len(s) - q
      BY <3>2
    <3>4. p # Len(s)
      BY <1>4, <3>3
    <3>5. Complete(s, p) /\ StepUTF8(s, p) \in B /\ StepUTF8(s, p) \in (p + 1)..Len(s)
      BY <1>6, <3>3, <3>4, StepInText DEF WholeFrom
    <3>6. StepUTF8(s, p) \in T
      BY <1>4, <3>3, <3>4, <3>5
    <3> QED
      BY <3>3, <3>5, <3>6
  <2> QED
    BY <1>6, <2>1
<1> QED
  BY <1>3, <1>5, <1>6

(* What is UTF-8 stays so when something else that is comes behind it.      *)
LEMMA JoinedIsUTF8 ==
  ASSUME NEW s \in Seq(Byte), NEW u \in Seq(Byte), IsUTF8(s), IsUTF8(u)
  PROVE  IsUTF8(s \o u)
<1> DEFINE t == s \o u
           n == Len(s)
<1>1. PICK B : WholeFrom(s, B) /\ 0 \in B
  BY IsUTF8Means
<1>2. PICK C : WholeFrom(u, C) /\ 0 \in C
  BY IsUTF8Means
<1> DEFINE U == {p \in B : p < n} \cup {n + p : p \in C}
<1>3. t \in Seq(Byte) /\ Len(t) = n + Len(u) /\ n \in Nat /\ Len(u) \in Nat
  OBVIOUS
<1>4. \A p \in 0..n - 1 : t[p + 1] = s[p + 1]
  OBVIOUS
<1>5. \A p \in 0..Len(u) - 1 : t[n + p + 1] = u[p + 1]
  OBVIOUS
<1> HIDE DEF t, n
<1>6. ASSUME NEW p \in B, p < n
      PROVE  p \in 0..Len(t) /\ Complete(t, p) /\ StepUTF8(t, p) \in U
  <2>1. p \in 0..n - 1 /\ Complete(s, p) /\ StepUTF8(s, p) \in B
    BY <1>1, <1>3, <1>6 DEF WholeFrom, n
  <2>2. s[p + 1] \in Byte /\ Follow(s[p + 1]) \in 0..5 /\ StepUTF8(s, p) \in (p + 1)..n
    BY <1>6, <2>1, StepInText DEF n
  <2>3. t[p + 1] = s[p + 1]
    BY <1>4, <2>1
  <2> DEFINE f == Follow(s[p + 1])
  <2>4. f \in 0..5 /\ p + f < n /\ \A k \in 1..f : Continues(s[p + 1 + k])
    BY <2>1, <2>2 DEF Complete, n
  <2>9. Follow(t[p + 1]) = f
    BY <2>3
  <2> HIDE DEF f
  <2>5. ASSUME NEW k \in 1..f PROVE Continues(t[p + 1 + k])
    <3>1. p + k \in 0..n - 1
      BY <1>3, <2>1, <2>4
    <3>2. t[(p + k) + 1] = s[(p + k) + 1]
      BY <1>4, <3>1
    <3>3. (p + k) + 1 = p + 1 + k
      BY <2>1, <2>4
    <3> QED
      BY <2>4, <3>2, <3>3
  <2>6. Complete(t, p)
    BY <1>3, <2>1, <2>4, <2>5, <2>9 DEF Complete
  <2>7. StepUTF8(t, p) = StepUTF8(s, p)
    BY <2>1, <2>3, <2>6 DEF StepUTF8
  <2>8. StepUTF8(s, p) \in U
    <3>1. CASE StepUTF8(s, p) < n
      BY <2>1, <3>1
    <3>2. CASE StepUTF8(s, p) = n
      <4>1. n = n + 0
        BY <1>3
      <4> QED
        BY <1>2, <3>2, <4>1
    <3> QED
      BY <1>3, <2>2, <3>1, <3>2
  <2> QED
    BY <1>3, <2>1, <2>6, <2>7, <2>8
<1>7. ASSUME NEW p \in C
      PROVE  n + p \in 0..Len(t) /\ (n + p = Len(t) \/ (Complete(t, n + p) /\ StepUTF8(t, n + p) \in U))
  <2>1. p \in 0..Len(u)
    BY <1>2, <1>7 DEF WholeFrom
  <2>2. CASE p = Len(u)
    BY <1>3, <2>1, <2>2
  <2>3. CASE p # Len(u)
    <3>1. p \in 0..Len(u) - 1 /\ Complete(u, p) /\ StepUTF8(u, p) \in C
      BY <1>2, <1>3, <1>7, <2>1, <2>3 DEF WholeFrom
    <3>2. u[p + 1] \in Byte /\ Follow(u[p + 1]) \in 0..5 /\ StepUTF8(u, p) \in (p + 1)..Len(u)
      BY <3>1, StepInText
    <3>3. t[n + p + 1] = u[p + 1]
      BY <1>5, <3>1
    <3> DEFINE f == Follow(u[p + 1])
               m == Len(u)
    <3>4. f \in 0..5 /\ p + f < m /\ (\A k \in 1..f : Continues(u[p + 1 + k]))
            /\ p \in 0..m - 1 /\ m \in Nat /\ Len(t) = n + m
      BY <1>3, <3>1, <3>2 DEF Complete
    <3>8. Follow(t[n + p + 1]) = f /\ StepUTF8(u, p) = p + 1 + f
      BY <3>1, <3>3 DEF StepUTF8
    <3>9. \A q \in 0..m - 1 : t[n + q + 1] = u[q + 1]
      BY <1>5
    <3> HIDE DEF f, m
    <3>5. ASSUME NEW k \in 1..f PROVE Continues(t[n + p + 1 + k])
      <4>1. p + k \in 0..m - 1
        BY <3>4
      <4>2. (p + k) + 1 = p + 1 + k /\ n + (p + k) + 1 = n + p + 1 + k
        BY <1>3, <3>4
      <4>3. t[n + (p + k) + 1] = u[(p + k) + 1]
        BY <3>9, <4>1
      <4> QED
        BY <3>4, <4>2, <4>3
    <3>6. Complete(t, n + p)
      <4>1. n + p + f < Len(t)
        BY <1>3, <3>4
      <4>2. \A k \in 1..f : Continues(t[n + p + 1 + k])
        BY <3>5
      <4> QED
        BY <3>8, <4>1, <4>2 DEF Complete
    <3>7. StepUTF8(t, n + p) = n + StepUTF8(u, p)
      <4>1. StepUTF8(t, n + p) = n + p + 1 + f
        BY <3>6, <3>8 DEF StepUTF8
      <4> QED
        BY <1>3, <3>4, <3>8, <4>1
    <3> QED
      BY <1>3, <2>1, <3>1, <3>6, <3>7
  <2> QED
    BY <2>2, <2>3
<1>8. WholeFrom(t, U) /\ 0 \in U
  <2>1. 0 \in U
    <3>1. 0 \in B /\ 0 \in C /\ n \in Nat
      BY <1>1, <1>2, <1>3
    <3>2. CASE n = 0
      <4>1. 0 = n + 0
        BY <3>2
      <4> QED
        BY <3>1, <4>1
    <3>3. CASE n # 0
      BY <3>1, <3>3
    <3> QED
      BY <3>2, <3>3
  <2>2. \A p \in U : p \in 0..Len(t) /\ (p = Len(t) \/ (Complete(t, p) /\ StepUTF8(t, p) \in U))
    <3> HIDE DEF U
    <3>1. \A p \in U : (p \in B /\ p < n) \/ \E q \in C : p = n + q
      BY DEF U
    <3> QED
      BY <1>6, <1>7, <3>1
  <2> HIDE DEF U
  <2> QED
    BY <2>1, <2>2 DEF WholeFrom
<1> HIDE DEF U
<1>9. IsUTF8(t)
  BY <1>3, <1>8, IsUTF8Means
<1> QED
  BY <1>9 DEF t

LEMMA EmptyIsUTF8 == IsUTF8(<<>>)
<1> DEFINE s == <<>>
<1>1. s \in Seq(Byte) /\ WholeFrom(s, {0})
  BY DEF WholeFrom
<1> HIDE DEF s
<1>2. IsUTF8(s)
  BY <1>1, IsUTF8Means
<1> QED
  BY <1>2 DEF s

(* One whole character is UTF-8.                                            *)
LEMMA CharacterIsUTF8 ==
  ASSUME NEW s \in Seq(Byte), Len(s) = 1 + Follow(s[1]),
         \A k \in 2..Len(s) : Continues(s[k])
  PROVE  IsUTF8(s)
<1>1. Len(s) \in Nat /\ 0 \in 0..Len(s)
  OBVIOUS
<1>2. s # <<>> => s[1] \in Byte /\ Follow(s[1]) \in 0..5
  BY FollowRange
<1>3. CASE s = <<>>
  BY <1>3, EmptyIsUTF8
<1>4. CASE s # <<>>
  <2>1. Complete(s, 0)
    BY <1>1, <1>2, <1>4 DEF Complete
  <2>2. StepUTF8(s, 0) = Len(s)
    BY <1>1, <1>2, <1>4, <2>1 DEF StepUTF8
  <2>3. WholeFrom(s, {0, Len(s)})
    BY <1>1, <2>1, <2>2 DEF WholeFrom
  <2> QED
    BY <2>3, IsUTF8Means
<1> QED
  BY <1>3, <1>4
-----------------------------------------------------------------------------
Characters == {c \in Nat : c < 1114112}

(* What Utf8 gives for a code is one character, of four bytes at most, and  *)
(* of no more than three for a code of two bytes.                           *)
LEMMA Utf8Is ==
  ASSUME NEW c \in Characters
  PROVE  /\ Utf8(c) \in Seq(Byte) /\ IsUTF8(Utf8(c))
         /\ Len(Utf8(c)) \in 1..4
         /\ c < 65536 => Len(Utf8(c)) <= 3
         /\ c < 128 => Len(Utf8(c)) = 1
<1>1. \A unit \in {1, 64, 4096} : Low(c, unit) \in 128..191
  BY DEF Low, Characters
<1>2. \A unit \in {1, 64, 4096} : Low(c, unit) \in Byte /\ Continues(Low(c, unit))
  BY <1>1 DEF Byte, Continues
<1>3. CASE c < 128
  <2>1. Utf8(c) = <<c>>
    BY <1>3 DEF Utf8, Characters
  <2>2. c \in Byte /\ Follow(c) = 0
    BY <1>3 DEF Byte, Follow, Characters
  <2> DEFINE u == <<c>>
  <2>3. u \in Seq(Byte) /\ Len(u) = 1 /\ u[1] = c
    BY <2>2
  <2> HIDE DEF u
  <2>4. IsUTF8(u)
    <3> DEFINE f == Follow(u[1])
    <3>1. Len(u) = 1 + f /\ \A k \in 2..Len(u) : Continues(u[k])
      BY <2>2, <2>3
    <3> QED
      BY <2>3, <3>1, CharacterIsUTF8
  <2> QED
    BY <2>1, <2>3, <2>4 DEF u
<1>4. CASE c >= 128 /\ c < 2048
  <2> DEFINE a == 192 + c \div 64
             b == Low(c, 1)
             u == <<a, b>>
  <2>1. Utf8(c) = u
    BY <1>4 DEF Utf8, Characters
  <2>2. a \in 192..223
    BY <1>4 DEF Characters
  <2> HIDE DEF a
  <2>3. a \in Byte /\ Follow(a) = 1
    BY <2>2 DEF Byte, Follow
  <2>4. b \in Byte /\ Continues(b)
    BY <1>2
  <2> HIDE DEF b
  <2>5. u \in Seq(Byte) /\ Len(u) = 2 /\ u[1] = a /\ u[2] = b
    BY <2>3, <2>4
  <2> HIDE DEF u
  <2>6. IsUTF8(u)
    <3>1. Follow(u[1]) = 1 /\ \A k \in 2..Len(u) : Continues(u[k])
      BY <2>3, <2>4, <2>5
    <3>2. Len(u) = 1 + Follow(u[1])
      BY <2>5, <3>1
    <3> QED
      BY <2>5, <3>1, <3>2, CharacterIsUTF8
  <2> QED
    BY <1>4, <2>1, <2>5, <2>6 DEF Characters
<1>5. CASE c >= 2048 /\ c < 65536
  <2> DEFINE a == 224 + c \div 4096
             b == Low(c, 64)
             e == Low(c, 1)
             u == <<a, b, e>>
  <2>1. Utf8(c) = u
    BY <1>5 DEF Utf8, Characters
  <2>2. a \in 224..239
    BY <1>5 DEF Characters
  <2> HIDE DEF a
  <2>3. a \in Byte /\ Follow(a) = 2
    BY <2>2 DEF Byte, Follow
  <2>4. b \in Byte /\ Continues(b) /\ e \in Byte /\ Continues(e)
    BY <1>2
  <2> HIDE DEF b, e
  <2>5. u \in Seq(Byte) /\ Len(u) = 3 /\ u[1] = a /\ u[2] = b /\ u[3] = e
    BY <2>3, <2>4
  <2> HIDE DEF u
  <2>6. \A k \in 2..Len(u) : Continues(u[k])
    BY <2>4, <2>5
  <2>7. IsUTF8(u)
    <3>1. Len(u) = 1 + Follow(u[1])
      BY <2>3, <2>5
    <3> QED
      BY <2>5, <2>6, <3>1, CharacterIsUTF8
  <2> QED
    BY <1>5, <2>1, <2>5, <2>7 DEF Characters
<1>6. CASE c >= 65536
  <2> DEFINE a == 240 + c \div 262144
             b == Low(c, 4096)
             e == Low(c, 64)
             h == Low(c, 1)
             u == <<a, b, e, h>>
  <2>1. Utf8(c) = u
    BY <1>6 DEF Utf8, Characters
  <2>2. a \in 240..244
    BY <1>6 DEF Characters
  <2> HIDE DEF a
  <2>3. a \in Byte /\ Follow(a) = 3
    BY <2>2 DEF Byte, Follow
  <2>4. b \in Byte /\ Continues(b) /\ e \in Byte /\ Continues(e) /\ h \in Byte /\ Continues(h)
    BY <1>2
  <2> HIDE DEF b, e, h
  <2>5. u \in Seq(Byte) /\ Len(u) = 4 /\ u[1] = a /\ u[2] = b /\ u[3] = e /\ u[4] = h
    BY <2>3, <2>4
  <2> HIDE DEF u
  <2>6. \A k \in 2..Len(u) : Continues(u[k])
    BY <2>4, <2>5
  <2>7. IsUTF8(u)
    <3>1. Len(u) = 1 + Follow(u[1])
      BY <2>3, <2>5
    <3> QED
      BY <2>5, <2>6, <3>1, CharacterIsUTF8
  <2> QED
    BY <1>6, <2>1, <2>5, <2>7 DEF Characters
<1> QED
  BY <1>3, <1>4, <1>5, <1>6 DEF Characters
-----------------------------------------------------------------------------
(* What a lookup among n bytes gives: so many bytes and a character, of two *)
(* bytes if it uses two, or none.                                           *)
Result(r, n) ==
  /\ r.n \in {IlSeq, TooFew, 1, 2, 4}
  /\ r.n > 0 => r.n <= n /\ r.code \in Characters
  /\ r.n = 1 => r.code < 128
  /\ r.n = 2 => r.code < 65536

LEMMA BadResult ==
  ASSUME NEW n \in Nat PROVE Result(Bad(IlSeq), n) /\ Result(Bad(TooFew), n)
BY DEF Result, Bad, IlSeq, TooFew

LEMMA GoodResult ==
  ASSUME NEW n \in Nat, n >= 2, NEW c \in Nat, c < 65536
  PROVE  Result(Good(2, c), n)
BY DEF Result, Good, Characters, IlSeq, TooFew

LEMMA FirstResult ==
  ASSUME NEW n \in Nat, NEW r, NEW other, Result(r, n), Result(other, n)
  PROVE  Result(First(r, other), n)
BY DEF First

LEMMA FoundResult ==
  ASSUME NEW n \in Nat, n >= 2, NEW p, NEW full, NEW entry \in Nat, entry < 65536
  PROVE  Result(Found(p, full, entry), n)
BY BadResult, GoodResult DEF Found

LEMMA GbkResult ==
  ASSUME NEW n \in Nat, n >= 2, NEW c1 \in Byte, NEW c2 \in Byte, NEW full,
         NEW entry \in Nat, entry < 65536
  PROVE  Result(Gbk(c1, c2, full, entry), n)
<1>1. Result(Good(2, 183), n) /\ Result(Good(2, 8212), n)
  BY GoodResult
<1>2. \A p : Result(Found(p, full, entry), n)
  BY FoundResult
<1>3. c2 \in 161..170 => Result(Good(2, 8560 + c2 - 161), n)
  <2> SUFFICES ASSUME c2 \in 161..170 PROVE Result(Good(2, 8560 + c2 - 161), n)
    OBVIOUS
  <2>1. 8560 + c2 - 161 \in Nat /\ 8560 + c2 - 161 < 65536
    OBVIOUS
  <2> QED
    BY <2>1, GoodResult
<1>4. Result(Bad(IlSeq), n)
  BY BadResult
<1> DEFINE row1 == IF c1 = 161 /\ c2 = 164 THEN Good(2, 183)
                   ELSE IF c1 = 161 /\ c2 = 170 THEN Good(2, 8212)
                   ELSE IF c1 \in 161..247 /\ c2 \in 161..254
                     THEN First(Found(Gb2312Place(c1, c2), full, entry),
                                Found(Cp936Place(c1, c2), full, entry))
                   ELSE Bad(IlSeq)
           rest == IF c1 \in 129..160 THEN Found(ExtPlace(c1, c2), full, entry)
                   ELSE IF c1 \in 168..254 THEN Found(Ext2Place(c1, c2), full, entry)
                   ELSE IF c1 = 162 /\ c2 \in 161..170 THEN Good(2, 8560 + c2 - 161)
                   ELSE Bad(IlSeq)
<1>5. Result(First(Found(Gb2312Place(c1, c2), full, entry),
                   Found(Cp936Place(c1, c2), full, entry)), n)
  BY <1>2, FirstResult
<1>6. Result(row1, n)
  BY <1>1, <1>4, <1>5
<1>7. Result(rest, n)
  BY <1>2, <1>3, <1>4
<1>8. Gbk(c1, c2, full, entry) = IF c1 \in 129..254 THEN First(row1, rest) ELSE Bad(IlSeq)
  BY DEF Gbk
<1> HIDE DEF row1, rest
<1>9. Result(First(row1, rest), n)
  BY <1>6, <1>7, FirstResult
<1> QED
  BY <1>4, <1>8, <1>9

LEMMA BlockCodes ==
  \A b \in Blocks : b[1] \in Nat /\ b[2] \in Nat /\ b[3] \in Nat
                      /\ b[3] + b[2] - b[1] < 65536
BY DEF Blocks

LEMMA ExtResult ==
  ASSUME NEW n \in Nat, n >= 2, NEW c1 \in Byte, NEW c2 \in Byte, NEW full,
         NEW entry \in Nat, entry < 65536
  PROVE  Result(Gb18030Ext(c1, c2, full, entry), n)
<1> DEFINE x == Index(190, c1, c2)
           block == {b \in Blocks : x >= b[1] /\ x <= b[2]}
           b == CHOOSE b \in block : TRUE
<1>1. x \in Int
  BY DEF Index, Byte
<1>2. Result(Found(Gb18030Place(c1, c2), full, entry), n) /\ Result(Bad(IlSeq), n)
  BY FoundResult, BadResult
<1>3. ASSUME block # {} PROVE Result(Good(2, b[3] + x - b[1]), n)
  <2> HIDE DEF x
  <2>1. b \in Blocks /\ x >= b[1] /\ x <= b[2]
    BY <1>3
  <2> HIDE DEF b, block
  <2>2. b[1] \in Nat /\ b[2] \in Nat /\ b[3] \in Nat /\ b[3] + b[2] - b[1] < 65536
    BY <2>1, BlockCodes
  <2>3. b[3] + x - b[1] \in Nat /\ b[3] + x - b[1] < 65536
    BY <1>1, <2>1, <2>2
  <2> QED
    BY <2>3, GoodResult
<1>4. Gb18030Ext(c1, c2, full, entry)
        = IF ~(c1 \in {162, 215, 254} \cup 164..169 /\ SecondByte(c2)) THEN Bad(IlSeq)
          ELSE IF block # {} THEN Good(2, b[3] + x - b[1])
          ELSE Found(Gb18030Place(c1, c2), full, entry)
  BY DEF Gb18030Ext
<1> HIDE DEF x, block, b
<1> QED
  BY <1>2, <1>3, <1>4

LEMMA FourBytesAre ==
  ASSUME NEW n \in Nat, NEW s
  PROVE  /\ FourBytes(s, n) \in {TooFew, IlSeq, 4}
         /\ FourBytes(s, n) = 4 =>
              n >= 4 /\ s[2] \in 48..57 /\ s[3] \in 129..254 /\ s[4] \in 48..57
BY DEF FourBytes, TooFew, IlSeq

LEMMA UniResult ==
  ASSUME NEW s \in Seq(Byte), NEW n \in Nat, NEW full, NEW entry \in Nat, entry < 65536
  PROVE  Result(Gb18030Uni(s, n, full, entry), n)
<1>1. Result(Bad(IlSeq), n) /\ Result(Bad(TooFew), n)
  BY BadResult
<1>2. FourBytes(s, n) = 4 => Result(Good(4, entry), n)
  BY FourBytesAre DEF Result, Good, Characters, IlSeq, TooFew
<1>3. FourBytes(s, n) # 4 => Result(Bad(FourBytes(s, n)), n)
  BY <1>1, FourBytesAre
<1> QED
  BY <1>1, <1>2, <1>3 DEF Gb18030Uni

LEMMA IndexIsNat ==
  ASSUME NEW x \in 144..227, NEW y \in 48..57, NEW z \in 129..254, NEW w \in 48..57
  PROVE  (((x - 144) * 10 + y - 48) * 126 + z - 129) * 10 + w - 48 \in Nat
OBVIOUS

LEMMA FourIndexIsNat ==
  ASSUME NEW s, s[1] \in 144..227, s[2] \in 48..57, s[3] \in 129..254, s[4] \in 48..57
  PROVE  FourIndex(144, s) \in Nat
<1> DEFINE x == s[1]
           y == s[2]
           z == s[3]
           w == s[4]
<1>1. x \in 144..227 /\ y \in 48..57 /\ z \in 129..254 /\ w \in 48..57
  OBVIOUS
<1>2. FourIndex(144, s) = (((x - 144) * 10 + y - 48) * 126 + z - 129) * 10 + w - 48
  BY Zenon DEF FourIndex
<1> HIDE DEF x, y, z, w
<1>3. (((x - 144) * 10 + y - 48) * 126 + z - 129) * 10 + w - 48 \in Nat
  BY <1>1, IndexIsNat
<1> QED
  BY <1>2, <1>3, Zenon

LEMMA PlanesResult ==
  ASSUME NEW s \in Seq(Byte), NEW n \in Nat
  PROVE  Result(Planes(s, n), n)
<1>1. Result(Bad(IlSeq), n) /\ Result(Bad(TooFew), n)
  BY BadResult
<1>2. ASSUME FourBytes(s, n) = 4, s[1] \in 144..227, FourIndex(144, s) < 1048576
      PROVE  Result(Good(4, 65536 + FourIndex(144, s)), n)
  <2>1. n >= 4 /\ s[2] \in 48..57 /\ s[3] \in 129..254 /\ s[4] \in 48..57
    BY <1>2, FourBytesAre
  <2>2. FourIndex(144, s) \in Nat
    <3>1. s[1] \in 144..227
      BY <1>2, SMT
    <3> QED
      BY <2>1, <3>1, FourIndexIsNat, Zenon
  <2> DEFINE c == FourIndex(144, s)
  <2>3. c \in Nat /\ c < 1048576
    BY <1>2, <2>2
  <2> HIDE DEF c
  <2>4. 65536 + c \in Characters
    BY <2>3 DEF Characters
  <2> DEFINE e == 65536 + c
  <2>5. e \in Characters
    BY <2>4
  <2> HIDE DEF e
  <2>6. Result(Good(4, e), n)
    BY <2>1, <2>5 DEF Result, Good, IlSeq, TooFew
  <2> QED
    BY <2>6 DEF c, e
<1>3. FourBytes(s, n) # 4 => Result(Bad(FourBytes(s, n)), n)
  BY <1>1, FourBytesAre
<1>4. Planes(s, n) = IF s[1] \notin 144..227 THEN Bad(IlSeq)
                     ELSE IF FourBytes(s, n) # 4 THEN Bad(FourBytes(s, n))
                     ELSE IF FourIndex(144, s) < 1048576 THEN Good(4, 65536 + FourIndex(144, s))
                     ELSE Bad(IlSeq)
  BY DEF Planes
<1> DEFINE g == Good(4, 65536 + FourIndex(144, s))
           below == FourIndex(144, s) < 1048576
<1>5. FourBytes(s, n) = 4 /\ s[1] \in 144..227 /\ below => Result(g, n)
  BY <1>2, SMT
<1>6. Planes(s, n) = IF s[1] \notin 144..227 THEN Bad(IlSeq)
                     ELSE IF FourBytes(s, n) # 4 THEN Bad(FourBytes(s, n))
                     ELSE IF below THEN g ELSE Bad(IlSeq)
  BY <1>4
<1> HIDE DEF g, below
<1> QED
  BY <1>1, <1>3, <1>5, <1>6

LEMMA UserDefinedResult ==
  ASSUME NEW n \in Nat, n >= 2, NEW c1 \in Byte, NEW c2 \in Byte
  PROVE  Result(UserDefined(c1, c2), n)
<1>1. CASE c1 \in 170..175 \cup 248..254 /\ c2 \in 161..254
  <2> DEFINE e == 57344 + 94 * (IF c1 >= 248 THEN c1 - 242 ELSE c1 - 170) + c2 - 161
  <2>1. UserDefined(c1, c2) = Good(2, e)
    BY <1>1 DEF UserDefined
  <2>2. e \in Nat /\ e < 65536
    BY <1>1
  <2> HIDE DEF e
  <2> QED
    BY <2>1, <2>2, GoodResult
<1>2. CASE ~(c1 \in 170..175 \cup 248..254 /\ c2 \in 161..254)
              /\ c1 \in 161..167 /\ c2 \in (64..161) \ {127}
  <2> DEFINE e == 58566 + 96 * (c1 - 161) + c2 - (IF c2 >= 128 THEN 65 ELSE 64)
  <2>1. UserDefined(c1, c2) = Good(2, e)
    BY <1>2 DEF UserDefined
  <2>2. e \in Nat /\ e < 65536
    BY <1>2
  <2> HIDE DEF e
  <2> QED
    BY <2>1, <2>2, GoodResult
<1>3. CASE ~(c1 \in 170..175 \cup 248..254 /\ c2 \in 161..254)
              /\ ~(c1 \in 161..167 /\ c2 \in (64..161) \ {127})
  <2>1. UserDefined(c1, c2) = Bad(IlSeq)
    BY <1>3 DEF UserDefined
  <2> QED
    BY <2>1, BadResult
<1> QED
  BY <1>1, <1>2, <1>3

LEMMA Gb18030Result ==
  ASSUME NEW s \in Seq(Byte), s # <<>>, NEW full, NEW entry \in Nat, entry < 65536
  PROVE  Result(Gb18030(s, Len(s), full, entry), Len(s))
<1> DEFINE n == Len(s)
<1>1. n \in Nat /\ n >= 1 /\ s[1] \in Byte
  OBVIOUS
<1>2. CASE s[1] < 128
  <2>1. Gb18030(s, n, full, entry) = Good(1, s[1])
    BY <1>2 DEF Gb18030
  <2> DEFINE b == s[1]
  <2>2. b \in Byte /\ b < 128
    BY <1>1, <1>2
  <2> HIDE DEF n, b
  <2>3. Result(Good(1, b), n)
    BY <1>1, <2>2 DEF Result, Good, Characters, IlSeq, TooFew, Byte
  <2> QED
    BY <2>1, <2>3 DEF n, b
<1>3. CASE ~(s[1] < 128) /\ n < 2
  <2>1. Gb18030(s, n, full, entry) \in {Bad(TooFew), Bad(IlSeq)}
    BY <1>3 DEF Gb18030
  <2> HIDE DEF n
  <2>2. Result(Gb18030(s, n, full, entry), n)
    BY <1>1, <2>1, BadResult
  <2> QED
    BY <2>2 DEF n
<1>4. CASE ~(s[1] < 128) /\ ~(n < 2)
  <2>1. n >= 2 /\ s[2] \in Byte
    BY <1>1, <1>4
  <2> DEFINE r1 == Gbk(s[1], s[2], full, entry)
             r2 == Gb18030Ext(s[1], s[2], full, entry)
             r3 == Gb18030Uni(s, n, full, entry)
             r4 == UserDefined(s[1], s[2])
             r5 == Planes(s, n)
  <2>2. Gb18030(s, n, full, entry) = First(r1, First(r2, First(r3, First(r4, r5))))
    BY <1>4 DEF Gb18030
  <2> HIDE DEF n
  <2>3. Result(r1, n) /\ Result(r2, n) /\ Result(r3, n) /\ Result(r4, n) /\ Result(r5, n)
    BY <1>1, <2>1, GbkResult, ExtResult, UniResult, UserDefinedResult, PlanesResult
  <2> HIDE DEF r1, r2, r3, r4, r5
  <2>4. Result(First(r4, r5), n)
    BY <1>1, <2>3, FirstResult
  <2>5. Result(First(r3, First(r4, r5)), n)
    BY <1>1, <2>3, <2>4, FirstResult
  <2>6. Result(First(r2, First(r3, First(r4, r5))), n)
    BY <1>1, <2>3, <2>5, FirstResult
  <2>7. Result(First(r1, First(r2, First(r3, First(r4, r5)))), n)
    BY <1>1, <2>3, <2>6, FirstResult
  <2> QED
    BY <2>2, <2>7 DEF n
<1> QED
  BY <1>2, <1>3, <1>4
-----------------------------------------------------------------------------
(* A UTF-16 text, word by word from its end: what is still to be converted  *)
(* from the k-th word on, if that is where a character begins.              *)
Piece16(k) ==
  IF ~High(W(k)) THEN Utf8(W(k))
  ELSE IF k + 1 = Words THEN <<>> ELSE Utf8(Paired(W(k), W(k + 1)))

Endings16(f) ==
  /\ f \in [1..Words + 1 -> Seq(Byte)]
  /\ f[1] = Utf16Text /\ f[Words + 1] = <<>>
  /\ \A k \in 1..Words : f[k] = IF Low10(W(k)) THEN f[k + 1] ELSE Piece16(k) \o f[k + 1]

BytesOfWords ==
  /\ data \in Seq(Byte) /\ start \in Nat /\ start <= Len(data)

LEMMA WordsAre ==
  ASSUME BytesOfWords
  PROVE  /\ Words \in Nat /\ start + 2 * Words <= Len(data)
         /\ \A k \in 1..Words :
              W(k) \in Nat /\ W(k) < 65536
<1>1. /\ Len(data) \in Nat /\ start \in Nat /\ start <= Len(data)
      /\ \A x \in 1..Len(data) : data[x] \in Byte
  BY DEF BytesOfWords
<1>2. Words \in Nat /\ start + 2 * Words <= Len(data)
  <2> DEFINE m == Len(data)
  <2>1. m \in Nat /\ start \in Nat /\ start <= m
    BY <1>1
  <2> HIDE DEF m
  <2>2. (m - start) \div 2 \in Nat /\ start + 2 * ((m - start) \div 2) <= m
    BY <2>1
  <2> QED
    BY <2>2 DEF Words, m
<1>3. ASSUME NEW k \in 1..Words PROVE W(k) \in Nat /\ W(k) < 65536
  <2> DEFINE b1 == data[start + 2 * k - 1]
             b2 == data[start + 2 * k]
  <2>1. start + 2 * k - 1 \in 1..Len(data) /\ start + 2 * k \in 1..Len(data)
    BY <1>1, <1>2, <1>3
  <2>2. b1 \in Byte /\ b2 \in Byte
    BY <1>1, <2>1
  <2>3. W(k) = IF coding = UTF16BE THEN 256 * b1 + b2 ELSE 256 * b2 + b1
    BY DEF W
  <2> HIDE DEF b1, b2
  <2>4. 256 * b1 + b2 \in Nat /\ 256 * b1 + b2 < 65536 /\ 256 * b2 + b1 \in Nat /\ 256 * b2 + b1 < 65536
    BY <2>2 DEF Byte
  <2> DEFINE c1 == 256 * b1 + b2
             c2 == 256 * b2 + b1
  <2>5. c1 \in Nat /\ c1 < 65536 /\ c2 \in Nat /\ c2 < 65536 /\ W(k) \in {c1, c2}
    BY <2>3, <2>4
  <2> HIDE DEF c1, c2
  <2> QED
    BY <2>5
<1> QED
  BY <1>2, <1>3

LEMMA PairedIs ==
  ASSUME NEW a \in Nat, NEW b \in Nat
  PROVE  Paired(a, b) \in Characters /\ Paired(a, b) >= 65536
<1> DEFINE x == a % 1024
           y == b % 1024
<1>1. x \in 0..1023 /\ y \in 0..1023
  OBVIOUS
<1> HIDE DEF x, y
<1>2. 65536 + x * 1024 + y \in Nat /\ 65536 + x * 1024 + y < 1114112 /\ 65536 + x * 1024 + y >= 65536
  BY <1>1, SMT
<1> QED
  BY <1>2, SMT DEF Paired, Characters, x, y

LEMMA Pieces16 ==
  ASSUME BytesOfWords, SoundUtf16, NEW k \in 1..Words, ~Low10(W(k))
  PROVE  Piece16(k) \in Seq(Byte)
<1>1. Words \in Nat /\ W(k) \in Nat /\ W(k) < 65536
  BY WordsAre
<1>2. Utf8(W(k)) \in Seq(Byte)
  <2>1. W(k) \in Characters
    BY <1>1, SMT DEF Characters
  <2> QED
    BY <2>1, Utf8Is
<1>3. High(W(k)) => Utf8(Paired(W(k), W(k + 1))) \in Seq(Byte)
  <2> SUFFICES ASSUME High(W(k)) PROVE Utf8(Paired(W(k), W(k + 1))) \in Seq(Byte)
    OBVIOUS
  <2>1. k < Words
    BY DEF SoundUtf16
  <2>2. k + 1 \in 1..Words
    BY <1>1, <2>1
  <2>3. W(k + 1) \in Nat
    BY <2>2, WordsAre
  <2>4. Paired(W(k), W(k + 1)) \in Characters
    BY <1>1, <2>3, PairedIs
  <2> QED
    BY <2>4, Utf8Is
<1>4. <<>> \in Seq(Byte)
  OBVIOUS
<1> QED
  BY <1>2, <1>3, <1>4 DEF Piece16

LEMMA SuffixesExist ==
  ASSUME BytesOfWords, SoundUtf16
  PROVE  \E f : Endings16(f)
<1> DEFINE n == Words
           S == Seq(Byte)
           Here(k, v) == IF Low10(W(k)) THEN v ELSE Piece16(k) \o v
           g == [p \in (1..n) \X S |-> Here(n + 1 - p[1], p[2])]
           P(f) == f = [k \in 1..Words + 1 |->
                     IF k > Words THEN <<>>
                     ELSE IF Low10(W(k)) THEN f[k + 1]
                     ELSE IF ~High(W(k)) THEN Utf8(W(k)) \o f[k + 1]
                     ELSE (IF k + 1 = Words THEN <<>> ELSE Utf8(Paired(W(k), W(k + 1)))) \o f[k + 1]]
           Q(f) == f = [k \in 1..n + 1 |-> IF k > n THEN <<>> ELSE Here(k, f[k + 1])]
           from == CHOOSE f : P(f)
<1>1. n \in Nat
  BY WordsAre
<1>2. \A k \in 1..n, v \in S : Here(k, v) \in S
  <2> TAKE k \in 1..n, v \in S
  <2>1. CASE Low10(W(k))
    BY <2>1
  <2>2. CASE ~Low10(W(k))
    <3>1. Piece16(k) \in S
      BY <2>2, Pieces16
    <3> DEFINE u == Piece16(k)
    <3>2. u \in S
      BY <3>1
    <3> HIDE DEF u
    <3>3. u \o v \in S
      BY <3>2
    <3> QED
      BY <2>2, <3>3 DEF u
  <2> QED
    BY <2>1, <2>2
<1>3. \A f : P(f) <=> Q(f)
  <2> TAKE f
  <2>1. \A k \in 1..n : Here(k, f[k + 1]) =
                   IF Low10(W(k)) THEN f[k + 1]
                     ELSE IF ~High(W(k)) THEN Utf8(W(k)) \o f[k + 1]
                     ELSE (IF k + 1 = Words THEN <<>> ELSE Utf8(Paired(W(k), W(k + 1)))) \o f[k + 1]
    BY DEF Piece16
  <2>2. \A k \in 1..n + 1 : k > n \/ k \in 1..n
    BY <1>1
  <2> HIDE DEF Here
  <2> QED
    BY <1>1, <2>1, <2>2
<1> HIDE DEF Here
<1>4. g \in [(1..n) \X S -> S]
  <2>1. \A p \in (1..n) \X S : n + 1 - p[1] \in 1..n /\ p[2] \in S
    BY <1>1
  <2> QED
    BY <1>2, <2>1
<1>5. \E f : Repeats(f, S, <<>>, n, g)
  <2>1. <<>> \in S
    OBVIOUS
  <2> HIDE DEF g, S
  <2> QED
    BY <1>1, <1>4, <2>1, RepetitionExists
<1>6. PICK h : Repeats(h, S, <<>>, n, g)
  BY <1>5
<1>7. /\ h \in [0..n -> S] /\ h[0] = <<>>
      /\ \A x \in 1..n : h[x] = Here(n + 1 - x, h[x - 1])
  <2>1. h \in [0..n -> S] /\ \A x \in 0..n : h[x] = IF x = 0 THEN <<>> ELSE g[<<x, h[x - 1]>>]
    <3> HIDE DEF g
    <3> QED
      BY <1>6 DEF Repeats
  <2>2. ASSUME NEW x \in 1..n PROVE h[x] = Here(n + 1 - x, h[x - 1])
    <3>1. x \in 0..n /\ x # 0 /\ x - 1 \in 0..n
      BY <1>1
    <3>2. <<x, h[x - 1]>> \in (1..n) \X S
      BY <2>1, <3>1
    <3>3. g[<<x, h[x - 1]>>] = Here(n + 1 - x, h[x - 1])
      BY <3>2
    <3> HIDE DEF g
    <3> QED
      BY <2>1, <3>1, <3>3
  <2>3. h[0] = <<>>
    <3>1. 0 \in 0..n
      BY <1>1
    <3> HIDE DEF g
    <3> QED
      BY <2>1, <3>1
  <2>4. h \in [0..n -> S]
    BY <2>1, Zenon
  <2> QED
    BY <2>2, <2>3, <2>4, Zenon
<1>8. \E f : Q(f)
  <2> DEFINE f == [k \in 1..n + 1 |-> h[n + 1 - k]]
  <2>1. ASSUME NEW k \in 1..n + 1 PROVE f[k] = IF k > n THEN <<>> ELSE Here(k, f[k + 1])
    <3>1. CASE k > n
      <4>1. n + 1 - k = 0
        BY <1>1, <3>1
      <4> QED
        BY <1>7, <3>1, <4>1
    <3>2. CASE ~(k > n)
      <4>1. k \in 1..n /\ k + 1 \in 1..n + 1 /\ n + 1 - k \in 1..n
              /\ n + 1 - (n + 1 - k) = k /\ (n + 1 - k) - 1 = n + 1 - (k + 1)
        BY <1>1, <3>2
      <4>2. h[n + 1 - k] = Here(n + 1 - (n + 1 - k), h[(n + 1 - k) - 1])
        BY <1>7, <4>1
      <4>3. f[k] = h[n + 1 - k] /\ f[k + 1] = h[n + 1 - (k + 1)]
        BY <4>1
      <4> HIDE DEF f
      <4> QED
        BY <3>2, <4>1, <4>2, <4>3
    <3> QED
      BY <3>1, <3>2
  <2>2. f = [k \in 1..n + 1 |-> f[k]]
    OBVIOUS
  <2>3. Q(f)
    <3> HIDE DEF f
    <3> QED
      BY <2>1, <2>2
  <2> QED
    BY <2>3
<1>9. Q(from)
  <2> HIDE DEF Q, P
  <2> QED
    BY <1>3, <1>8
<1>10. Utf16Text = from[1]
  BY DEF Utf16Text
<1> HIDE DEF from
<1>11. /\ from[n + 1] = <<>> /\ DOMAIN from = 1..n + 1
       /\ \A k \in 1..n : from[k] = Here(k, from[k + 1])
  BY <1>1, <1>9
<1>12. from \in [1..n + 1 -> S]
  <2> DEFINE T == {x \in 0..n : from[n + 1 - x] \notin S}
  <2>1. ASSUME T # {} PROVE FALSE
    <3>1. T \in SUBSET Nat
      OBVIOUS
    <3>2. Min(T) \in T /\ \A y \in T : Min(T) <= y
      <4> HIDE DEF T
      <4> QED
        BY <2>1, <3>1, MinNat
    <3>3. PICK x \in T : \A y \in T : x <= y
      BY <3>2
    <3>0. x \in 0..n /\ from[n + 1 - x] \notin S
      BY <3>3
    <3>4. x # 0
      <4>1. <<>> \in S
        OBVIOUS
      <4>2. n + 1 - 0 = n + 1
        BY <1>1
      <4> HIDE DEF S
      <4> QED
        BY <1>11, <3>0, <4>1, <4>2
    <3>5. x - 1 \in 0..n /\ x - 1 \notin T
      <4>1. x - 1 \in 0..n /\ ~(x <= x - 1)
        BY <1>1, <3>0, <3>4
      <4> HIDE DEF T
      <4> QED
        BY <3>3, <4>1
    <3>6. from[n + 1 - (x - 1)] \in S
      BY <3>5
    <3>7. n + 1 - x \in 1..n /\ (n + 1 - x) + 1 = n + 1 - (x - 1)
      BY <1>1, <3>0, <3>4
    <3>8. from[n + 1 - x] = Here(n + 1 - x, from[(n + 1 - x) + 1])
      BY <1>11, <3>7
    <3> QED
      BY <1>2, <3>0, <3>6, <3>7, <3>8
  <2>2. ASSUME NEW k \in 1..n + 1 PROVE from[k] \in S
    <3>1. n + 1 - k \in 0..n /\ n + 1 - (n + 1 - k) = k
      BY <1>1
    <3>2. n + 1 - k \notin T
      BY <2>1
    <3> QED
      BY <3>1, <3>2
  <2>3. from = [k \in 1..n + 1 |-> from[k]]
    BY <1>9, <1>11
  <2> QED
    BY <2>2, <2>3
<1>13. \A k \in 1..Words : from[k] = IF Low10(W(k)) THEN from[k + 1] ELSE Piece16(k) \o from[k + 1]
  BY <1>11 DEF Here
<1> QED
  BY <1>10, <1>11, <1>12, <1>13 DEF Endings16
-----------------------------------------------------------------------------
ConvertTyped ==
  /\ data \in Seq(Byte) /\ table \in Byte
  /\ coding \in Nat /\ start \in Nat /\ at \in Nat /\ start <= at
  /\ out \in Seq(Byte) /\ code \in Nat
  /\ converting \in {"announce", "loop", "done"}
  /\ converting = "announce" => data # <<>> /\ coding = 0 /\ out = <<>> /\ code = 0

TwoByteCodings == {GB18030, BIG5}
Utf16Codings == {UTF16BE, UTF16LE}

(* Of a coding of two bytes to a character three bytes at most are put out  *)
(* for two that are taken, and none beyond the text is taken.               *)
TwoByteInv ==
  coding \in TwoByteCodings =>
    /\ at <= Len(data) /\ 2 * Len(out) <= 3 * (at - start)
    /\ coding = GB18030 => IsUTF8(out)
    /\ coding = BIG5 => code < 65536
    /\ ConvertedToTheEnd

(* While the loop goes on there is room for the longest character.          *)
WideInv ==
  coding \in Wide =>
    /\ start <= Len(data)
    /\ IsUTF8(out) /\ Len(out) <= OutMax
    /\ converting = "loop" => Len(out) + 4 <= OutMax

SafeInv == ConvertTyped /\ TwoByteInv /\ WideInv

(* Where the loop stands in a sound UTF-16 text: behind the k-th word.      *)
Behind16(f, k) ==
  /\ at = start + 2 * (k - 1)
  /\ k <= Words => ~Low10(W(k))
  /\ out \o f[k] = Utf16Text

Utf16Inv ==
  coding \in Utf16Codings /\ SoundUtf16 /\ Len(Utf16Text) + 3 <= OutMax =>
    /\ converting = "loop" => \E f : Endings16(f) /\ \E k \in 1..Words + 1 : Behind16(f, k)
    /\ converting = "done" => out = Utf16Text

ConvertInv == SafeInv /\ Utf16Inv

LEMMA CodingsAre ==
  /\ TwoByteCodings \cap Wide = {} /\ Utf16Codings \subseteq Wide
  /\ 0 \notin TwoByteCodings \cup Wide /\ UTF8 \notin TwoByteCodings \cup Wide
  /\ UNICODE \notin Utf16Codings
  /\ TwoByteCodings \subseteq 0..31 /\ Wide \subseteq 0..31
  /\ IsoOrNone \cap (TwoByteCodings \cup Wide) = {}
  /\ GB18030 # BIG5
BY DEF TwoByteCodings, Utf16Codings, Wide, IsoOrNone, GB18030, BIG5, UTF8, UNICODE, UTF16BE, UTF16LE

LEMMA InitialConvert == ConvertInit => ConvertInv
<1> SUFFICES ASSUME ConvertInit PROVE ConvertInv
  OBVIOUS
<1>1. ConvertTyped
  <2>1. data \in Seq(Byte) /\ table \in Byte
    BY ConvertAssumption DEF ConvertInit
  <2>2. out \in Seq(Byte)
    BY DEF ConvertInit
  <2> QED
    BY <2>1, <2>2 DEF ConvertInit, ConvertTyped
<1>2. coding = 0
  BY DEF ConvertInit
<1>3. coding \notin TwoByteCodings /\ coding \notin Wide /\ coding \notin Utf16Codings
  BY <1>2, CodingsAre
<1> QED
  BY <1>1, <1>3 DEF ConvertInv, SafeInv, TwoByteInv, WideInv, Utf16Inv

LEMMA AnnouncedIs ==
  ASSUME data \in Seq(Byte), data # <<>>, table \in Byte
  PROVE  /\ Announced.coding \in Nat /\ Announced.start \in Nat
         /\ Announced.coding \in TwoByteCodings \cup Wide => Announced.start <= Len(data)
<1>1. Len(data) \in Nat /\ Len(data) >= 1 /\ data[1] \in Byte /\ (Len(data) > 1 => data[2] \in Byte)
  OBVIOUS
<1> DEFINE a == data[1]
           b == IF Len(data) > 1 THEN data[2] ELSE 0
           m == Len(data)
<1>2. a \in Byte /\ b \in Byte /\ m \in Nat /\ m >= 1
  BY <1>1 DEF Byte
<1>3. Announced =
        IF table \in Wide THEN [coding |-> table, start |-> 0]
        ELSE CASE a \in 1..11 -> [coding |-> a + 4, start |-> 1]
               [] a = 16 -> [coding |-> 16 + 256 * b, start |-> 2]
               [] a \in {17, UTF16BE} -> [coding |-> UTF16BE, start |-> 1]
               [] a \in {GB18030, BIG5, UTF8, UNICODE, UTF16LE} -> [coding |-> a, start |-> 1]
               [] a \in {0, 18} \cup 13..15 \cup 25..31 -> [coding |-> table, start |-> 1]
               [] OTHER -> [coding |-> table, start |-> 0]
  BY Zenon DEF Announced
<1> HIDE DEF a, b, m
<1>4. /\ Announced.coding \in Nat /\ Announced.start \in {0, 1, 2}
      /\ Announced.start = 2 => \E x \in Nat : Announced.coding = 16 + 256 * x
  <2>1. CASE table \in Wide
    <3>1. Announced = [coding |-> table, start |-> 0]
      BY <1>3, <2>1
    <3> QED
      BY <3>1 DEF Byte
  <2>2. CASE table \notin Wide /\ a \in 1..11
    <3>0. a # 16 /\ a \notin {17, UTF16BE} /\ a \notin {GB18030, BIG5, UTF8, UNICODE, UTF16LE} /\ a \notin {0, 18} \cup 13..15 \cup 25..31
      BY <2>2 DEF GB18030, BIG5, UTF8, UNICODE, UTF16BE, UTF16LE
    <3>1. Announced = [coding |-> a + 4, start |-> 1]
      BY <1>3, <2>2, <3>0
    <3> QED
      BY <1>2, <3>1 DEF Byte, UTF16BE
  <2>3. CASE table \notin Wide /\ a = 16
    <3>0. a \notin 1..11 /\ a \notin {17, UTF16BE} /\ a \notin {GB18030, BIG5, UTF8, UNICODE, UTF16LE} /\ a \notin {0, 18} \cup 13..15 \cup 25..31
      BY <2>3 DEF GB18030, BIG5, UTF8, UNICODE, UTF16BE, UTF16LE
    <3>2. b \in Nat
      BY <1>2 DEF Byte
    <3>1. Announced = [coding |-> 16 + 256 * b, start |-> 2]
      BY <1>3, <2>3, <3>0
    <3> QED
      BY <3>1, <3>2
  <2>4. CASE table \notin Wide /\ a \in {17, UTF16BE}
    <3>0. a \notin 1..11 /\ a # 16 /\ a \notin {GB18030, BIG5, UTF8, UNICODE, UTF16LE} /\ a \notin {0, 18} \cup 13..15 \cup 25..31
      BY <2>4 DEF GB18030, BIG5, UTF8, UNICODE, UTF16BE, UTF16LE
    <3>1. Announced = [coding |-> UTF16BE, start |-> 1]
      BY <1>3, <2>4, <3>0
    <3> QED
      BY <1>2, <3>1 DEF Byte, UTF16BE
  <2>5. CASE table \notin Wide /\ a \in {GB18030, BIG5, UTF8, UNICODE, UTF16LE}
    <3>0. a \notin 1..11 /\ a # 16 /\ a \notin {17, UTF16BE} /\ a \notin {0, 18} \cup 13..15 \cup 25..31
      BY <2>5 DEF GB18030, BIG5, UTF8, UNICODE, UTF16BE, UTF16LE
    <3>1. Announced = [coding |-> a, start |-> 1]
      BY <1>3, <2>5, <3>0
    <3> QED
      BY <1>2, <3>1 DEF Byte, UTF16BE
  <2>6. CASE table \notin Wide /\ a \in {0, 18} \cup 13..15 \cup 25..31
    <3>0. a \notin 1..11 /\ a # 16 /\ a \notin {17, UTF16BE} /\ a \notin {GB18030, BIG5, UTF8, UNICODE, UTF16LE}
      BY <2>6 DEF GB18030, BIG5, UTF8, UNICODE, UTF16BE, UTF16LE
    <3>1. Announced = [coding |-> table, start |-> 1]
      BY <1>3, <2>6, <3>0
    <3> QED
      BY <1>2, <3>1 DEF Byte, UTF16BE
  <2>7. CASE table \notin Wide /\ a \notin 1..11 /\ a # 16 /\ a \notin {17, UTF16BE}
               /\ a \notin {GB18030, BIG5, UTF8, UNICODE, UTF16LE}
               /\ a \notin {0, 18} \cup 13..15 \cup 25..31
    <3>1. Announced = [coding |-> table, start |-> 0]
      BY <1>3, <2>7
    <3> QED
      BY <3>1 DEF Byte
  <2> QED
    BY <2>1, <2>2, <2>3, <2>4, <2>5, <2>6, <2>7
<1>5. \A x \in Nat : 16 + 256 * x \notin TwoByteCodings \cup Wide
  BY DEF TwoByteCodings, Wide, GB18030, BIG5, UNICODE, UTF16BE, UTF16LE
<1> QED
  BY <1>1, <1>4, <1>5

LEMMA AnnounceSafe == SafeInv /\ Announce => SafeInv'
<1> SUFFICES ASSUME SafeInv, Announce PROVE SafeInv'
  OBVIOUS
<1>1. /\ data \in Seq(Byte) /\ data # <<>> /\ table \in Byte /\ out = <<>> /\ code = 0
      /\ data' = data /\ table' = table /\ out' = out /\ code' = code
      /\ coding' = Announced.coding /\ start' = Announced.start /\ at' = Announced.start
      /\ converting' = IF Announced.coding \in 0..31 THEN "loop" ELSE "done"
  BY DEF SafeInv, ConvertTyped, Announce
<1>2. /\ coding' \in Nat /\ start' \in Nat /\ at' = start'
      /\ coding' \in TwoByteCodings \cup Wide => start' <= Len(data')
  BY <1>1, AnnouncedIs
<1>3. ConvertTyped'
  BY <1>1, <1>2 DEF ConvertTyped
<1>4. coding' \in TwoByteCodings \cup Wide => converting' = "loop"
  BY <1>1, CodingsAre
<1>5. IsUTF8(out') /\ Len(out') = 0
  BY <1>1, EmptyIsUTF8
<1>6. TwoByteInv'
  BY <1>1, <1>2, <1>4, <1>5 DEF TwoByteInv, ConvertedToTheEnd
<1>7. WideInv'
  BY <1>2, <1>5, ConvertAssumption DEF WideInv
<1> QED
  BY <1>3, <1>6, <1>7 DEF SafeInv

LEMMA RestIs ==
  ASSUME ConvertTyped
  PROVE  /\ Len(data) \in Nat /\ Rest \in Int /\ Rest = Len(data) - at
         /\ \A k \in Nat : k >= 1 /\ k <= Rest => D(k) \in Byte
<1>1. data \in Seq(Byte) /\ at \in Nat /\ Len(data) \in Nat
  BY DEF ConvertTyped
<1>2. ASSUME NEW k \in Nat, k >= 1, k <= Len(data) - at PROVE data[at + k] \in Byte
  <2>1. at + k \in 1..Len(data)
    BY <1>1, <1>2
  <2> QED
    BY <1>1, <2>1
<1> QED
  BY <1>1, <1>2 DEF Rest, D

(* A round puts a text behind what there is.                                *)
LEMMA RoundIs ==
  ASSUME NEW n \in Nat, NEW s \in Seq(Byte), ConvertTyped, Round(n, s),
         converting = "loop", converting' \in {"loop", "done"}, code' \in Nat
  PROVE  /\ ConvertTyped' /\ Len(out') = Len(out) + Len(s) /\ at' = at + n
         /\ IsUTF8(out) /\ IsUTF8(s) => IsUTF8(out')
<1>1. /\ out \in Seq(Byte) /\ at \in Nat /\ start \in Nat /\ start <= at
      /\ out' = out \o s /\ at' = at + n
      /\ data' = data /\ table' = table /\ coding' = coding /\ start' = start
  BY DEF ConvertTyped, Round
<1>2. out' \in Seq(Byte) /\ Len(out') = Len(out) + Len(s)
  BY <1>1
<1>3. IsUTF8(out) /\ IsUTF8(s) => IsUTF8(out')
  BY <1>1, JoinedIsUTF8
<1>4. ConvertTyped'
  BY <1>1, <1>2 DEF ConvertTyped
<1> QED
  BY <1>1, <1>2, <1>3, <1>4

(* Rounds of codings no buffer is counted for.                              *)
LEMMA RoundIsOf ==
  ASSUME NEW n \in Nat, NEW s \in Seq(Byte), ConvertTyped,
         at' = at + n, out' = out \o s, turn' = ~turn, UNCHANGED <<data, table, coding, start>>,
         converting = "loop", converting' \in {"loop", "done"}, code' \in Nat
  PROVE  /\ ConvertTyped' /\ Len(out') = Len(out) + Len(s) /\ at' = at + n
<1>1. Round(n, s)
  BY DEF Round
<1> QED
  BY <1>1, RoundIs

LEMMA FreeRoundSafe ==
  ASSUME ConvertTyped', coding' = coding, coding \notin TwoByteCodings \cup Wide
  PROVE  SafeInv'
BY DEF SafeInv, TwoByteInv, WideInv

LEMMA CopyByteSafe == SafeInv /\ CopyByte => SafeInv'
<1> SUFFICES ASSUME SafeInv, CopyByte PROVE SafeInv'
  OBVIOUS
<1> DEFINE s == <<D(1)>>
<1>1. /\ ConvertTyped /\ coding \in {0, UTF8} /\ Rest > 0 /\ Round(1, s)
      /\ converting = "loop" /\ converting' = "loop" /\ code' = code
  BY DEF SafeInv, CopyByte
<1>2. D(1) \in Byte
  BY <1>1, RestIs
<1>3. s \in Seq(Byte)
  BY <1>2
<1> HIDE DEF s
<1>4. ConvertTyped'
  <2>1. code' \in Nat
    BY <1>1 DEF ConvertTyped
  <2> QED
    BY <1>1, <1>3, <2>1, RoundIs
<1>5. coding' = coding /\ coding \notin TwoByteCodings \cup Wide
  BY <1>1, CodingsAre DEF Round
<1> QED
  BY <1>4, <1>5, FreeRoundSafe

LEMMA TakeNothingSafe == SafeInv /\ TakeNothing => SafeInv'
<1> SUFFICES ASSUME SafeInv, TakeNothing PROVE SafeInv'
  OBVIOUS
<1>1. /\ ConvertTyped /\ coding \in IsoOrNone /\ Round(0, <<>>)
      /\ converting = "loop" /\ converting' = "loop" /\ code' = 0
  BY DEF SafeInv, TakeNothing
<1> DEFINE s == <<>>
<1>2. s \in Seq(Byte) /\ Round(0, s)
  BY <1>1
<1> HIDE DEF s
<1>3. ConvertTyped'
  BY <1>1, <1>2, RoundIs
<1>4. coding' = coding /\ coding \notin TwoByteCodings \cup Wide
  BY <1>1, CodingsAre DEF Round
<1> QED
  BY <1>3, <1>4, FreeRoundSafe

(* What a round of a wide coding puts out fits, and is UTF-8.               *)
LEMMA EmitSafe ==
  ASSUME SafeInv, converting = "loop", coding \in Wide,
         NEW c \in Characters, NEW n \in Nat, n >= 1, Emit(c, n)
  PROVE  SafeInv'
<1> DEFINE s == IF c = 0 THEN <<>> ELSE Utf8(c)
           m == IF c = 0 THEN n - 1 ELSE n
<1>1. /\ ConvertTyped /\ WideInv /\ Round(m, s) /\ code' = c
      /\ converting' = IF c # 0 /\ Len(out') + 4 > OutMax THEN "done" ELSE "loop"
  BY DEF SafeInv, Emit
<1>2. s \in Seq(Byte) /\ IsUTF8(s) /\ Len(s) \in 0..4 /\ (c = 0 => Len(s) = 0)
  <2>1. CASE c = 0
    <3> DEFINE e == <<>>
    <3>1. e \in Seq(Byte) /\ IsUTF8(e) /\ Len(e) = 0
      BY EmptyIsUTF8
    <3>2. s = e
      BY <2>1
    <3> HIDE DEF s, e
    <3> QED
      BY <3>1, <3>2
  <2>2. CASE c # 0
    <3>1. s = Utf8(c)
      BY <2>2
    <3> HIDE DEF s
    <3> QED
      BY <2>2, <3>1, Utf8Is
  <2> QED
    BY <2>1, <2>2
<1>3. m \in Nat /\ code' \in Nat
  BY <1>1, SMT DEF Characters
<1> HIDE DEF s, m
<1>4. /\ ConvertTyped' /\ Len(out') = Len(out) + Len(s)
      /\ IsUTF8(out) /\ IsUTF8(s) => IsUTF8(out')
  BY <1>1, <1>2, <1>3, RoundIs
<1>5. coding' = coding /\ start' = start /\ data' = data
  BY <1>1 DEF Round
<1>6. /\ start <= Len(data) /\ IsUTF8(out) /\ Len(out) + 4 <= OutMax
      /\ Len(out) \in Nat /\ OutMax \in Nat
  BY <1>1, ConvertAssumption DEF WideInv, ConvertTyped
<1>7. Len(out') <= OutMax /\ (converting' = "loop" => Len(out') + 4 <= OutMax)
  <2>1. Len(out') \in Nat
    BY <1>2, <1>4, <1>6
  <2>2. c = 0 => Len(out') + 4 <= OutMax
    BY <1>2, <1>4, <1>6
  <2>3. Len(out') <= OutMax
    <3> DEFINE x == Len(out')
               y == Len(out)
               z == Len(s)
    <3>1. x = y + z /\ y \in Nat /\ z \in 0..4 /\ y + 4 <= OutMax /\ OutMax \in Nat
      BY <1>2, <1>4, <1>6
    <3> HIDE DEF x, y, z
    <3>2. x <= OutMax
      BY <3>1
    <3> QED
      BY <3>2 DEF x
  <2>4. converting' = "loop" => c = 0 \/ ~(Len(out') + 4 > OutMax)
    BY <1>1, Zenon
  <2>5. ~(Len(out') + 4 > OutMax) => Len(out') + 4 <= OutMax
    BY <1>6, <2>1
  <2> QED
    BY <2>2, <2>3, <2>4, <2>5, Zenon
<1>8. WideInv'
  BY <1>2, <1>4, <1>5, <1>6, <1>7 DEF WideInv
<1>9. TwoByteInv'
  BY <1>5, CodingsAre DEF TwoByteInv
<1> QED
  BY <1>4, <1>8, <1>9 DEF SafeInv

(* Where the loop stops the text is as it was, or empty.                    *)
LEMMA StopSafe ==
  ASSUME SafeInv, coding \in Wide, NEW s, s = out \/ s = <<>>, Stop(s)
  PROVE  SafeInv'
<1>1. /\ ConvertTyped /\ WideInv /\ converting' = "done" /\ out' = s
      /\ data' = data /\ table' = table /\ coding' = coding /\ start' = start
      /\ at' = at /\ code' = code
  BY DEF SafeInv, Stop
<1>2. out' \in Seq(Byte) /\ IsUTF8(out') /\ Len(out') <= OutMax
  <2>1. CASE s = out
    BY <1>1, <2>1 DEF ConvertTyped, WideInv
  <2>2. CASE s = <<>>
    <3>1. <<>> \in Seq(Byte) /\ IsUTF8(<<>>) /\ Len(<<>>) <= OutMax
      BY EmptyIsUTF8, ConvertAssumption
    <3> QED
      BY <1>1, <2>2, <3>1
  <2> QED
    BY <2>1, <2>2
<1>3. ConvertTyped'
  BY <1>1, <1>2 DEF ConvertTyped
<1>4. WideInv'
  BY <1>1, <1>2 DEF WideInv
<1>5. TwoByteInv'
  BY <1>1, CodingsAre DEF TwoByteInv
<1> QED
  BY <1>3, <1>4, <1>5 DEF SafeInv

LEMMA TwoBytesMake ==
  ASSUME NEW a \in Byte, NEW b \in Byte
  PROVE  256 * a + b \in Characters /\ 256 * a + b < 65536
BY SMT DEF Byte, Characters

LEMMA TakeUnicodeSafe == SafeInv /\ TakeUnicode => SafeInv'
<1> SUFFICES ASSUME SafeInv, TakeUnicode PROVE SafeInv'
  OBVIOUS
<1>1. converting = "loop" /\ coding = UNICODE /\ Rest > 0 /\ ConvertTyped
  BY DEF SafeInv, TakeUnicode
<1>2. PICK high \in IF Rest > 1 THEN {D(2)} ELSE PastEnd : Emit(256 * high + D(1), 2)
  BY DEF TakeUnicode
<1>3. D(1) \in Byte /\ high \in Byte
  BY <1>1, <1>2, RestIs, ConvertAssumption
<1>4. 256 * high + D(1) \in Characters
  BY <1>3, TwoBytesMake
<1>5. coding \in Wide
  BY <1>1 DEF Wide
<1> DEFINE c == 256 * high + D(1)
<1>6. c \in Characters /\ Emit(c, 2)
  BY <1>2, <1>4
<1> HIDE DEF c
<1> QED
  BY <1>1, <1>5, <1>6, EmitSafe

LEMMA WordIs ==
  ASSUME ConvertTyped, NEW k \in Nat, k >= 1, k + 1 <= Rest
  PROVE  Word(k) \in Characters /\ Word(k) < 65536 /\ Word(k) \in Nat
<1>1. D(k) \in Byte /\ D(k + 1) \in Byte
  <2>1. Rest \in Int /\ k + 1 \in Nat
    BY RestIs
  <2>2. k <= Rest /\ k + 1 >= 1
    BY <2>1
  <2> QED
    BY <2>1, <2>2, RestIs
<1> DEFINE c1 == 256 * D(k) + D(k + 1)
           c2 == 256 * D(k + 1) + D(k)
<1>2. c1 \in Characters /\ c1 < 65536 /\ c2 \in Characters /\ c2 < 65536
  BY <1>1, TwoBytesMake
<1>3. Word(k) \in {c1, c2}
  BY DEF Word
<1> HIDE DEF c1, c2
<1>4. Word(k) \in Characters /\ Word(k) < 65536
  BY <1>2, <1>3
<1> QED
  BY <1>4, SMT DEF Characters

LEMMA TakeUtf16Safe == SafeInv /\ TakeUtf16 => SafeInv'
<1> SUFFICES ASSUME SafeInv, TakeUtf16 PROVE SafeInv'
  OBVIOUS
<1>1. /\ converting = "loop" /\ coding \in {UTF16BE, UTF16LE} /\ Rest > 0 /\ ConvertTyped
      /\ Rest \in Int
  BY RestIs DEF SafeInv, TakeUtf16
<1>2. coding \in Wide
  BY <1>1 DEF Wide
<1>3. CASE Rest < 2
  <2>1. Stop(out)
    BY <1>3 DEF TakeUtf16
  <2> QED
    BY <1>2, <2>1, StopSafe
<1>4. CASE ~(Rest < 2) /\ Word(1) \notin 55296..57343
  <2>1. Emit(Word(1), 2)
    BY <1>4 DEF TakeUtf16
  <2>2. Word(1) \in Characters
    BY <1>1, <1>4, WordIs
  <2> QED
    BY <1>1, <1>2, <2>1, <2>2, EmitSafe
<1>5. CASE ~(Rest < 2) /\ Word(1) \in 55296..57343 /\ (Word(1) > 56319 \/ Rest <= 4)
  <2>1. Stop(out)
    BY <1>5 DEF TakeUtf16
  <2> QED
    BY <1>2, <2>1, StopSafe
<1>6. CASE ~(Rest < 2) /\ Word(1) \in 55296..57343 /\ ~(Word(1) > 56319 \/ Rest <= 4)
             /\ Word(3) \notin 56320..57343
  <2>1. Stop(IF coding = UTF16BE THEN <<>> ELSE out)
    BY <1>6 DEF TakeUtf16
  <2>2. \E s : (s = out \/ s = <<>>) /\ Stop(s)
    BY <2>1
  <2> QED
    BY <1>2, <2>2, StopSafe
<1>7. CASE ~(Rest < 2) /\ Word(1) \in 55296..57343 /\ ~(Word(1) > 56319 \/ Rest <= 4)
             /\ ~(Word(3) \notin 56320..57343)
  <2>1. Emit(Paired(Word(1), Word(3)), 4)
    BY <1>7 DEF TakeUtf16
  <2>2. Word(1) \in Nat /\ Word(3) \in Nat
    BY <1>1, <1>7, WordIs
  <2>3. Paired(Word(1), Word(3)) \in Characters
    BY <2>2, PairedIs
  <2> QED
    BY <1>1, <1>2, <2>1, <2>3, EmitSafe
<1> QED
  BY <1>3, <1>4, <1>5, <1>6, <1>7

(* A round of a coding of two bytes to a character: what it puts out, and   *)
(* that it takes no more than there is.                                     *)
LEMMA TwoByteRound ==
  ASSUME SafeInv, converting = "loop", converting' = "loop", coding \in TwoByteCodings,
         NEW n \in Nat, n <= Rest, NEW s \in Seq(Byte), 2 * Len(s) <= 3 * n, Round(n, s),
         code' \in Nat, coding = BIG5 => code' < 65536, coding = GB18030 => IsUTF8(s)
  PROVE  SafeInv'
<1>1. /\ ConvertTyped /\ TwoByteInv /\ data' = data /\ start' = start /\ coding' = coding
      /\ converting' \in {"loop", "done"}
  BY DEF SafeInv, Round
<1>2. /\ ConvertTyped' /\ Len(out') = Len(out) + Len(s) /\ at' = at + n
      /\ IsUTF8(out) /\ IsUTF8(s) => IsUTF8(out')
  BY <1>1, RoundIs
<1>3. /\ at <= Len(data) /\ 2 * Len(out) <= 3 * (at - start)
      /\ coding = GB18030 => IsUTF8(out)
  BY <1>1 DEF TwoByteInv
<1>4. at' <= Len(data') /\ 2 * Len(out') <= 3 * (at' - start')
  <2> DEFINE x == Len(out)
             y == Len(s)
             z == Len(data)
  <2>1. x \in Nat /\ y \in Nat /\ z \in Nat /\ at \in Nat /\ start \in Nat
    BY <1>1, RestIs DEF ConvertTyped
  <2>2. 2 * x <= 3 * (at - start) /\ 2 * y <= 3 * n /\ n <= z - at
    BY <1>1, <1>3, RestIs
  <2>3. Len(out') = x + y /\ at' = at + n /\ start' = start /\ Len(data') = z
    BY <1>1, <1>2
  <2> HIDE DEF x, y, z
  <2>4. at + n <= z /\ 2 * (x + y) <= 3 * ((at + n) - start)
    BY <2>1, <2>2
  <2> QED
    BY <2>3, <2>4
<1>5. ConvertedToTheEnd'
  BY DEF ConvertedToTheEnd
<1>6. TwoByteInv'
  BY <1>1, <1>2, <1>3, <1>4, <1>5 DEF TwoByteInv
<1>7. WideInv'
  BY <1>1, CodingsAre DEF WideInv
<1> QED
  BY <1>2, <1>6, <1>7 DEF SafeInv

LEMMA TwoByteRoundOf ==
  ASSUME SafeInv, converting = "loop", converting' = "loop", coding \in TwoByteCodings,
         NEW n \in Nat, n <= Rest, NEW s \in Seq(Byte), 2 * Len(s) <= 3 * n,
         at' = at + n, out' = out \o s, turn' = ~turn, UNCHANGED <<data, table, coding, start>>,
         code' \in Nat, coding = BIG5 => code' < 65536, coding = GB18030 => IsUTF8(s)
  PROVE  SafeInv'
<1>1. Round(n, s)
  BY DEF Round
<1> QED
  BY <1>1, TwoByteRound

LEMMA TakeGB18030Safe == SafeInv /\ TakeGB18030 => SafeInv'
<1> SUFFICES ASSUME SafeInv, TakeGB18030 PROVE SafeInv'
  OBVIOUS
<1>1. /\ ConvertTyped /\ converting = "loop" /\ coding = GB18030 /\ Rest > 0
      /\ code' = code /\ converting' = converting
  BY DEF SafeInv, TakeGB18030
<1> DEFINE d == SubSeq(data, at + 1, Len(data))
<1>2. PICK full \in Filled : \E entry \in Codes :
        LET r == Gb18030(d, Rest, full, entry)
        IN IF r.n > 0 THEN Round(r.n, Utf8(r.code)) ELSE Round(1, <<>>)
  BY DEF TakeGB18030
<1>3. PICK entry \in Codes :
        LET r == Gb18030(d, Rest, full, entry)
        IN IF r.n > 0 THEN Round(r.n, Utf8(r.code)) ELSE Round(1, <<>>)
  BY <1>2
<1>4. d \in Seq(Byte) /\ Len(d) = Rest /\ d # <<>>
  <2> DEFINE z == Len(data)
  <2>1. /\ data \in Seq(Byte) /\ at \in Nat /\ z \in Nat /\ z - at > 0 /\ Rest = z - at
        /\ \A x \in 1..z : data[x] \in Byte
    BY <1>1, RestIs DEF ConvertTyped
  <2>2. d = [x \in 1..z - (at + 1) + 1 |-> data[x + (at + 1) - 1]]
    BY <2>1
  <2> HIDE DEF z, d
  <2>3. z - (at + 1) + 1 = z - at /\ z - at \in Nat /\ z - at # 0
    BY <2>1
  <2>4. \A x \in 1..z - at : x + (at + 1) - 1 \in 1..z
    BY <2>1
  <2>5. d = [x \in 1..z - at |-> data[x + (at + 1) - 1]]
    BY <2>2, <2>3
  <2>6. d \in [1..z - at -> Byte]
    BY <2>1, <2>4, <2>5
  <2>7. d \in Seq(Byte)
    BY <2>3, <2>6
  <2>8. Len(d) = z - at
    BY <2>3, <2>5, <2>7
  <2> QED
    BY <2>1, <2>3, <2>7, <2>8
<1> DEFINE r == Gb18030(d, Rest, full, entry)
<1>5. Result(r, Rest)
  <2>1. entry \in Nat /\ entry < 65536
    BY EntriesAssumption
  <2> HIDE DEF d
  <2>2. Result(Gb18030(d, Len(d), full, entry), Len(d))
    BY <1>4, <2>1, Gb18030Result
  <2> QED
    BY <1>4, <2>2
<1>6. IF r.n > 0 THEN Round(r.n, Utf8(r.code)) ELSE Round(1, <<>>)
  BY <1>3
<1> HIDE DEF r, d
<1>7. /\ code' \in Nat /\ coding \in TwoByteCodings /\ coding # BIG5 /\ converting' = "loop"
      /\ Rest \in Int
  BY <1>1, RestIs, CodingsAre DEF ConvertTyped, TwoByteCodings
<1>8. CASE r.n > 0
  <2> DEFINE n == r.n
             c == r.code
  <2>1. /\ n \in {1, 2, 4} /\ n <= Rest /\ c \in Characters
        /\ n = 1 => c < 128
        /\ n = 2 => c < 65536
    BY <1>5, <1>8 DEF Result, IlSeq, TooFew
  <2>2. Round(n, Utf8(c))
    BY <1>6, <1>8
  <2> HIDE DEF n, c
  <2> DEFINE s == Utf8(c)
  <2>3. s \in Seq(Byte) /\ IsUTF8(s) /\ Len(s) \in 1..4 /\ (c < 65536 => Len(s) <= 3)
          /\ (c < 128 => Len(s) = 1)
    BY <2>1, Utf8Is
  <2>4. Round(n, s)
    BY <2>2
  <2> HIDE DEF s
  <2>5. 2 * Len(s) <= 3 * n /\ n \in Nat
    <3> DEFINE x == Len(s)
    <3>1. x \in {1, 2, 3, 4} /\ (n = 1 => x = 1) /\ (n = 2 => x <= 3)
      BY <2>1, <2>3
    <3> HIDE DEF x
    <3>2. ASSUME n = 1 PROVE 2 * x <= 3 * n
      BY <3>1, <3>2
    <3>3. ASSUME n = 2 PROVE 2 * x <= 3 * n
      BY <3>1, <3>3
    <3>4. ASSUME n = 4 PROVE 2 * x <= 3 * n
      BY <3>1, <3>4
    <3>5. 2 * x <= 3 * n
      BY <2>1, <3>2, <3>3, <3>4
    <3> QED
      BY <2>1, <3>5 DEF x
  <2> QED
    BY <1>1, <1>7, <2>1, <2>3, <2>4, <2>5, TwoByteRound
<1>9. CASE ~(r.n > 0)
  <2>0. Round(1, <<>>)
    BY <1>6, <1>9
  <2>1. PICK m \in Nat, s \in Seq(Byte) :
          /\ m = 1 /\ Len(s) = 0 /\ IsUTF8(s)
          /\ at' = at + m /\ out' = out \o s /\ turn' = ~turn
          /\ UNCHANGED <<data, table, coding, start>>
    <3>1. <<>> \in Seq(Byte) /\ Len(<<>>) = 0 /\ IsUTF8(<<>>) /\ 1 \in Nat
      BY EmptyIsUTF8
    <3> QED
      BY <2>0, <3>1 DEF Round
  <2>2. m \in Nat /\ s \in Seq(Byte) /\ IsUTF8(s)
        /\ at' = at + m /\ out' = out \o s /\ turn' = ~turn
        /\ UNCHANGED <<data, table, coding, start>>
    BY <2>1
  <2>4. m \in Nat /\ m <= Rest /\ 2 * Len(s) <= 3 * m
    BY <1>1, <1>7, <2>1
  <2>5. /\ SafeInv /\ converting = "loop" /\ converting' = "loop" /\ coding \in TwoByteCodings
        /\ code' \in Nat
        /\ coding # BIG5
    BY <1>1, <1>7, <2>2
  <2>6. Len(s) \in Nat /\ Rest \in Int
    BY <1>7, <2>2
  <2> QED
    BY <2>2, <2>4, <2>5, <2>6, TwoByteRoundOf, SMTT(30)
<1> QED
  BY <1>8, <1>9

LEMMA TakeBig5Safe == SafeInv /\ TakeBig5 => SafeInv'
<1> SUFFICES ASSUME SafeInv, TakeBig5 PROVE SafeInv'
  OBVIOUS
<1>1. /\ ConvertTyped /\ TwoByteInv /\ converting = "loop" /\ converting' = "loop"
      /\ coding = BIG5 /\ Rest > 1
  BY DEF SafeInv, TakeBig5
<1>2. /\ coding \in TwoByteCodings /\ coding # GB18030 /\ Rest \in Int /\ code \in Nat
      /\ code < 65536 /\ D(1) \in Byte
  <2>1. coding \in TwoByteCodings /\ coding # GB18030 /\ Rest \in Int /\ code \in Nat
    BY <1>1, RestIs, CodingsAre DEF ConvertTyped, TwoByteCodings
  <2>2. D(1) \in Byte
    BY <1>1, <2>1, RestIs
  <2> QED
    BY <1>1, <2>1, <2>2 DEF TwoByteInv
<1>3. CASE Big5Pair(D(1), D(2))
  <2>1. PICK full \in Filled, entry \in Codes :
          /\ code' = LET r == Big5(D(1), D(2), full, entry) IN IF r.n > 0 THEN r.code ELSE code
          /\ Round(2, Utf8(code'))
    BY <1>3 DEF TakeBig5
  <2>2. code' \in Nat /\ code' < 65536
    <3>1. entry \in Nat /\ entry < 65536
      BY EntriesAssumption
    <3>2. Big5(D(1), D(2), full, entry) \in {Good(2, entry), Bad(IlSeq)}
      BY DEF Big5, Found
    <3>3. code' \in {code, entry}
      BY <2>1, <3>2 DEF Good, Bad, IlSeq
    <3> QED
      BY <1>2, <3>1, <3>3
  <2> DEFINE c == code'
  <2>3. c \in Characters /\ c < 65536
    BY <2>2, SMT DEF Characters
  <2> DEFINE s == Utf8(c)
             m == 2
  <2>4. Round(m, s)
    BY <2>1
  <2> HIDE DEF c
  <2>5. s \in Seq(Byte) /\ Len(s) \in 1..4 /\ Len(s) <= 3
    BY <2>3, Utf8Is
  <2>6. m = 2
    OBVIOUS
  <2> HIDE DEF s, m
  <2>7. 2 * Len(s) <= 3 * m /\ m <= Rest /\ m \in Nat
    <3> DEFINE x == Len(s)
    <3>1. x \in {1, 2, 3, 4} /\ x <= 3
      BY <2>5
    <3> HIDE DEF x
    <3>2. 2 * x <= 6
      BY <3>1
    <3>3. 2 * Len(s) <= 6
      BY <3>2 DEF x
    <3> QED
      BY <1>1, <1>2, <2>6, <3>3
  <2> QED
    BY <1>1, <1>2, <2>2, <2>4, <2>5, <2>7, TwoByteRound
<1>4. CASE ~Big5Pair(D(1), D(2))
  <2>1. Round(1, <<D(1)>>) /\ code' = code
    BY <1>4 DEF TakeBig5
  <2>2. PICK m \in Nat, s \in Seq(Byte) :
          /\ m = 1 /\ Len(s) = 1
          /\ at' = at + m /\ out' = out \o s /\ turn' = ~turn
          /\ UNCHANGED <<data, table, coding, start>>
    <3>1. <<D(1)>> \in Seq(Byte) /\ Len(<<D(1)>>) = 1
      BY <1>2
    <3> QED
      BY <2>1, <3>1 DEF Round
  <2>3. 2 * Len(s) <= 3 * m /\ m <= Rest /\ m \in Nat
    BY <1>1, <1>2, <2>2
  <2>4. /\ m \in Nat /\ s \in Seq(Byte)
        /\ at' = at + m /\ out' = out \o s /\ turn' = ~turn
        /\ UNCHANGED <<data, table, coding, start>>
    BY <2>2
  <2>5. /\ code' \in Nat /\ coding \in TwoByteCodings
        /\ coding = BIG5 => code' < 65536
        /\ coding = GB18030 => IsUTF8(s)
    BY <1>2, <2>1
  <2>6. converting = "loop" /\ converting' = "loop" /\ SafeInv
    BY <1>1
  <2>7. m <= Rest /\ 2 * Len(s) <= 3 * m
    BY <2>3
  <2> QED
    BY <2>4, <2>5, <2>6, <2>7, TwoByteRoundOf, SMTT(30)
<1> QED
  BY <1>3, <1>4

LEMMA EndBig5Safe == SafeInv /\ EndBig5 => SafeInv'
<1> SUFFICES ASSUME SafeInv, EndBig5 PROVE SafeInv'
  OBVIOUS
<1>1. /\ ConvertTyped /\ TwoByteInv /\ converting = "loop" /\ converting' = "done"
      /\ coding = BIG5 /\ Rest <= 1 /\ code' = code
      /\ IF Rest = 1 /\ D(1) # 0 /\ D(1) \notin 160..249 THEN Round(1, <<D(1)>>) ELSE Round(0, <<>>)
  BY DEF SafeInv, EndBig5
<1> DEFINE x == Len(out)
           z == Len(data)
<1>2. /\ coding \in TwoByteCodings /\ coding # GB18030 /\ at <= z /\ 2 * x <= 3 * (at - start)
      /\ code < 65536 /\ code' \in Nat
  BY <1>1, CodingsAre DEF TwoByteInv, TwoByteCodings, ConvertTyped
<1>3. x \in Nat /\ z \in Nat /\ at \in Nat /\ start \in Nat /\ Rest = z - at
  BY <1>1, RestIs DEF ConvertTyped
<1>4. CASE Rest = 1 /\ D(1) # 0 /\ D(1) \notin 160..249
  <2>1. D(1) \in Byte
    BY <1>1, <1>4, RestIs
  <2>2. Round(1, <<D(1)>>)
    BY <1>1, <1>4
  <2>3. PICK m \in Nat, s \in Seq(Byte) :
          /\ m = 1 /\ Len(s) = 1
          /\ at' = at + m /\ out' = out \o s /\ turn' = ~turn
          /\ UNCHANGED <<data, table, coding, start>>
    <3>1. <<D(1)>> \in Seq(Byte) /\ Len(<<D(1)>>) = 1
      BY <2>1
    <3> QED
      BY <2>2, <3>1 DEF Round
  <2>0. m \in Nat /\ converting' \in {"loop", "done"}
    BY <1>1, <2>3
  <2>8. /\ at' = at + m /\ out' = out \o s /\ turn' = ~turn
        /\ UNCHANGED <<data, table, coding, start>>
    BY <2>3
  <2>9. ConvertTyped' /\ Len(out') = x + Len(s) /\ at' = at + m
    BY <1>1, <1>2, <2>0, <2>8, RoundIsOf, SMTT(30)
  <2>4. ConvertTyped' /\ Len(out') = x + 1 /\ at' = at + 1
    BY <2>3, <2>9
  <2>5. data' = data /\ start' = start /\ coding' = coding
    BY <2>3
  <2> HIDE DEF x, z
  <2>6. at' = z /\ 2 * (x + 1) <= 3 * (at' - start)
    BY <1>2, <1>3, <1>4, <2>4
  <2>7. Len(data') = z
    BY <2>5 DEF z
  <2>10. TwoByteInv'
    BY <1>1, <1>2, <1>3, <2>4, <2>5, <2>6, <2>7 DEF TwoByteInv, ConvertedToTheEnd
  <2> QED
    BY <1>2, <2>4, <2>5, <2>10, CodingsAre DEF SafeInv, WideInv
<1>5. CASE ~(Rest = 1 /\ D(1) # 0 /\ D(1) \notin 160..249)
  <2>1. PICK m \in Nat, s \in Seq(Byte) :
          /\ m = 0 /\ Len(s) = 0
          /\ at' = at + m /\ out' = out \o s /\ turn' = ~turn
          /\ UNCHANGED <<data, table, coding, start>>
    <3>1. Round(0, <<>>) /\ <<>> \in Seq(Byte)
      BY <1>1, <1>5
    <3> QED
      BY <3>1 DEF Round
  <2>0. m \in Nat /\ converting' \in {"loop", "done"}
    BY <1>1, <2>1
  <2>8. /\ at' = at + m /\ out' = out \o s /\ turn' = ~turn
        /\ UNCHANGED <<data, table, coding, start>>
    BY <2>1
  <2>9. ConvertTyped' /\ Len(out') = x + Len(s) /\ at' = at + m
    BY <1>1, <1>2, <2>0, <2>8, RoundIsOf, SMTT(30)
  <2>2. ConvertTyped' /\ Len(out') = x + 0 /\ at' = at + 0
    BY <2>1, <2>9
  <2>3. data' = data /\ start' = start /\ coding' = coding
    BY <2>1
  <2>4. Len(out') = x /\ at' = at /\ Len(data') = z
    BY <1>3, <2>2, <2>3
  <2>5. at = z \/ (Rest = 1 /\ D(1) \in {0} \cup 160..249)
    <3> HIDE DEF x, z
    <3>1. at = z \/ Rest = 1
      BY <1>1, <1>2, <1>3
    <3> QED
      BY <1>5, <3>1
  <2>6. (at = Len(data) \/ (coding = BIG5 /\ Rest = 1 /\ D(1) \in {0} \cup 160..249))'
    BY <1>1, <2>3, <2>4, <2>5 DEF Rest, D
  <2> HIDE DEF x, z
  <2>7. TwoByteInv'
    BY <1>1, <1>2, <2>3, <2>4, <2>6 DEF TwoByteInv, ConvertedToTheEnd
  <2> QED
    BY <1>2, <2>2, <2>3, <2>7, CodingsAre DEF SafeInv, WideInv
<1> QED
  BY <1>4, <1>5

LEMMA EndOfTextSafe == SafeInv /\ EndOfText => SafeInv'
<1> SUFFICES ASSUME SafeInv, EndOfText PROVE SafeInv'
  OBVIOUS
<1>1. /\ ConvertTyped /\ TwoByteInv /\ WideInv /\ coding # BIG5 /\ Rest <= 0
      /\ converting' = "done" /\ converting = "loop"
      /\ data' = data /\ table' = table /\ coding' = coding /\ start' = start
      /\ at' = at /\ out' = out /\ code' = code
  BY DEF SafeInv, EndOfText
<1>2. ConvertTyped'
  BY <1>1 DEF ConvertTyped
<1>3. coding \in TwoByteCodings => at = Len(data)
  <2> SUFFICES ASSUME coding \in TwoByteCodings PROVE at = Len(data)
    OBVIOUS
  <2>1. at <= Len(data) /\ Rest = Len(data) - at /\ at \in Nat /\ Len(data) \in Nat
    BY <1>1, RestIs DEF TwoByteInv, ConvertTyped
  <2> DEFINE z == Len(data)
  <2>2. at <= z /\ z - at <= 0 /\ at \in Nat /\ z \in Nat
    BY <1>1, <2>1
  <2> HIDE DEF z
  <2>3. at = z
    BY <2>2
  <2> QED
    BY <2>3 DEF z
<1>4. TwoByteInv'
  BY <1>1, <1>3 DEF TwoByteInv, ConvertedToTheEnd
<1>5. WideInv'
  BY <1>1 DEF WideInv
<1> QED
  BY <1>2, <1>4, <1>5 DEF SafeInv
-----------------------------------------------------------------------------
(* A step that leaves the text alone leaves alone what it should become.    *)
LEMMA TextStays ==
  ASSUME data' = data, coding' = coding, start' = start
  PROVE  /\ Utf16Text' = Utf16Text /\ SoundUtf16' = SoundUtf16 /\ Words' = Words
         /\ \A f : Endings16(f)' = Endings16(f)
         /\ \A k : Low10(W(k))' = Low10(W(k))
<1>1. data' = data /\ coding' = coding /\ start' = start
  OBVIOUS
<1>2. Utf16Text' = Utf16Text
  BY <1>1 DEF Utf16Text, Words, W, Low10, High
<1>3. SoundUtf16' = SoundUtf16 /\ Words' = Words
  BY <1>1 DEF SoundUtf16, Words, W, Low10, High
<1>4. \A f : Endings16(f)' = Endings16(f)
  <2> TAKE f
  <2>1. Words' = Words /\ \A k : W(k)' = W(k)
    BY <1>1 DEF Words, W
  <2>2. \A k : Piece16(k)' = Piece16(k) /\ Low10(W(k))' = Low10(W(k))
    BY <1>1 DEF Piece16, High, Low10, W, Words
  <2> QED
    BY <1>2, <2>1, <2>2 DEF Endings16
<1>5. \A k : Low10(W(k))' = Low10(W(k))
  BY <1>1 DEF W, Low10
<1> QED
  BY <1>2, <1>3, <1>4, <1>5

LEMMA Regrouped ==
  ASSUME NEW a \in Seq(Byte), NEW b \in Seq(Byte), NEW c \in Seq(Byte)
  PROVE  (a \o b) \o c = a \o (b \o c)
<1> DEFINE x == (a \o b) \o c
           y == a \o (b \o c)
<1>1. x \in Seq(Byte) /\ y \in Seq(Byte) /\ Len(x) = Len(a) + Len(b) + Len(c) /\ Len(y) = Len(x)
  OBVIOUS
<1>2. \A x0 \in 1..Len(a) + Len(b) + Len(c) : x[x0] = y[x0]
  OBVIOUS
<1> HIDE DEF x, y
<1>3. x = y
  BY <1>1, <1>2
<1> QED
  BY <1>3 DEF x, y

LEMMA NothingBehind ==
  ASSUME NEW S, NEW a \in Seq(S), NEW b \in Seq(S)
  PROVE  /\ Len(a \o b) = Len(a) + Len(b) /\ Len(a) \in Nat /\ Len(b) \in Nat
         /\ Len(b) = 0 => a \o b = a
<1>1. Len(b) = 0 => b = <<>>
  OBVIOUS
<1>2. a \o <<>> = a
  OBVIOUS
<1> QED
  BY <1>1, <1>2

(* From the k-th word to the l-th: the characters between are put out, and  *)
(* if the loop ends for want of room, nothing is left to be put out.        *)
LEMMA Utf16Emit ==
  ASSUME BytesOfWords, out \in Seq(Byte), Len(Utf16Text) + 3 <= OutMax,
         NEW f, Endings16(f), NEW k \in 1..Words + 1, NEW l \in 1..Words + 1, NEW s \in Seq(Byte),
         out \o f[k] = Utf16Text, f[k] = s \o f[l], out' = out \o s,
         at' = start + 2 * (l - 1), l <= Words => ~Low10(W(l)),
         data' = data, coding' = coding, start' = start,
         converting' = IF Len(out') + 4 > OutMax THEN "done" ELSE "loop"
  PROVE  Utf16Inv'
<1>1. /\ Utf16Text' = Utf16Text /\ SoundUtf16' = SoundUtf16 /\ Words' = Words
      /\ Endings16(f)' /\ Low10(W(l))' = Low10(W(l))
  BY TextStays
<1>2. f[l] \in Seq(Byte) /\ OutMax \in Nat
  BY ConvertAssumption DEF Endings16
<1> DEFINE u == f[l]
<1>3. out' \o u = Utf16Text
  <2>0. out \in Seq(Byte) /\ s \in Seq(Byte) /\ u \in Seq(Byte)
    BY <1>2
  <2> HIDE DEF u
  <2>1. (out \o s) \o u = out \o (s \o u)
    BY <2>0, Regrouped
  <2> QED
    BY <2>1 DEF u
<1>4. Behind16(f, l)'
  BY <1>1, <1>3 DEF Behind16
<1>5. converting' = "done" => out' = Utf16Text
  <2> SUFFICES ASSUME converting' = "done" PROVE out' = Utf16Text
    OBVIOUS
  <2>1. out' \in Seq(Byte) /\ Len(out') + 4 > OutMax
    OBVIOUS
  <2> DEFINE v == out'
             x == Len(v)
             y == Len(u)
             z == Len(Utf16Text)
  <2>2. x + y = z /\ x \in Nat /\ y \in Nat /\ (y = 0 => v \o u = v)
    <3>1. v \in Seq(Byte) /\ u \in Seq(Byte) /\ v \o u = Utf16Text
      BY <1>2, <1>3, <2>1
    <3> HIDE DEF v, u
    <3> QED
      BY <3>1, NothingBehind
  <2>3. z + 3 <= OutMax /\ x + 4 > OutMax
    BY <2>1
  <2> HIDE DEF x, y, z
  <2>4. y = 0
    <3>1. y \in Nat /\ x \in Nat /\ OutMax \in Nat /\ (x + y) + 3 <= OutMax /\ x + 4 > OutMax
      BY <1>2, <2>2, <2>3
    <3> QED
      BY <3>1
  <2> HIDE DEF u
  <2> QED
    BY <1>3, <2>2, <2>4
<1> QED
  BY <1>1, <1>4, <1>5 DEF Utf16Inv

LEMMA SuffixesAlways == BytesOfWords /\ SoundUtf16 => \E f : Endings16(f)
BY SuffixesExist

LEMMA WordsNatural == BytesOfWords => Words \in Nat
BY WordsAre

LEMMA AnnounceUtf16 == SafeInv /\ SafeInv' /\ Announce => Utf16Inv'
<1> SUFFICES ASSUME SafeInv, SafeInv', Announce, coding' \in Utf16Codings, SoundUtf16'
             PROVE  /\ converting' = "loop"
                    /\ \E f : Endings16(f)' /\ \E k \in 1..Words' + 1 : Behind16(f, k)'
  BY DEF Utf16Inv
<1>1. (BytesOfWords /\ SoundUtf16 => \E f : Endings16(f))'
  BY SuffixesAlways, PTL
<1>2. coding' \in Wide /\ coding' \in 0..31
  BY CodingsAre
<1>3. BytesOfWords'
  BY <1>2 DEF SafeInv, ConvertTyped, WideInv, BytesOfWords
<1>4. PICK f : Endings16(f)'
  BY <1>1, <1>3
<1>5. converting' = "loop" /\ at' = start' /\ start' \in Nat /\ out' = <<>>
  BY <1>2 DEF Announce, SafeInv, ConvertTyped
<1>6. (BytesOfWords => Words \in Nat)'
  BY WordsNatural, PTL
<1>7. Words' \in Nat
  BY <1>3, <1>6
<1> DEFINE w == Words'
<1>8. w \in Nat /\ 1 \in 1..w + 1
  <2>1. w \in Nat
    BY <1>7
  <2> HIDE DEF w
  <2> QED
    BY <2>1
<1>9. Behind16(f, 1)'
  <2>1. at' = start' + 2 * (1 - 1)
    <3> DEFINE x == start'
               y == at'
    <3>1. x \in Nat /\ y = x
      BY <1>5
    <3> HIDE DEF x, y
    <3>2. y = x + 2 * (1 - 1)
      BY <3>1
    <3> QED
      BY <3>2 DEF x, y
  <2>2. 1 <= w => ~Low10(W(1))'
    BY <1>8 DEF SoundUtf16
  <2>3. f[1] \in Seq(Byte) /\ f[1] = Utf16Text'
    <3> HIDE DEF w
    <3> QED
      BY <1>4, <1>8 DEF Endings16, w
  <2>4. out' \o f[1] = Utf16Text'
    BY <1>5, <2>3
  <2> QED
    BY <2>1, <2>2, <2>4 DEF Behind16
<1> HIDE DEF w
<1> QED
  BY <1>4, <1>5, <1>8, <1>9 DEF w

(* Of a sound text the loop stands at a word, and the bytes from there are  *)
(* the words that are left.                                                 *)
LEMMA StandsAt ==
  ASSUME BytesOfWords, SoundUtf16, coding \in Utf16Codings, NEW k \in 1..Words + 1,
         at = start + 2 * (k - 1)
  PROVE  /\ Words \in Nat /\ Rest = 2 * ((Words + 1) - k)
         /\ k \in 1..Words => Word(1) = W(k)
         /\ k + 1 \in 1..Words => Word(3) = W(k + 1)
<1>1. Words \in Nat /\ start \in Nat /\ Len(data) = start + 2 * Words
  BY WordsAre DEF BytesOfWords, SoundUtf16
<1>2. Rest = 2 * ((Words + 1) - k)
  <2> DEFINE w == Words
             z == Len(data)
  <2>1. w \in Nat /\ k \in 1..w + 1 /\ start \in Nat /\ z = start + 2 * w
    BY <1>1
  <2> HIDE DEF w, z
  <2>2. z - at = 2 * ((w + 1) - k)
    BY <2>1
  <2> QED
    BY <2>2 DEF Rest, w, z
<1>3. /\ at + 1 = start + 2 * k - 1 /\ at + 2 = start + 2 * k /\ at + (1 + 1) = start + 2 * k
      /\ at + 3 = start + 2 * (k + 1) - 1 /\ at + (3 + 1) = start + 2 * (k + 1)
  <2> DEFINE w == Words
  <2>1. w \in Nat /\ k \in 1..w + 1 /\ start \in Nat
    BY <1>1
  <2> HIDE DEF w
  <2> QED
    BY <2>1
<1>4. Word(1) = W(k)
  BY <1>3 DEF Word, W, D
<1>5. Word(3) = W(k + 1)
  BY <1>3 DEF Word, W, D
<1> QED
  BY <1>1, <1>2, <1>4, <1>5

LEMMA LowIsNotHigh ==
  ASSUME NEW v, Low10(v)
  PROVE  ~High(v)
<1>1. v \in 56320..57343
  BY DEF Low10
<1>2. v \in Int /\ v >= 56320
  BY <1>1
<1> QED
  BY <1>2 DEF High

LEMMA TakeUtf16Right ==
  SafeInv /\ Utf16Inv /\ TakeUtf16 => Utf16Inv'
<1> SUFFICES ASSUME SafeInv, Utf16Inv, TakeUtf16, coding' \in Utf16Codings, SoundUtf16',
                    Len(Utf16Text') + 3 <= OutMax
             PROVE  Utf16Inv'
  BY DEF Utf16Inv
<1>1. data' = data /\ coding' = coding /\ start' = start
  BY DEF TakeUtf16, Stop, Emit, Round
<1>2. /\ coding \in Utf16Codings /\ SoundUtf16 /\ Len(Utf16Text) + 3 <= OutMax
      /\ Utf16Text' = Utf16Text /\ Words' = Words
  BY <1>1, TextStays
<1>3. BytesOfWords /\ out \in Seq(Byte) /\ coding \in Wide
  BY <1>2, CodingsAre DEF SafeInv, ConvertTyped, WideInv, BytesOfWords
<1>4. PICK f : Endings16(f) /\ \E k \in 1..Words + 1 : Behind16(f, k)
  BY <1>2 DEF Utf16Inv, TakeUtf16
<1>5. PICK k \in 1..Words + 1 : Behind16(f, k)
  BY <1>4
<1>6. /\ Words \in Nat /\ at = start + 2 * (k - 1) /\ out \o f[k] = Utf16Text
      /\ Rest = 2 * ((Words + 1) - k) /\ Rest > 0
      /\ k \in 1..Words => Word(1) = W(k)
      /\ k + 1 \in 1..Words => Word(3) = W(k + 1)
  BY <1>2, <1>3, <1>5, StandsAt DEF Behind16, TakeUtf16
<1> DEFINE w == Words
<1>7. k \in 1..w /\ k <= w /\ k + 1 \in 1..w + 1 /\ Rest >= 2
  <2>1. w \in Nat /\ k \in 1..w + 1 /\ Rest = 2 * ((w + 1) - k) /\ Rest > 0
    BY <1>6
  <2> HIDE DEF w
  <2> QED
    BY <2>1
<1>8. /\ W(k) \in Nat /\ W(k) < 65536 /\ W(k) # 0 /\ ~Low10(W(k)) /\ Word(1) = W(k)
      /\ f[k] = Piece16(k) \o f[k + 1] /\ f[k + 1] \in Seq(Byte) /\ f[Words + 1] = <<>>
  <2>1. W(k) \in Nat /\ W(k) < 65536
    BY <1>3, <1>7, WordsAre
  <2>2. ~Low10(W(k)) /\ W(k) # 0
    BY <1>2, <1>5, <1>7 DEF Behind16, SoundUtf16
  <2>3. f[k] = Piece16(k) \o f[k + 1] /\ f[k + 1] \in Seq(Byte) /\ f[Words + 1] = <<>>
    <3>1. /\ f \in [1..Words + 1 -> Seq(Byte)] /\ f[Words + 1] = <<>>
          /\ f[k] = IF Low10(W(k)) THEN f[k + 1] ELSE Piece16(k) \o f[k + 1]
      BY <1>4, <1>7 DEF Endings16
    <3> QED
      BY <1>7, <2>2, <3>1
  <2> QED
    BY <1>6, <1>7, <2>1, <2>2, <2>3
<1>9. ASSUME NEW l \in 1..Words + 1, NEW s \in Seq(Byte), f[k] = s \o f[l],
             l <= Words => ~Low10(W(l)), NEW c \in Nat \ {0}, NEW n \in Nat, s = Utf8(c),
             n = 2 * (l - k), Emit(c, n)
      PROVE  Utf16Inv'
  <2>1. out' = out \o s /\ at' = at + n
    BY <1>9 DEF Emit, Round
  <2>2. converting' = IF Len(out') + 4 > OutMax THEN "done" ELSE "loop"
    BY <1>9 DEF Emit
  <2>3. at' = start + 2 * (l - 1)
    <3>1. start \in Nat /\ k \in Int /\ l \in Int
      BY <1>3, <1>6 DEF BytesOfWords
    <3> QED
      BY <1>6, <1>9, <2>1, <3>1
  <2> QED
    BY <1>1, <1>2, <1>3, <1>4, <1>6, <1>9, <2>1, <2>2, <2>3, Utf16Emit
<1>10. ASSUME f[k] = <<>>, Stop(out) PROVE Utf16Inv'
  <2>1. converting' = "done" /\ out' = out /\ out = Utf16Text
    BY <1>3, <1>6, <1>10 DEF Stop
  <2> QED
    BY <1>2, <2>1 DEF Utf16Inv
<1>11. CASE Word(1) \notin 55296..57343
  <2>1. Emit(Word(1), 2)
    <3>1. ~(Rest < 2)
      BY <1>6, <1>7
    <3> QED
      BY <1>11, <3>1 DEF TakeUtf16
  <2>2. ~High(W(k))
    BY <1>8, <1>11 DEF High
  <2>3. f[k] = Utf8(Word(1)) \o f[k + 1]
    <3>1. Piece16(k) = Utf8(W(k))
      BY <2>2 DEF Piece16
    <3>2. Utf8(Word(1)) = Utf8(W(k))
      BY <1>8
    <3>3. f[k] = Piece16(k) \o f[k + 1]
      BY <1>8
    <3> QED
      BY <3>1, <3>2, <3>3, Zenon
  <2>4. k + 1 <= Words => ~Low10(W(k + 1))
    <3> SUFFICES ASSUME k + 1 <= w PROVE ~Low10(W(k + 1))
      OBVIOUS
    <3>1. k + 1 \in 1..w
      BY <1>7
    <3>2. (k + 1) - 1 = k
      BY <1>7
    <3> HIDE DEF w
    <3> QED
      BY <1>2, <2>2, <3>1, <3>2 DEF SoundUtf16, w
  <2>5. Utf8(Word(1)) \in Seq(Byte)
    <3>1. W(k) \in Characters
      BY <1>8, SMT DEF Characters
    <3> QED
      BY <1>8, <3>1, Utf8Is
  <2>6. 2 = 2 * ((k + 1) - k) /\ k + 1 \in 1..Words + 1 /\ Word(1) \in Nat \ {0}
    BY <1>7, <1>8
  <2> QED
    BY <1>9, <2>1, <2>3, <2>4, <2>5, <2>6
<1>12. CASE Word(1) \in 55296..57343
  <2>1. High(W(k)) /\ ~(Word(1) > 56319)
    <3> DEFINE v == W(k)
    <3>1. v \in Nat /\ v \in 55296..57343 /\ v \notin 56320..57343 /\ Word(1) = v
      BY <1>8, <1>12 DEF Low10
    <3> HIDE DEF v
    <3>2. v \in 55296..56319 /\ ~(v > 56319)
      BY <3>1
    <3> QED
      BY <3>1, <3>2 DEF High, v
  <2>2. k < Words /\ Low10(W(k + 1))
    BY <1>2, <1>7, <2>1 DEF SoundUtf16
  <2>3. k + 1 \in 1..w /\ k + 2 \in 1..w + 1 /\ (k + 1) + 1 = k + 2
    <3>1. w \in Nat /\ k \in 1..w /\ k < w
      BY <1>6, <1>7, <2>2
    <3> HIDE DEF w
    <3> QED
      BY <3>1
  <2>4. f[k + 1] = f[k + 2]
    BY <1>4, <2>2, <2>3 DEF Endings16
  <2>5. CASE Rest <= 4
    <3>1. k + 1 = w /\ k + 2 = w + 1
      <4>1. w \in Nat /\ k \in 1..w /\ k < w /\ Rest = 2 * ((w + 1) - k)
        BY <1>6, <1>7, <2>2
      <4> HIDE DEF w
      <4> QED
        BY <2>5, <4>1
    <3>2. Piece16(k) = <<>> /\ f[k + 1] = <<>>
      BY <1>8, <2>1, <2>4, <3>1 DEF Piece16
    <3>3. f[k] = <<>>
      BY <1>8, <3>2
    <3>4. Stop(out)
      BY <1>7, <1>12, <2>5 DEF TakeUtf16
    <3> QED
      BY <1>10, <3>3, <3>4
  <2>6. CASE ~(Rest <= 4)
    <3>1. k + 1 # w
      <4>1. w \in Nat /\ k \in 1..w /\ k < w /\ Rest = 2 * ((w + 1) - k)
        BY <1>6, <1>7, <2>2
      <4> HIDE DEF w
      <4> QED
        BY <2>6, <4>1
    <3> DEFINE c == Paired(Word(1), Word(3))
    <3>2. Word(3) = W(k + 1) /\ Word(3) \in 56320..57343
      BY <1>6, <2>2, <2>3 DEF Low10
    <3>3. Emit(c, 4)
      <4>1. ~(Rest < 2)
        BY <1>6, <1>7
      <4> QED
        BY <1>12, <2>1, <2>6, <3>2, <4>1 DEF TakeUtf16
    <3>4. f[k] = Utf8(c) \o f[k + 2]
      <4>1. Piece16(k) = Utf8(Paired(W(k), W(k + 1)))
        BY <2>1, <3>1 DEF Piece16
      <4>2. c = Paired(W(k), W(k + 1))
        BY <1>8, <3>2
      <4> HIDE DEF c
      <4> QED
        BY <1>8, <2>4, <4>1, <4>2
    <3>5. c \in Characters /\ c >= 65536
      <4>1. Word(3) \in Nat /\ Word(1) \in Nat
        <5> DEFINE v == Word(3)
        <5>1. v \in 56320..57343
          BY <3>2
        <5> HIDE DEF v
        <5>2. v \in Nat
          BY <5>1
        <5> QED
          BY <1>8, <5>2 DEF v
      <4> QED
        BY <4>1, PairedIs
    <3>6. Utf8(c) \in Seq(Byte)
      BY <3>5, Utf8Is
    <3>7. c \in Nat \ {0}
      <4> HIDE DEF c
      <4> QED
        BY <3>5 DEF Characters
    <3>8. k + 2 <= Words => ~Low10(W(k + 2))
      <4> SUFFICES ASSUME k + 2 <= w PROVE ~Low10(W(k + 2))
        OBVIOUS
      <4>1. k + 2 \in 1..w /\ (k + 2) - 1 = k + 1
        BY <1>7
      <4>2. ~High(W(k + 1))
        BY <2>2, LowIsNotHigh
      <4> HIDE DEF w
      <4> QED
        BY <1>2, <4>1, <4>2 DEF SoundUtf16, w
    <3>9. 4 = 2 * ((k + 2) - k) /\ k + 2 \in 1..Words + 1
      BY <1>7, <2>3
    <3> HIDE DEF c
    <3> QED
      BY <1>9, <3>3, <3>4, <3>6, <3>7, <3>8, <3>9
  <2> QED
    BY <2>5, <2>6
<1> QED
  BY <1>11, <1>12

LEMMA EndOfTextRight == SafeInv /\ Utf16Inv /\ EndOfText => Utf16Inv'
<1> SUFFICES ASSUME SafeInv, Utf16Inv, EndOfText, coding' \in Utf16Codings, SoundUtf16',
                    Len(Utf16Text') + 3 <= OutMax
             PROVE  Utf16Inv'
  BY DEF Utf16Inv
<1>1. /\ data' = data /\ coding' = coding /\ start' = start /\ out' = out
      /\ converting' = "done" /\ converting = "loop" /\ Rest <= 0
  BY DEF EndOfText
<1>2. /\ coding \in Utf16Codings /\ SoundUtf16 /\ Len(Utf16Text) + 3 <= OutMax
      /\ Utf16Text' = Utf16Text
  BY <1>1, TextStays
<1>3. BytesOfWords /\ out \in Seq(Byte)
  BY <1>2, CodingsAre DEF SafeInv, ConvertTyped, WideInv, BytesOfWords
<1>4. PICK f : Endings16(f) /\ \E k \in 1..Words + 1 : Behind16(f, k)
  BY <1>1, <1>2 DEF Utf16Inv
<1>5. PICK k \in 1..Words + 1 : Behind16(f, k)
  BY <1>4
<1>6. /\ Words \in Nat /\ out \o f[k] = Utf16Text /\ Rest = 2 * ((Words + 1) - k)
  BY <1>2, <1>3, <1>5, StandsAt DEF Behind16
<1>7. k = Words + 1
  <2> DEFINE w == Words
  <2>1. w \in Nat /\ k \in 1..w + 1 /\ Rest = 2 * ((w + 1) - k) /\ Rest <= 0
    BY <1>1, <1>6
  <2> HIDE DEF w
  <2>2. k = w + 1
    BY <2>1
  <2> QED
    BY <2>2 DEF w
<1>8. f[k] = <<>>
  BY <1>4, <1>7 DEF Endings16
<1>9. out' = Utf16Text'
  BY <1>1, <1>2, <1>3, <1>6, <1>8
<1> QED
  BY <1>1, <1>9 DEF Utf16Inv

(* The whole step: what the conversion is always in.                        *)
LEMMA ConvertStep == ConvertInv /\ [ConvertNext]_convertVars => ConvertInv'
<1> SUFFICES ASSUME ConvertInv, [ConvertNext]_convertVars PROVE ConvertInv'
  OBVIOUS
<1>1. SafeInv /\ Utf16Inv
  BY DEF ConvertInv
<1>2. CASE Announce
  BY <1>1, <1>2, AnnounceSafe, AnnounceUtf16 DEF ConvertInv
<1>3. CASE CopyByte
  <2>1. coding' \notin Utf16Codings
    BY <1>3, CodingsAre DEF CopyByte, Round
  <2> QED
    BY <1>1, <1>3, <2>1, CopyByteSafe DEF ConvertInv, Utf16Inv
<1>4. CASE TakeNothing
  <2>1. coding' \notin Utf16Codings
    BY <1>4, CodingsAre DEF TakeNothing, Round
  <2> QED
    BY <1>1, <1>4, <2>1, TakeNothingSafe DEF ConvertInv, Utf16Inv
<1>5. CASE TakeUnicode
  <2>1. coding' \notin Utf16Codings
    BY <1>5, CodingsAre DEF TakeUnicode, Emit, Round
  <2> QED
    BY <1>1, <1>5, <2>1, TakeUnicodeSafe DEF ConvertInv, Utf16Inv
<1>6. CASE TakeUtf16
  BY <1>1, <1>6, TakeUtf16Safe, TakeUtf16Right DEF ConvertInv
<1>7. CASE TakeGB18030
  <2>1. coding' = coding /\ coding = GB18030
    BY <1>7 DEF TakeGB18030, Round
  <2>2. coding' \notin Utf16Codings
    BY <2>1, CodingsAre DEF TwoByteCodings
  <2> QED
    BY <1>1, <1>7, <2>2, TakeGB18030Safe DEF ConvertInv, Utf16Inv
<1>8. CASE TakeBig5
  <2>1. coding' = coding /\ coding = BIG5
    BY <1>8 DEF TakeBig5, Round
  <2>2. coding' \notin Utf16Codings
    BY <2>1, CodingsAre DEF TwoByteCodings
  <2> QED
    BY <1>1, <1>8, <2>2, TakeBig5Safe DEF ConvertInv, Utf16Inv
<1>9. CASE EndBig5
  <2>1. coding' = coding /\ coding = BIG5
    BY <1>9 DEF EndBig5, Round
  <2>2. coding' \notin Utf16Codings
    BY <2>1, CodingsAre DEF TwoByteCodings
  <2> QED
    BY <1>1, <1>9, <2>2, EndBig5Safe DEF ConvertInv, Utf16Inv
<1>10. CASE EndOfText
  BY <1>1, <1>10, EndOfTextSafe, EndOfTextRight DEF ConvertInv
<1>11. CASE UNCHANGED convertVars
  <2>1. /\ data' = data /\ table' = table /\ coding' = coding /\ start' = start
        /\ at' = at /\ out' = out /\ code' = code /\ converting' = converting
    BY <1>11 DEF convertVars
  <2>2. SafeInv'
    <3>1. ConvertTyped'
      BY <1>1, <2>1 DEF SafeInv, ConvertTyped
    <3>2. TwoByteInv'
      BY <1>1, <2>1 DEF SafeInv, TwoByteInv, ConvertedToTheEnd, Rest, D
    <3>3. WideInv'
      BY <1>1, <2>1 DEF SafeInv, WideInv
    <3> QED
      BY <3>1, <3>2, <3>3 DEF SafeInv
  <2>3. Utf16Inv'
    <3>1. /\ Utf16Text' = Utf16Text /\ SoundUtf16' = SoundUtf16 /\ Words' = Words
          /\ \A f : Endings16(f)' = Endings16(f)
          /\ \A k : Low10(W(k))' = Low10(W(k))
      BY <2>1, TextStays
    <3>2. \A f, k : Behind16(f, k)' = Behind16(f, k)
      BY <2>1, <3>1 DEF Behind16
    <3> QED
      BY <1>1, <2>1, <3>1, <3>2 DEF Utf16Inv
  <2> QED
    BY <2>2, <2>3 DEF ConvertInv
<1> QED
  BY <1>2, <1>3, <1>4, <1>5, <1>6, <1>7, <1>8, <1>9, <1>10, <1>11 DEF ConvertNext

LEMMA ConvertInvRight == ConvertInv => ConversionRight
<1> SUFFICES ASSUME ConvertInv PROVE ConversionRight
  OBVIOUS
<1>1. ConvertTyped /\ TwoByteInv /\ WideInv /\ Utf16Inv
  BY DEF ConvertInv, SafeInv
<1>2. OutFits
  <2>1. ASSUME coding \in TwoByteCodings, Len(data) > start
        PROVE  Len(out) < 2 * (Len(data) - start)
    <3> DEFINE x == Len(out)
               z == Len(data)
    <3>1. x \in Nat /\ z \in Nat /\ at \in Nat /\ start \in Nat
      BY <1>1 DEF ConvertTyped
    <3>2. at <= z /\ 2 * x <= 3 * (at - start) /\ z > start
      BY <1>1, <2>1 DEF TwoByteInv
    <3> HIDE DEF x, z
    <3>3. x < 2 * (z - start)
      BY <3>1, <3>2
    <3> QED
      BY <3>3 DEF x, z
  <2>2. coding \in Wide => Len(out) <= OutMax
    BY <1>1 DEF WideInv
  <2> QED
    BY <2>1, <2>2 DEF OutFits, TwoByteCodings
<1>3. Utf16Right
  BY <1>1 DEF Utf16Inv, Utf16Right, Utf16Codings
<1>4. ConvertedIsUtf8
  <2>1. GB18030 \in TwoByteCodings
    BY DEF TwoByteCodings
  <2> QED
    BY <1>1, <2>1 DEF ConvertedIsUtf8, TwoByteInv, WideInv
<1>5. ConvertedToTheEnd
  <2>1. CASE coding \in TwoByteCodings
    BY <1>1, <2>1 DEF TwoByteInv
  <2>2. CASE coding \notin TwoByteCodings
    BY <2>2 DEF ConvertedToTheEnd, TwoByteCodings
  <2> QED
    BY <2>1, <2>2
<1> QED
  BY <1>2, <1>3, <1>4, <1>5 DEF ConversionRight

(* Of any bytes in any coding and with any character tables: the conversion *)
(* keeps within its buffers, makes UTF-8 of Unicode and GB18030, loses no   *)
(* character of a sound UTF-16 text that fits but a last pair, and reads    *)
(* GB18030 and Big5 to the end (convertDVBUTF8, GB18030ToUTF8, Big5ToUTF8). *)
THEOREM ConversionAlwaysRight == ConvertSpec => []ConversionRight
<1>1. ConvertInit => ConvertInv
  BY InitialConvert
<1>2. ConvertInv /\ [ConvertNext]_convertVars => ConvertInv'
  BY ConvertStep
<1>3. ConvertInv => ConversionRight
  BY ConvertInvRight
<1> QED
  BY <1>1, <1>2, <1>3, PTL DEF ConvertSpec
=============================================================================
