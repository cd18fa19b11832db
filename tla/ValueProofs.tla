---------------------------- MODULE ValueProofs -----------------------------
(***************************************************************************)
(* What TLAPS proves of the values epgen makes of bytes: messages of any   *)
(* length, read or given in any pieces, are digested in the blocks of MD5, *)
(* the length of an event survives the swaps of its byte 10, and dates,    *)
(* instants and durations survive the bytes they are stored in.            *)
(***************************************************************************)
EXTENDS Md5, LoopLength, DvbTime, Lemmas

Pieces == {"message", "fill", "length"} \X Nat

(* n bytes of the message, behind the first `from`. *)
Part(s, from, n) ==
  /\ from \in Nat /\ n \in Nat
  /\ s \in Seq(Pieces) /\ Len(s) = n
  /\ \A k \in 1..n : s[k] = <<"message", from + k>>

LEMMA PiecesSame ==
  ASSUME NEW s \in Seq(Pieces), NEW t \in Seq(Pieces), Len(s) = Len(t),
         \A k \in 1..Len(s) : s[k] = t[k]
  PROVE  s = t
<1>1. s = [k \in 1..Len(s) |-> s[k]] /\ t = [k \in 1..Len(t) |-> t[k]]
  OBVIOUS
<1> QED
  BY <1>1

LEMMA MessagePart ==
  ASSUME NEW from \in Nat, NEW to \in Nat, from <= to
  PROVE  Part(Message(from, to), from, to - from)
<1> DEFINE n == to - from
           s == [k \in 1..n |-> <<"message", from + k>>]
<1>1. n \in Nat /\ Message(from, to) = s
  BY DEF Message
<1> HIDE DEF n
<1>2. \A k \in 1..n : <<"message", from + k>> \in Pieces
  BY <1>1 DEF Pieces
<1>3. s \in Seq(Pieces) /\ Len(s) = n
  <2>1. s \in [1..n -> Pieces]
    BY <1>2
  <2>2. DOMAIN s = 1..n
    OBVIOUS
  <2> HIDE DEF s
  <2> QED
    BY <1>1, <2>1, <2>2
<1>4. Part(s, from, n)
  BY <1>1, <1>3 DEF Part
<1> QED
  BY <1>1, <1>4 DEF n

LEMMA EmptyPart == ASSUME NEW from \in Nat PROVE Part(<<>>, from, 0)
BY DEF Part

LEMMA JoinParts ==
  ASSUME NEW s, NEW t, NEW from, NEW m, NEW n, Part(s, from, m), Part(t, from + m, n)
  PROVE  Part(s \o t, from, m + n)
<1>1. /\ from \in Nat /\ m \in Nat /\ n \in Nat
      /\ s \in Seq(Pieces) /\ Len(s) = m /\ t \in Seq(Pieces) /\ Len(t) = n
      /\ \A k \in 1..m : s[k] = <<"message", from + k>>
      /\ \A k \in 1..n : t[k] = <<"message", (from + m) + k>>
  BY DEF Part
<1> DEFINE u == s \o t
<1>2. /\ u \in Seq(Pieces) /\ Len(u) = m + n
      /\ \A k \in 1..m : u[k] = s[k]
      /\ \A k \in m + 1..m + n : u[k] = t[k - m]
  <2>1. s \in Seq(Pieces) /\ Len(s) = m /\ m \in Nat
    BY <1>1
  <2>2. t \in Seq(Pieces) /\ Len(t) = n /\ n \in Nat
    BY <1>1
  <2> QED
    BY <2>1, <2>2
<1> HIDE DEF u
<1>3. \A k \in 1..m + n : u[k] = <<"message", from + k>>
  <2> TAKE k \in 1..m + n
  <2>1. CASE k \in 1..m
    BY <1>1, <1>2, <2>1
  <2>2. CASE k \notin 1..m
    <3>1. k \in m + 1..m + n /\ k - m \in 1..n /\ (from + m) + (k - m) = from + k
      BY <1>1, <2>2
    <3> QED
      BY <1>1, <1>2, <3>1
  <2> QED
    BY <2>1, <2>2
<1> QED
  BY <1>1, <1>2, <1>3, SMTT(30) DEF Part, u

LEMMA CutPart ==
  ASSUME NEW s, NEW from, NEW n, Part(s, from, n), NEW lead \in 0..n, NEW upto \in lead..n
  PROVE  Part(SubSeq(s, lead + 1, upto), from + lead, upto - lead)
<1>1. /\ from \in Nat /\ n \in Nat /\ s \in Seq(Pieces) /\ Len(s) = n
      /\ \A k \in 1..n : s[k] = <<"message", from + k>>
  BY DEF Part
<1> DEFINE u == SubSeq(s, lead + 1, upto)
           m == upto - lead
<1>2. /\ u \in Seq(Pieces) /\ Len(u) = m /\ m \in Nat
      /\ \A k \in 1..m : u[k] = s[k + lead]
  BY <1>1
<1>3. \A k \in 1..m : k + lead \in 1..n /\ from + (k + lead) = (from + lead) + k
  BY <1>1
<1> HIDE DEF u, m
<1>4. \A k \in 1..m : u[k] = <<"message", (from + lead) + k>>
  BY <1>1, <1>2, <1>3
<1> QED
  BY <1>1, <1>2, <1>4 DEF Part, u, m

-----------------------------------------------------------------------------
(* The two words count x bytes. *)
CountIs(count, x) ==
  \E q \in Nat, high \in 0..WordMod - 1, low \in 0..WordMod - 1 :
    count = <<low, high>> /\ x = (WordMod * ((WordMod * q) + high)) + low

LEMMA NothingCounted == CountIs(<<0, 0>>, 0)
<1>1. WordMod \in Nat /\ WordMod > 0
  BY Md5Assumption
<1>2. 0 = (WordMod * ((WordMod * 0) + 0)) + 0 /\ 0 \in 0..WordMod - 1
  BY <1>1
<1> QED
  BY <1>2 DEF CountIs

LEMMA Words == WordMod \in Nat \ {0} /\ WordMod >= ReadBlock + 2 * Block
BY Md5Assumption

LEMMA CountedMore ==
  ASSUME NEW count, NEW x, CountIs(count, x), NEW n \in 0..WordMod - 1
  PROVE  CountIs(Counted(count, n), x + n)
<1> DEFINE W == WordMod
<1>1. PICK q \in Nat, high \in 0..W - 1, low \in 0..W - 1 :
        count = <<low, high>> /\ x = (W * ((W * q) + high)) + low
  BY DEF CountIs
<1>2. W \in Nat \ {0}
  BY Words
<1> DEFINE lower == (low + n) % W
<1>3. Counted(count, n) = <<lower, (IF lower < n THEN high + 1 ELSE high) % W>>
  BY <1>1 DEF Counted
<1> HIDE DEF W
<1>4. CASE low + n < W
  <2>1. low + n \in 0..W - 1 /\ low + n = (W * 0) + (low + n)
    BY <1>2, <1>4 DEF W
  <2>2. lower = low + n
    BY <1>2, <2>1, RemainderUnique
  <2>3. high % W = high
    BY <1>2, RemainderUnique
  <2> HIDE DEF lower
  <2>4. Counted(count, n) = <<low + n, high>>
    BY <1>3, <2>2, <2>3 DEF W
  <2>5. x + n = (W * ((W * q) + high)) + (low + n)
    BY <1>1, <1>2 DEF W
  <2> QED
    BY <2>1, <2>4, <2>5 DEF CountIs, W
<1>5. CASE ~(low + n < W)
  <2>1. (low + n) - W \in 0..W - 1 /\ low + n = (W * 1) + ((low + n) - W) /\ low + n \in Int
    BY <1>2, <1>5 DEF W
  <2>2. lower = (low + n) - W
    <3> DEFINE r == (low + n) - W
               a == low + n
    <3>1. r \in 0..W - 1 /\ a = (W * 1) + r /\ a \in Int
      BY <2>1
    <3> HIDE DEF r, a
    <3>2. a % W = r
      BY <1>2, <3>1, RemainderUnique
    <3> QED
      BY <3>2 DEF r, a
  <2> HIDE DEF lower
  <2>3. lower < n /\ lower \in 0..W - 1
    BY <1>2, <2>1, <2>2 DEF W
  <2>4. CASE high + 1 < W
    <3>1. high + 1 \in 0..W - 1
      BY <1>2, <2>4
    <3>2. (high + 1) % W = high + 1
      BY <1>2, <3>1, RemainderUnique
    <3>3. Counted(count, n) = <<lower, high + 1>>
      BY <1>3, <2>3, <3>2
    <3>4. x + n = (W * ((W * q) + (high + 1))) + lower
      <4> DEFINE p == (W * q) + high
      <4>1. p \in Nat /\ x = (W * p) + low
        BY <1>1, <1>2
      <4>2. W * (p + 1) = (W * p) + W
        <5> HIDE DEF p
        <5> QED
          BY <1>2, <4>1
      <4>3. W * p \in Nat
        BY <1>2, <4>1
      <4>4. (W * q) + (high + 1) = p + 1
        BY <1>2
      <4> HIDE DEF p
      <4> QED
        BY <1>2, <2>2, <4>1, <4>2, <4>3, <4>4
    <3> QED
      BY <2>3, <3>1, <3>3, <3>4 DEF CountIs, W
  <2>5. CASE ~(high + 1 < W)
    <3>1. high + 1 = W
      BY <1>2, <2>5
    <3>2. (high + 1) % W = 0
      <4>1. high + 1 = (W * 1) + 0 /\ 0 \in 0..W - 1 /\ high + 1 \in Int
        BY <1>2, <3>1
      <4> QED
        BY <1>2, <4>1, RemainderUnique
    <3>3. Counted(count, n) = <<lower, 0>>
      BY <1>3, <2>3, <3>2
    <3>4. x + n = (W * ((W * (q + 1)) + 0)) + lower
      <4> DEFINE p == (W * q) + high
      <4>1. p \in Nat /\ x = (W * p) + low
        BY <1>1, <1>2
      <4>2. W * (p + 1) = (W * p) + W
        <5> HIDE DEF p
        <5> QED
          BY <1>2, <4>1
      <4>3. W * p \in Nat
        BY <1>2, <4>1
      <4>4. (W * (q + 1)) + 0 = p + 1
        BY <1>2, <3>1
      <4> HIDE DEF p
      <4> QED
        BY <1>2, <2>2, <4>1, <4>2, <4>3, <4>4
    <3>5. q + 1 \in Nat /\ 0 \in 0..W - 1
      BY <1>2
    <3> QED
      BY <2>3, <3>3, <3>4, <3>5 DEF CountIs, W
  <2> QED
    BY <2>4, <2>5
<1> QED
  BY <1>4, <1>5
-----------------------------------------------------------------------------
(* l bytes of the message are compressed and counted, b more are waiting. *)
InBlocks(count, done, l) ==
  Part(done, 0, l) /\ l % Block = 0 /\ CountIs(count, l)

ReadyAt(ctx, l, b) ==
  /\ ctx = Ctx(ctx.buffer, ctx.total, ctx.blocks)
  /\ InBlocks(ctx.total, ctx.blocks, l)
  /\ Part(ctx.buffer, l, b) /\ b <= Block

Ready(ctx, x) == \E l, b : ReadyAt(ctx, l, b) /\ x = l + b

LEMMA CtxReady ==
  ASSUME NEW s, NEW count, NEW done, NEW l, NEW b,
         InBlocks(count, done, l), Part(s, l, b), b <= Block
  PROVE  Ready(Ctx(s, count, done), l + b)
<1> DEFINE c == Ctx(s, count, done)
<1>1. c.buffer = s /\ c.total = count /\ c.blocks = done /\ c = Ctx(s, count, done)
  BY DEF Ctx
<1> HIDE DEF c
<1>2. ReadyAt(c, l, b)
  BY <1>1 DEF ReadyAt
<1>3. Ready(c, l + b)
  BY <1>2 DEF Ready
<1> QED
  BY <1>3 DEF c

LEMMA WholeIs ==
  ASSUME NEW n \in Nat
  PROVE  /\ Whole(n) \in 0..n /\ Whole(n) % Block = 0 /\ n - Whole(n) \in 0..Block - 1
<1>1. Block \in Nat \ {0}
  BY Md5Assumption
<1>2. n \div Block \in Nat /\ n % Block \in 0..(Block - 1)
      /\ n = (Block * (n \div Block)) + (n % Block)
  BY <1>1, Division
<1> DEFINE q == n \div Block
           r == n % Block
<1>3. Whole(n) = n - r
  BY DEF Whole
<1> HIDE DEF q, r
<1>4. Block * q \in Nat /\ r \in 0..(Block - 1) /\ n = (Block * q) + r
  BY <1>1, <1>2 DEF q, r
<1>5. Whole(n) = Block * q
  BY <1>3, <1>4
<1>6. Whole(n) % Block = 0
  <2>1. Whole(n) = (Block * q) + 0 /\ 0 \in 0..(Block - 1) /\ q \in Int /\ Whole(n) \in Int
    BY <1>1, <1>2, <1>4, <1>5 DEF q
  <2> QED
    BY <1>1, <2>1, RemainderUnique
<1> DEFINE w == Block * q
<1>7. w \in Nat /\ r \in 0..Block - 1 /\ n = w + r /\ Whole(n) = w
  BY <1>4, <1>5
<1> HIDE DEF w
<1>8. Whole(n) \in 0..n /\ n - Whole(n) \in 0..Block - 1
  BY <1>1, <1>7
<1> QED
  BY <1>6, <1>8

LEMMA WholeSum ==
  ASSUME NEW m \in Nat, NEW n \in Nat, m % Block = 0, n % Block = 0
  PROVE  (m + n) % Block = 0
<1>1. Block \in Nat \ {0}
  BY Md5Assumption
<1>2. ((m % Block) + n) % Block = (m + n) % Block
  BY <1>1, RemainderOfSum
<1>3. (m % Block) + n = n
  OBVIOUS
<1> QED
  BY <1>2, <1>3

LEMMA ProcessedIs ==
  ASSUME NEW b, NEW count, NEW done, NEW s
  PROVE  Processed(Ctx(b, count, done), s) = Ctx(b, Counted(count, Len(s)), done \o s)
<1> DEFINE c == Ctx(b, count, done)
           more == Counted(count, Len(s))
           all == done \o s
<1>1. c.total = count /\ c.blocks = done
  BY DEF Ctx
<1>2. Processed(c, s) = [c EXCEPT !.total = Counted(c.total, Len(s)), !.blocks = c.blocks \o s]
  BY DEF Processed
<1> HIDE DEF c
<1>3. Processed(c, s) = [c EXCEPT !.total = more, !.blocks = all]
  BY <1>1, <1>2
<1> HIDE DEF more, all
<1>4. Processed(c, s) = Ctx(b, more, all)
  BY <1>3 DEF c, Ctx
<1> QED
  BY <1>4 DEF c, more, all

LEMMA EmptyIs == ASSUME NEW s, NEW from, Part(s, from, 0) PROVE s = <<>>
BY DEF Part

LEMMA BlocksMore ==
  ASSUME NEW count, NEW done, NEW l, InBlocks(count, done, l),
         NEW s, NEW n, Part(s, l, n), n % Block = 0, n < WordMod
  PROVE  InBlocks(Counted(count, Len(s)), done \o s, l + n)
<1>1. l \in Nat /\ n \in Nat /\ Len(s) = n /\ Part(s, 0 + l, n)
  BY DEF InBlocks, Part
<1>2. Part(done \o s, 0, l + n)
  BY <1>1, JoinParts DEF InBlocks
<1>3. (l + n) % Block = 0
  BY <1>1, WholeSum DEF InBlocks
<1>4. CountIs(Counted(count, n), l + n)
  <2>1. n \in 0..WordMod - 1
    BY <1>1, Words
  <2> QED
    BY <2>1, CountedMore DEF InBlocks
<1> QED
  BY <1>1, <1>2, <1>3, <1>4 DEF InBlocks

LEMMA ProcessReady ==
  ASSUME NEW ctx, NEW l, NEW b, ReadyAt(ctx, l, b),
         NEW s, NEW n, Part(s, l + b, n), n < WordMod
  PROVE  Ready(ProcessBytes(ctx, s), (l + b) + n)
<1> DEFINE left   == Len(ctx.buffer)
           add    == IF 2 * Block - left > Len(s) THEN Len(s) ELSE 2 * Block - left
           joined == ctx.buffer \o SubSeq(s, 1, add)
           cut    == Whole(left + add)
           first  == IF left = 0 THEN ctx
                     ELSE IF left + add > Block
                       THEN [Processed(ctx, SubSeq(joined, 1, cut))
                               EXCEPT !.buffer = SubSeq(joined, cut + 1, left + add)]
                     ELSE [ctx EXCEPT !.buffer = joined]
           rest   == IF left = 0 THEN s ELSE SubSeq(s, add + 1, Len(s))
           much   == Whole(Len(rest))
           second == IF Len(rest) > Block THEN Processed(first, SubSeq(rest, 1, much))
                     ELSE first
           last   == IF Len(rest) > Block THEN SubSeq(rest, much + 1, Len(rest)) ELSE rest
           result == IF last # <<>> THEN [second EXCEPT !.buffer = last] ELSE second
<1>1. ProcessBytes(ctx, s) = result
  BY DEF ProcessBytes
<1>2. /\ l \in Nat /\ b \in Nat /\ n \in Nat /\ b <= Block /\ Len(s) = n /\ left = b
      /\ ctx = Ctx(ctx.buffer, ctx.total, ctx.blocks)
      /\ InBlocks(ctx.total, ctx.blocks, l) /\ Part(ctx.buffer, l, b)
      /\ Block \in Nat /\ Block > 2
  BY Md5Assumption DEF ReadyAt, Part
<1> HIDE DEF left
<1>3. \E lead, m, c : /\ lead \in 0..n
                      /\ ReadyAt(first, m, c) /\ m + c = (l + b) + lead
                      /\ Part(rest, (l + b) + lead, n - lead)
                      /\ lead # n => c = 0
  <2>1. CASE b = 0
    <3>1. first = ctx /\ rest = s
      BY <1>2, <2>1
    <3> HIDE DEF first, rest
    <3>2. ReadyAt(first, l, 0) /\ l + 0 = (l + b) + 0 /\ Part(rest, (l + b) + 0, n - 0)
      BY <1>2, <2>1, <3>1
    <3>3. 0 \in 0..n
      BY <1>2
    <3> QED
      BY <3>2, <3>3
  <2>2. CASE b # 0
    <3>1. /\ add = IF 2 * Block - b > n THEN n ELSE 2 * Block - b
          /\ add \in 0..n /\ b + add <= 2 * Block
      BY <1>2
    <3>2. rest = SubSeq(s, add + 1, n)
      BY <1>2, <2>2
    <3>3. joined = ctx.buffer \o SubSeq(s, 1, add)
      OBVIOUS
    <3>4. first = IF b + add > Block
                    THEN [Processed(ctx, SubSeq(joined, 1, cut))
                            EXCEPT !.buffer = SubSeq(joined, cut + 1, b + add)]
                  ELSE [ctx EXCEPT !.buffer = joined]
      BY <1>2, <2>2
    <3>5. cut = Whole(b + add)
      BY <1>2
    <3> HIDE DEF rest, joined, first, add, cut
    <3>6. Part(rest, (l + b) + add, n - add)
      <4>1. n \in add..n
        BY <1>2, <3>1
      <4> QED
        BY <3>1, <3>2, <4>1, CutPart
    <3>7. Part(joined, l, b + add)
      <4>1. 0 \in 0..n /\ add \in 0..n /\ add - 0 = add /\ (l + b) + 0 = l + b /\ 0 + 1 = 1
        BY <1>2, <3>1
      <4>2. Part(SubSeq(s, 0 + 1, add), (l + b) + 0, add - 0)
        BY <4>1, CutPart
      <4>3. Part(SubSeq(s, 1, add), l + b, add)
        BY <4>1, <4>2
      <4> QED
        BY <1>2, <3>3, <4>3, JoinParts
    <3>8. CASE b + add > Block
      <4>1. /\ b + add \in Nat /\ cut \in 0..b + add /\ cut % Block = 0
            /\ (b + add) - cut \in 0..Block - 1
        <5> DEFINE x == b + add
        <5>1. x \in Nat /\ cut = Whole(x)
          BY <1>2, <3>1, <3>5
        <5> HIDE DEF x
        <5>2. cut \in 0..x /\ cut % Block = 0 /\ x - cut \in 0..Block - 1
          BY <5>1, WholeIs
        <5> QED
          BY <5>1, <5>2 DEF x
      <4> DEFINE piece == SubSeq(joined, 1, cut)
                 tail  == SubSeq(joined, cut + 1, b + add)
      <4>2. Part(piece, l, cut)
        <5>1. 0 \in 0..b + add /\ cut - 0 = cut /\ l + 0 = l /\ 0 + 1 = 1
          BY <1>2, <4>1
        <5>2. Part(SubSeq(joined, 0 + 1, cut), l + 0, cut - 0)
          BY <3>7, <4>1, <5>1, CutPart
        <5> QED
          BY <5>1, <5>2
      <4>3. Part(tail, l + cut, (b + add) - cut)
        <5>1. b + add \in cut..b + add
          BY <4>1
        <5> QED
          BY <3>7, <4>1, <5>1, CutPart
      <4> HIDE DEF piece, tail
      <4>4. first = Ctx(tail, Counted(ctx.total, Len(piece)), ctx.blocks \o piece)
        <5>1. first = [Processed(ctx, piece) EXCEPT !.buffer = tail]
          BY <3>4, <3>8 DEF piece, tail
        <5>2. Processed(ctx, piece)
                = Ctx(ctx.buffer, Counted(ctx.total, Len(piece)), ctx.blocks \o piece)
          BY <1>2, ProcessedIs
        <5>3. \A x, y, z : [Ctx(x, y, z) EXCEPT !.buffer = tail] = Ctx(tail, y, z)
          BY DEF Ctx
        <5> QED
          BY <5>1, <5>2, <5>3
      <4>5. InBlocks(Counted(ctx.total, Len(piece)), ctx.blocks \o piece, l + cut)
        <5>1. cut < WordMod
          BY <1>2, <3>1, <4>1, Words, Md5Assumption
        <5> QED
          BY <1>2, <4>1, <4>2, <5>1, BlocksMore
      <4>6. /\ first.buffer = tail /\ first.total = Counted(ctx.total, Len(piece))
            /\ first.blocks = ctx.blocks \o piece
            /\ first = Ctx(first.buffer, first.total, first.blocks)
        BY <4>4 DEF Ctx
      <4>7. ReadyAt(first, l + cut, (b + add) - cut)
        BY <1>2, <4>1, <4>3, <4>5, <4>6 DEF ReadyAt
      <4>8. add # n => (b + add) - cut = 0
        <5>1. add # n => b + add = 2 * Block
          BY <1>2, <3>1
        <5>2. b + add = 2 * Block => (b + add) % Block = 0
          <6>1. 2 * Block = (Block * 2) + 0 /\ 0 \in 0..(Block - 1) /\ Block \in Nat \ {0}
            BY <1>2
          <6>2. (2 * Block) % Block = 0
            BY <6>1, RemainderUnique
          <6> QED
            BY <6>2
        <5>3. cut = (b + add) - ((b + add) % Block)
          BY <3>5 DEF Whole
        <5> QED
          BY <4>1, <5>1, <5>2, <5>3
      <4>9. (l + cut) + ((b + add) - cut) = (l + b) + add
        BY <1>2, <3>1, <4>1
      <4> QED
        BY <3>1, <3>6, <4>7, <4>8, <4>9
    <3>9. CASE ~(b + add > Block)
      <4>1. first = [ctx EXCEPT !.buffer = joined]
        BY <3>4, <3>9
      <4>2. first = Ctx(joined, ctx.total, ctx.blocks)
        <5>1. [Ctx(ctx.buffer, ctx.total, ctx.blocks) EXCEPT !.buffer = joined]
                = Ctx(joined, ctx.total, ctx.blocks)
          BY DEF Ctx
        <5> QED
          BY <1>2, <4>1, <5>1
      <4>3. /\ first.buffer = joined /\ first.total = ctx.total /\ first.blocks = ctx.blocks
            /\ first = Ctx(first.buffer, first.total, first.blocks)
        BY <4>2 DEF Ctx
      <4>4. ReadyAt(first, l, b + add)
        BY <1>2, <3>1, <3>7, <3>9, <4>3 DEF ReadyAt
      <4>5. add = n /\ l + (b + add) = (l + b) + add
        BY <1>2, <2>2, <3>1, <3>9
      <4> QED
        BY <3>1, <3>6, <4>4, <4>5
    <3> QED
      BY <3>8, <3>9
  <2> QED
    BY <2>1, <2>2
<1> HIDE DEF first, rest
<1>4. PICK lead, m, c : /\ lead \in 0..n
                        /\ ReadyAt(first, m, c) /\ m + c = (l + b) + lead
                        /\ Part(rest, (l + b) + lead, n - lead)
                        /\ lead # n => c = 0
  BY <1>3
<1> DEFINE f == first
<1>5. /\ f = Ctx(f.buffer, f.total, f.blocks) /\ InBlocks(f.total, f.blocks, m)
      /\ Part(f.buffer, m, c) /\ c <= Block /\ m \in Nat /\ c \in Nat
      /\ Len(rest) = n - lead /\ rest \in Seq(Pieces)
  BY <1>4 DEF ReadyAt, Part
<1>6. CASE Len(rest) > Block
  <2>1. lead # n /\ c = 0 /\ m = (l + b) + lead
    BY <1>2, <1>4, <1>5, <1>6
  <2>2. /\ n - lead \in Nat /\ much \in 0..(n - lead) /\ much % Block = 0
        /\ (n - lead) - much \in 0..Block - 1
    <3> DEFINE x == n - lead
    <3>1. x \in Nat /\ much = Whole(x)
      BY <1>2, <1>4, <1>5
    <3> HIDE DEF x, much
    <3>2. much \in 0..x /\ much % Block = 0 /\ x - much \in 0..Block - 1
      BY <3>1, WholeIs
    <3> QED
      BY <3>1, <3>2 DEF x
  <2> DEFINE piece == SubSeq(rest, 1, much)
  <2>3. Part(piece, m, much)
    <3>1. 0 \in 0..n - lead /\ much - 0 = much /\ m + 0 = m /\ 0 + 1 = 1
      BY <1>5, <2>2
    <3>2. Part(rest, m, n - lead)
      BY <1>4, <2>1
    <3> HIDE DEF much
    <3>3. Part(SubSeq(rest, 0 + 1, much), m + 0, much - 0)
      BY <2>2, <3>1, <3>2, CutPart
    <3> QED
      BY <3>1, <3>3
  <2>4. Part(last, m + much, (n - lead) - much)
    <3>1. n - lead \in much..n - lead
      BY <2>2
    <3>2. Part(rest, m, n - lead)
      BY <1>4, <2>1
    <3>3. last = SubSeq(rest, much + 1, n - lead)
      BY <1>5, <1>6
    <3> HIDE DEF much, last
    <3> QED
      BY <2>2, <3>1, <3>2, <3>3, CutPart
  <2>5. second = Processed(f, piece)
    BY <1>6
  <2> HIDE DEF piece, last, much
  <2>6. second = Ctx(f.buffer, Counted(f.total, Len(piece)), f.blocks \o piece)
    BY <1>5, <2>5, ProcessedIs
  <2>7. InBlocks(Counted(f.total, Len(piece)), f.blocks \o piece, m + much)
    <3>1. much < WordMod
      BY <1>2, <1>4, <2>2, Words
    <3> QED
      BY <1>5, <2>2, <2>3, <3>1, BlocksMore
  <2>8. m + much + ((n - lead) - much) = (l + b) + n
    BY <1>2, <1>4, <2>1, <2>2
  <2> HIDE DEF f, second
  <2>9. CASE last # <<>>
    <3>1. result = Ctx(last, Counted(f.total, Len(piece)), f.blocks \o piece)
      BY <2>6, <2>9 DEF Ctx
    <3>2. Ready(result, (m + much) + ((n - lead) - much))
      <4>1. (n - lead) - much <= Block
        BY <1>2, <2>2
      <4> QED
        BY <2>4, <2>7, <3>1, <4>1, CtxReady
    <3> QED
      BY <1>1, <2>8, <3>2
  <2>10. CASE last = <<>>
    <3>1. result = second
      BY <2>10
    <3>2. (n - lead) - much = 0
      BY <2>4, <2>10 DEF Part
    <3>3. f.buffer = <<>> /\ m + much \in Nat
      <4>1. Part(f.buffer, m, 0)
        BY <1>5, <2>1
      <4> QED
        BY <1>5, <2>2, <4>1, EmptyIs
    <3>4. Part(f.buffer, m + much, 0)
      BY <3>3, EmptyPart
    <3>5. Ready(result, (m + much) + 0)
      BY <1>2, <2>6, <2>7, <3>1, <3>4, CtxReady
    <3> QED
      BY <1>1, <1>5, <2>2, <2>8, <3>2, <3>3, <3>5
  <2> QED
    BY <2>9, <2>10
<1>7. CASE ~(Len(rest) > Block)
  <2>1. last = rest /\ second = f
    BY <1>7
  <2> HIDE DEF last, second
  <2>2. CASE rest # <<>>
    <3>1. n - lead # 0
      BY <1>5, <2>2
    <3>2. c = 0 /\ m = (l + b) + lead
      BY <1>2, <1>4, <1>5, <3>1
    <3>3. result = Ctx(rest, f.total, f.blocks)
      <4>1. result = [f EXCEPT !.buffer = rest]
        BY <2>1, <2>2
      <4>2. [Ctx(f.buffer, f.total, f.blocks) EXCEPT !.buffer = rest]
              = Ctx(rest, f.total, f.blocks)
        BY DEF Ctx
      <4> HIDE DEF f
      <4> QED
        BY <1>5, <4>1, <4>2
    <3>4. Part(rest, m, n - lead) /\ n - lead <= Block
      <4>1. Part(rest, m, n - lead)
        BY <1>4, <3>2
      <4>2. Len(rest) = n - lead /\ n - lead \in Int /\ Block \in Int
        BY <1>2, <1>4, <1>5
      <4> QED
        BY <1>7, <4>1, <4>2
    <3>5. Ready(result, m + (n - lead))
      BY <1>5, <3>3, <3>4, CtxReady
    <3>6. m + (n - lead) = (l + b) + n
      BY <1>2, <1>4, <3>2
    <3> QED
      BY <1>1, <3>5, <3>6
  <2>3. CASE rest = <<>>
    <3>1. lead = n
      BY <1>2, <1>4, <1>5, <2>3
    <3>2. result = first
      BY <2>1, <2>3
    <3>3. Ready(first, m + c)
      BY <1>4 DEF Ready
    <3> QED
      BY <1>1, <1>4, <3>1, <3>2, <3>3
  <2> QED
    BY <2>2, <2>3
<1> QED
  BY <1>6, <1>7
-----------------------------------------------------------------------------
(* The two words of a count, in bits. *)
LEMMA BitsRight ==
  ASSUME NEW count, NEW x \in Nat, CountIs(count, x)
  PROVE  /\ (count[1] * 8) % WordMod = (x * 8) % WordMod
         /\ ((count[2] * 8) % WordMod) + (count[1] \div (WordMod \div 8))
              = ((x * 8) \div WordMod) % WordMod
<1> DEFINE W == WordMod
           w == WordMod \div 8
<1>1. PICK q \in Nat, high \in 0..W - 1, low \in 0..W - 1 :
        count = <<low, high>> /\ x = (W * ((W * q) + high)) + low
  BY DEF CountIs
<1>2. W \in Nat \ {0} /\ w \in Nat /\ W = 8 * w /\ w > 0
  BY Md5Assumption
<1> HIDE DEF W, w
<1> DEFINE t == low \div w
           s == low % w
           p == (W * q) + high
           g == (high * 8) \div W
           h == (high * 8) % W
<1>3. t \in Nat /\ s \in 0..w - 1 /\ low = (w * t) + s
  <2>1. low \in Nat /\ w \in Nat \ {0}
    BY <1>1, <1>2
  <2> QED
    BY <2>1, Division
<1>4. t < 8
  <2> HIDE DEF t, s
  <2>1. CASE t >= 8
    <3>1. PICK d \in Nat : t = 8 + d
      <4>1. t - 8 \in Nat /\ t = 8 + (t - 8)
        BY <1>3, <2>1
      <4> QED
        BY <4>1
    <3>2. w * t = (w * 8) + (w * d)
      BY <1>2, <3>1
    <3>3. w * d \in Nat
      BY <1>2, <3>1
    <3> DEFINE a == w * t
               b == w * d
    <3>4. a = (w * 8) + b /\ b \in Nat /\ low = a + s
      BY <1>3, <3>2, <3>3
    <3> HIDE DEF a, b
    <3> QED
      BY <1>2, <1>3, <3>4
  <2> QED
    BY <1>3, <2>1
<1>5. p \in Nat /\ x = (W * p) + low /\ high * 8 \in Nat /\ low \in Nat
  BY <1>1, <1>2
<1>6. g \in Nat /\ h \in 0..W - 1 /\ high * 8 = (W * g) + h
  BY <1>2, <1>5, Division
<1> HIDE DEF t, s, g, h, p
<1>7. x * 8 = (W * (8 * p)) + (low * 8)
  BY <1>2, <1>5
<1>8. low * 8 = (W * t) + (8 * s) /\ 8 * s \in 0..W - 1
  <2> DEFINE a == w * t
  <2>1. a \in Nat /\ low = a + s
    BY <1>2, <1>3
  <2>2. W * t = 8 * a
    BY <1>2, <1>3
  <2> HIDE DEF a
  <2> QED
    BY <1>2, <1>3, <2>1, <2>2
<1>9. x * 8 = (W * ((8 * p) + t)) + (8 * s)
  <2>1. W * ((8 * p) + t) = (W * (8 * p)) + (W * t)
    BY <1>2, <1>3, <1>5
  <2>2. W * (8 * p) \in Nat /\ W * t \in Nat
    BY <1>2, <1>3, <1>5
  <2> QED
    BY <1>3, <1>7, <1>8, <2>1, <2>2
<1> DEFINE r == 8 * s
           y == x * 8
           z == (8 * p) + t
<1>10. r \in 0..W - 1 /\ y \in Nat /\ z \in Nat /\ y = (W * z) + r /\ low * 8 = (W * t) + r
  BY <1>3, <1>5, <1>8, <1>9
<1> HIDE DEF r, y, z
<1>11. y % W = r /\ y \div W = z
  BY <1>2, <1>10, RemainderUnique, QuotientUnique
<1>12. (low * 8) % W = r
  <2> DEFINE u == low * 8
  <2>1. u = (W * t) + r /\ u \in Int
    BY <1>5, <1>10
  <2> HIDE DEF u
  <2>2. u % W = r
    BY <1>2, <1>3, <1>10, <2>1, RemainderUnique
  <2> QED
    BY <2>2 DEF u
<1>13. z = (W * ((8 * q) + g)) + (h + t)
  <2>1. 8 * p = (W * (8 * q)) + (high * 8)
    <3>1. 8 * (W * q) = W * (8 * q) /\ W * q \in Nat
      BY <1>2
    <3> QED
      BY <1>2, <3>1 DEF p
  <2>2. W * ((8 * q) + g) = (W * (8 * q)) + (W * g)
    BY <1>2, <1>6
  <2>3. W * (8 * q) \in Nat /\ W * g \in Nat
    BY <1>2, <1>6
  <2> QED
    BY <1>3, <1>6, <2>1, <2>2, <2>3 DEF z
<1>14. h + t \in 0..W - 1
  <2>1. PICK e \in Int : h = 8 * e
    <3>1. h = (high * 8) - (W * g)
      <4> DEFINE a == W * g
      <4>1. a \in Nat /\ high * 8 = a + h
        BY <1>2, <1>6
      <4> HIDE DEF a
      <4>2. h = (high * 8) - a
        BY <1>6, <4>1
      <4> QED
        BY <4>2 DEF a
    <3>2. W * g = 8 * (w * g)
      BY <1>2, <1>6
    <3>3. w * g \in Nat
      BY <1>2, <1>6
    <3>4. h = 8 * (high - (w * g)) /\ high - (w * g) \in Int
      BY <3>1, <3>2, <3>3
    <3> QED
      BY <3>4
  <2>2. h <= W - 8
    BY <1>2, <1>6, <2>1
  <2> QED
    BY <1>2, <1>3, <1>4, <1>6, <2>2
<1>15. z % W = h + t
  <2> DEFINE lead == (8 * q) + g
             upto == h + t
  <2>1. lead \in Int /\ upto \in 0..W - 1 /\ z = (W * lead) + upto
    BY <1>6, <1>13, <1>14
  <2> HIDE DEF lead, upto
  <2>2. z % W = upto
    BY <1>2, <1>10, <2>1, RemainderUnique
  <2> QED
    BY <2>2 DEF upto
<1>16. count[1] = low /\ count[2] = high
  BY <1>1
<1> QED
  BY <1>11, <1>12, <1>15, <1>16 DEF W, w, y, h, t

LEMMA PaddingRight ==
  ASSUME NEW b \in Nat, b <= Block
  PROVE  /\ Padding(b) \in Nat /\ Padding(b) > 0 /\ Padding(b) <= Block
         /\ (b + Padding(b) + LengthField) % Block = 0
         /\ b + Padding(b) + LengthField <= 2 * Block
<1>1. Block \in Nat \ {0} /\ Block > 2
  BY Md5Assumption
<1>2. /\ Padding(b) \in Nat /\ Padding(b) > 0 /\ Padding(b) <= Block
      /\ b + Padding(b) + LengthField \in {Block, 2 * Block}
  BY <1>1 DEF Padding, LengthField
<1>3. Block % Block = 0 /\ (2 * Block) % Block = 0
  <2>1. /\ Block = (Block * 1) + 0 /\ 2 * Block = (Block * 2) + 0
        /\ 0 \in 0..(Block - 1) /\ 2 * Block \in Int
    BY <1>1
  <2>2. Block % Block = 0
    BY <1>1, <2>1, RemainderUnique
  <2>3. (2 * Block) % Block = 0
    BY <1>1, <2>1, RemainderUnique
  <2> QED
    BY <2>2, <2>3
<1> DEFINE n == b + Padding(b) + LengthField
<1>4. n \in {Block, 2 * Block}
  BY <1>2
<1> HIDE DEF n
<1>5. n % Block = 0 /\ n <= 2 * Block
  BY <1>1, <1>3, <1>4
<1> QED
  BY <1>2, <1>5 DEF n
-----------------------------------------------------------------------------
(* u is s, of m pieces, and then t, of n. *)
Joins(u, s, m, t, n) ==
  /\ m \in Nat /\ n \in Nat /\ u \in Seq(Pieces) /\ Len(u) = m + n
  /\ \A k \in 1..m : u[k] = s[k]
  /\ \A k \in 1..n : u[m + k] = t[k]

LEMMA JoinedPieces ==
  ASSUME NEW s \in Seq(Pieces), NEW t \in Seq(Pieces)
  PROVE  Joins(s \o t, s, Len(s), t, Len(t))
<1> DEFINE u == s \o t
           m == Len(s)
           n == Len(t)
<1>1. m \in Nat /\ n \in Nat /\ u \in Seq(Pieces) /\ Len(u) = m + n
  OBVIOUS
<1>2. \A k \in 1..m : u[k] = s[k]
  OBVIOUS
<1>3. \A k \in m + 1..m + n : u[k] = t[k - m]
  OBVIOUS
<1> HIDE DEF u, m, n
<1>4. \A k \in 1..n : m + k \in m + 1..m + n /\ (m + k) - m = k
  BY <1>1
<1>5. \A k \in 1..n : u[m + k] = t[k]
  BY <1>3, <1>4
<1>6. Joins(u, s, m, t, n)
  BY <1>1, <1>2, <1>5 DEF Joins
<1> QED
  BY <1>6 DEF u, m, n

LEMMA FillIs ==
  ASSUME NEW n \in Nat
  PROVE  Fill(n) \in Seq(Pieces) /\ Len(Fill(n)) = n
<1> DEFINE s == [k \in 1..n |-> IF k = 1 THEN <<"fill", 128>> ELSE <<"fill", 0>>]
<1>1. \A k \in 1..n : (IF k = 1 THEN <<"fill", 128>> ELSE <<"fill", 0>>) \in Pieces
  BY DEF Pieces
<1>2. s \in [1..n -> Pieces] /\ DOMAIN s = 1..n
  BY <1>1
<1> HIDE DEF s
<1>3. s \in Seq(Pieces) /\ Len(s) = n
  BY <1>2
<1> QED
  BY <1>3 DEF Fill, s

LEMMA LengthIs ==
  ASSUME NEW low \in Nat, NEW high \in Nat
  PROVE  Length(low, high) \in Seq(Pieces) /\ Len(Length(low, high)) = LengthField
<1>1. <<"length", low>> \in Pieces /\ <<"length", high>> \in Pieces
  BY DEF Pieces
<1> DEFINE x == <<"length", low>>
           y == <<"length", high>>
<1>2. x \in Pieces /\ y \in Pieces /\ Length(low, high) = <<x, y>>
  BY <1>1 DEF Length
<1> HIDE DEF x, y
<1> QED
  BY <1>2 DEF LengthField

(* The blocks are those of n bytes of message, filled up, and their length. *)
Digested(done, n) ==
  LET bits == n * 8
      body == Len(done) - LengthField
  IN /\ Len(done) % Block = 0
     /\ body > n /\ body - n <= Block
     /\ SubSeq(done, 1, n) = Message(0, n)
     /\ SubSeq(done, n + 1, body) = Fill(body - n)
     /\ SubSeq(done, body + 1, Len(done)) =
          Length(bits % WordMod, (bits \div WordMod) % WordMod)

LEMMA PiecesOfSubSeq ==
  ASSUME NEW d \in Seq(Pieces), NEW lead \in Nat, NEW upto \in Nat, lead <= upto, upto <= Len(d),
         NEW s \in Seq(Pieces), Len(s) = upto - lead, \A k \in 1..upto - lead : d[lead + k] = s[k]
  PROVE  SubSeq(d, lead + 1, upto) = s
<1> DEFINE u == SubSeq(d, lead + 1, upto)
<1>1. /\ u \in Seq(Pieces) /\ Len(u) = upto - lead
      /\ \A k \in 1..upto - lead : u[k] = d[lead + k]
  <2>1. u \in Seq(Pieces) /\ Len(u) = upto - lead /\ \A k \in 1..upto - lead : u[k] = d[k + lead]
    OBVIOUS
  <2>2. \A k \in 1..upto - lead : k + lead = lead + k
    OBVIOUS
  <2> QED
    BY <2>1, <2>2
<1> HIDE DEF u
<1>2. \A k \in 1..Len(u) : u[k] = s[k]
  BY <1>1
<1>3. u = s
  BY <1>1, <1>2, PiecesSame
<1> QED
  BY <1>3 DEF u

(* d is n bytes of the message, p of filling and the two length words. *)
Filled(d, n, p, low, high) ==
  /\ Len(d) = n + p + LengthField
  /\ SubSeq(d, 1, n) = Message(0, n)
  /\ SubSeq(d, n + 1, n + p) = Fill(p)
  /\ SubSeq(d, (n + p) + 1, Len(d)) = Length(low, high)

LEMMA FilledUp ==
  ASSUME NEW done, NEW l, NEW buf, NEW b, Part(done, 0, l), Part(buf, l, b),
         NEW p \in Nat, NEW low \in Nat, NEW high \in Nat
  PROVE  Filled(done \o ((buf \o Fill(p)) \o Length(low, high)), l + b, p, low, high)
<1> DEFINE F == Fill(p)
           L == Length(low, high)
           u == buf \o F
           v == u \o L
           d == done \o v
<1>1. /\ l \in Nat /\ b \in Nat
      /\ done \in Seq(Pieces) /\ Len(done) = l /\ buf \in Seq(Pieces) /\ Len(buf) = b
      /\ \A k \in 1..l : done[k] = <<"message", 0 + k>>
      /\ \A k \in 1..b : buf[k] = <<"message", l + k>>
  BY DEF Part
<1>2. F \in Seq(Pieces) /\ Len(F) = p
  BY FillIs
<1>3. L \in Seq(Pieces) /\ Len(L) = LengthField /\ LengthField \in Nat
  BY LengthIs DEF LengthField
<1>4. d = done \o v
  OBVIOUS
<1> HIDE DEF F, L, d
<1>5. /\ u \in Seq(Pieces) /\ Len(u) = b + p
      /\ \A k \in 1..b : u[k] = buf[k]
      /\ \A k \in 1..p : u[b + k] = F[k]
  <2>1. Joins(u, buf, b, F, p)
    BY <1>1, <1>2, JoinedPieces
  <2> HIDE DEF u
  <2> QED
    BY <2>1 DEF Joins
<1> HIDE DEF u
<1>6. /\ v \in Seq(Pieces) /\ Len(v) = (b + p) + LengthField
      /\ \A k \in 1..b + p : v[k] = u[k]
      /\ \A k \in 1..LengthField : v[(b + p) + k] = L[k]
  <2>1. Joins(v, u, b + p, L, LengthField)
    BY <1>3, <1>5, JoinedPieces
  <2> HIDE DEF v
  <2> QED
    BY <2>1 DEF Joins
<1> HIDE DEF v
<1>7. /\ d \in Seq(Pieces) /\ Len(d) = l + ((b + p) + LengthField)
      /\ \A k \in 1..l : d[k] = done[k]
      /\ \A k \in 1..(b + p) + LengthField : d[l + k] = v[k]
  <2> DEFINE e == done \o v
  <2>1. Joins(e, done, l, v, (b + p) + LengthField)
    BY <1>1, <1>6, JoinedPieces
  <2>2. d = e
    BY <1>4
  <2> HIDE DEF e
  <2> QED
    BY <2>1, <2>2 DEF Joins
<1>8. \A k \in 1..l + b : d[k] = <<"message", k>>
  <2> TAKE k \in 1..l + b
  <2>1. CASE k <= l
    <3>1. k \in 1..l /\ 0 + k = k
      BY <1>1, <2>1
    <3> QED
      BY <1>1, <1>7, <3>1
  <2>2. CASE ~(k <= l)
    <3>1. PICK lead \in 1..b : k = l + lead
      <4>1. k - l \in 1..b /\ k = l + (k - l)
        BY <1>1, <2>2
      <4> QED
        BY <4>1
    <3>2. lead \in 1..(b + p) + LengthField /\ lead \in 1..b + p
      BY <1>1, <1>3
    <3> QED
      <4>1. /\ d[k] = v[lead] /\ v[lead] = u[lead] /\ u[lead] = buf[lead]
            /\ buf[lead] = <<"message", l + lead>>
        BY <1>1, <1>5, <1>6, <1>7, <3>1, <3>2
      <4> QED
        BY <3>1, <4>1
  <2> QED
    BY <2>1, <2>2
<1>9. \A k \in 1..p : d[(l + b) + k] = F[k]
  <2> TAKE k \in 1..p
  <2>1. b + k \in 1..(b + p) + LengthField /\ b + k \in 1..b + p /\ (l + b) + k = l + (b + k)
    BY <1>1, <1>3
  <2> QED
    BY <1>5, <1>6, <1>7, <2>1
<1>10. \A k \in 1..LengthField : d[((l + b) + p) + k] = L[k]
  <2> TAKE k \in 1..LengthField
  <2>1. (b + p) + k \in 1..(b + p) + LengthField /\ ((l + b) + p) + k = l + ((b + p) + k)
    BY <1>1, <1>3
  <2> QED
    BY <1>6, <1>7, <2>1
<1>11. SubSeq(d, 1, l + b) = Message(0, l + b)
  <2> DEFINE M == Message(0, l + b)
             n == l + b
  <2>1. n \in Nat /\ 0 <= n /\ n <= Len(d) /\ n - 0 = n /\ 0 + 1 = 1
    BY <1>1, <1>3, <1>7
  <2>2. Part(M, 0, n)
    <3>1. Part(Message(0, n), 0, n - 0)
      <4> HIDE DEF n
      <4> QED
        BY <2>1, MessagePart
    <3> QED
      BY <2>1, <3>1
  <2>3. M \in Seq(Pieces) /\ Len(M) = n - 0 /\ \A k \in 1..n : M[k] = <<"message", 0 + k>>
    BY <2>1, <2>2 DEF Part
  <2> HIDE DEF M
  <2>4. \A k \in 1..n - 0 : d[0 + k] = M[k]
    <3> TAKE k \in 1..n - 0
    <3>1. 0 + k = k /\ k \in 1..n
      BY <2>1
    <3> QED
      BY <1>8, <2>3, <3>1
  <2> HIDE DEF n
  <2>5. SubSeq(d, 0 + 1, n) = M
    BY <1>7, <2>1, <2>3, <2>4, PiecesOfSubSeq
  <2> QED
    BY <2>1, <2>5 DEF M, n
<1>12. SubSeq(d, (l + b) + 1, (l + b) + p) = F
  <2> DEFINE lead == l + b
             upto == (l + b) + p
  <2>1. lead \in Nat /\ upto \in Nat /\ lead <= upto /\ upto <= Len(d) /\ upto - lead = p
    BY <1>1, <1>3, <1>7
  <2>2. \A k \in 1..upto - lead : d[lead + k] = F[k]
    BY <1>9, <2>1
  <2> HIDE DEF lead, upto
  <2>3. SubSeq(d, lead + 1, upto) = F
    BY <1>2, <1>7, <2>1, <2>2, PiecesOfSubSeq, SMTT(30)
  <2> QED
    BY <2>3 DEF lead, upto
<1>13. SubSeq(d, ((l + b) + p) + 1, Len(d)) = L
  <2> DEFINE lead == (l + b) + p
             upto == Len(d)
  <2>1. lead \in Nat /\ upto \in Nat /\ lead <= upto /\ upto <= Len(d) /\ upto - lead = LengthField
    <3>1. /\ l \in Nat /\ b \in Nat /\ LengthField \in Nat /\ upto = l + ((b + p) + LengthField)
          /\ lead = (l + b) + p
      BY <1>1, <1>3, <1>7
    <3> HIDE DEF lead, upto
    <3>2. upto = lead + LengthField /\ lead \in Nat /\ upto \in Nat
      BY <3>1
    <3>3. upto <= Len(d)
      <4>1. upto = Len(d)
        BY DEF upto
      <4> QED
        BY <3>2, <4>1
    <3> QED
      BY <3>1, <3>2, <3>3
  <2>2. \A k \in 1..upto - lead : d[lead + k] = L[k]
    BY <1>10, <2>1
  <2>3. d \in Seq(Pieces) /\ L \in Seq(Pieces) /\ Len(L) = upto - lead
    BY <1>3, <1>7, <2>1
  <2> HIDE DEF lead, upto
  <2>4. SubSeq(d, lead + 1, upto) = L
    BY <2>1, <2>2, <2>3, PiecesOfSubSeq
  <2> QED
    BY <2>4 DEF lead, upto
<1>14. l + ((b + p) + LengthField) = (l + b) + p + LengthField
  BY <1>1, <1>3
<1>15. Filled(d, l + b, p, low, high)
  BY <1>7, <1>11, <1>12, <1>13, <1>14 DEF F, L, Filled
<1> QED
  BY <1>15 DEF d, v, u, F, L

LEMMA FinishRight ==
  ASSUME NEW ctx, NEW l, NEW b, ReadyAt(ctx, l, b)
  PROVE  /\ Digested(Finish(ctx).blocks, l + b)
         /\ Finish(ctx) = Ctx(ctx.buffer, Finish(ctx).total, Finish(ctx).blocks)
<1> DEFINE buf   == ctx.buffer
           done  == ctx.blocks
           count == Counted(ctx.total, Len(buf))
           low   == (count[1] * 8) % WordMod
           high  == ((count[2] * 8) % WordMod) + (count[1] \div (WordMod \div 8))
           p     == Padding(Len(buf))
           s     == (buf \o Fill(p)) \o Length(low, high)
           d     == done \o s
           twice == Counted(count, Len(s))
<1>1. /\ l \in Nat /\ b \in Nat /\ b <= Block /\ Len(buf) = b
      /\ ctx = Ctx(buf, ctx.total, done) /\ InBlocks(ctx.total, done, l)
      /\ Part(buf, l, b) /\ Part(done, 0, l) /\ l % Block = 0
  BY DEF ReadyAt, InBlocks, Part
<1>2. Finish(ctx) = Ctx(buf, twice, d)
  <2>1. Finish(ctx) = Processed([ctx EXCEPT !.total = count], s)
    BY DEF Finish
  <2>2. [ctx EXCEPT !.total = count] = Ctx(buf, count, done)
    <3> DEFINE c == count
               x == buf
               y == done
               z == ctx.total
    <3>1. ctx = Ctx(x, z, y)
      BY <1>1
    <3> HIDE DEF c, x, y, z
    <3>2. [ctx EXCEPT !.total = c] = Ctx(x, c, y)
      BY <3>1 DEF Ctx
    <3> QED
      BY <3>2 DEF c, x, y
  <2> HIDE DEF count, s, buf, done
  <2>3. Processed(Ctx(buf, count, done), s) = Ctx(buf, twice, d)
    BY ProcessedIs
  <2> QED
    BY <2>1, <2>2, <2>3
<1>3. Finish(ctx).blocks = d /\ Finish(ctx).total = twice
  <2> HIDE DEF d, twice, buf
  <2> QED
    BY <1>2 DEF Ctx
<1>4. /\ p \in Nat /\ p > 0 /\ p <= Block /\ (b + p + LengthField) % Block = 0
  BY <1>1, PaddingRight
<1>5. CountIs(count, l + b)
  <2>1. b \in 0..WordMod - 1 /\ CountIs(ctx.total, l)
    BY <1>1, Words, Md5Assumption DEF InBlocks
  <2> QED
    BY <1>1, <2>1, CountedMore
<1>6. low = ((l + b) * 8) % WordMod /\ high = (((l + b) * 8) \div WordMod) % WordMod
  <2> HIDE DEF count
  <2>1. l + b \in Nat
    BY <1>1
  <2> QED
    BY <1>5, <2>1, BitsRight
<1>7. low \in Nat /\ high \in Nat
  <2> DEFINE y == (l + b) * 8
  <2>1. y \in Nat
    BY <1>1
  <2> HIDE DEF y
  <2>2. y % WordMod \in Nat /\ y \div WordMod \in Nat
    <3> DEFINE W == WordMod
    <3>1. W \in Nat \ {0}
      BY Words
    <3> HIDE DEF W
    <3>2. y % W \in 0..W - 1 /\ y \div W \in Nat
      BY <2>1, <3>1, Division
    <3> QED
      BY <3>1, <3>2 DEF W
  <2>3. (y \div WordMod) % WordMod \in Nat
    BY <2>2, Words, Division
  <2> HIDE DEF low, high
  <2> QED
    BY <1>6, <2>2, <2>3 DEF y
<1> HIDE DEF count
<1>8. d = done \o ((buf \o Fill(p)) \o Length(low, high))
  OBVIOUS
<1> HIDE DEF d, s, p, low, high, twice
<1>9. /\ Len(d) = (l + b) + p + LengthField
      /\ SubSeq(d, 1, l + b) = Message(0, l + b)
      /\ SubSeq(d, (l + b) + 1, (l + b) + p) = Fill(p)
      /\ SubSeq(d, ((l + b) + p) + 1, Len(d)) = Length(low, high)
  <2> HIDE DEF buf, done
  <2>1. Filled(done \o ((buf \o Fill(p)) \o Length(low, high)), l + b, p, low, high)
    BY <1>1, <1>4, <1>7, FilledUp
  <2> QED
    BY <1>8, <2>1 DEF Filled
<1> DEFINE n == l + b
           body == Len(d) - LengthField
<1>10. body = n + p /\ body - n = p /\ body > n /\ body - n <= Block /\ n \in Nat
  BY <1>1, <1>4, <1>9 DEF LengthField
<1>11. Len(d) % Block = 0
  <2> DEFINE m == b + p + LengthField
  <2>1. m \in Nat /\ m % Block = 0 /\ Len(d) = l + m
    BY <1>1, <1>4, <1>9 DEF LengthField
  <2> HIDE DEF m
  <2> QED
    BY <1>1, <2>1, WholeSum
<1>12. Digested(d, n)
  <2>1. low = (n * 8) % WordMod /\ high = ((n * 8) \div WordMod) % WordMod
    BY <1>6
  <2>2. SubSeq(d, 1, n) = Message(0, n) /\ SubSeq(d, n + 1, n + p) = Fill(p)
        /\ SubSeq(d, (n + p) + 1, Len(d)) = Length(low, high)
    BY <1>9
  <2> HIDE DEF n, body
  <2>3. /\ SubSeq(d, n + 1, body) = Fill(body - n)
        /\ SubSeq(d, body + 1, Len(d)) = Length((n * 8) % WordMod, ((n * 8) \div WordMod) % WordMod)
    BY <1>10, <2>1, <2>2
  <2> QED
    BY <1>10, <1>11, <2>2, <2>3 DEF Digested, body
<1> QED
  BY <1>2, <1>3, <1>12
-----------------------------------------------------------------------------
(* Until the digest is made, what was given and is not in the buffer of      *)
(* md5_stream is in the context; md5_stream leaves nothing in the context's  *)
(* own buffer, since it hands over whole blocks.                             *)
Md5Inv ==
  /\ length \in Nat /\ given \in 0..length /\ sum \in 0..ReadBlock /\ sum <= given
  /\ way = "bytes" => sum = 0
  /\ Len(buffer) \in Nat /\ Len(buffer) <= Block
  /\ digest # "done" =>
       /\ Ready(Now, given - sum)
       /\ way = "stream" => buffer = <<>>
  /\ digest = "done" => Digested(blocks, length)

LEMMA SetCtxIs ==
  ASSUME NEW b, NEW count, NEW done, SetCtx(Ctx(b, count, done))
  PROVE  buffer' = b /\ total' = count /\ blocks' = done /\ Now' = Ctx(b, count, done)
BY DEF SetCtx, Ctx, Now

LEMMA ReadyCtx ==
  ASSUME NEW ctx, NEW x, Ready(ctx, x)
  PROVE  /\ ctx = Ctx(ctx.buffer, ctx.total, ctx.blocks)
         /\ Len(ctx.buffer) \in Nat /\ Len(ctx.buffer) <= Block
BY DEF Ready, ReadyAt, Part

(* A context that is ready is taken over. *)
LEMMA ReadyTaken ==
  ASSUME NEW ctx, NEW x, Ready(ctx, x), SetCtx(ctx)
  PROVE  Ready(Now', x) /\ Len(buffer') \in Nat /\ Len(buffer') <= Block
<1>1. /\ ctx = Ctx(ctx.buffer, ctx.total, ctx.blocks)
      /\ Len(ctx.buffer) \in Nat /\ Len(ctx.buffer) <= Block
  BY ReadyCtx
<1>2. buffer' = ctx.buffer /\ Now' = Ctx(ctx.buffer, ctx.total, ctx.blocks)
  BY DEF SetCtx, Now
<1> QED
  BY <1>1, <1>2

LEMMA FinishTaken ==
  ASSUME NEW ctx, NEW x, Ready(ctx, x), SetCtx(Finish(ctx))
  PROVE  Digested(blocks', x) /\ Len(buffer') \in Nat /\ Len(buffer') <= Block
<1>1. PICK l, b : ReadyAt(ctx, l, b) /\ x = l + b
  BY DEF Ready
<1>2. /\ Digested(Finish(ctx).blocks, x)
      /\ Finish(ctx) = Ctx(ctx.buffer, Finish(ctx).total, Finish(ctx).blocks)
  BY <1>1, FinishRight
<1> DEFINE f == Finish(ctx)
<1>3. blocks' = f.blocks /\ buffer' = f.buffer
  BY DEF SetCtx
<1>4. f.buffer = ctx.buffer
  <2> DEFINE t == f.total
             d == f.blocks
  <2>1. f = Ctx(ctx.buffer, t, d)
    BY <1>2
  <2> HIDE DEF f, t, d
  <2> QED
    BY <2>1 DEF Ctx
<1> QED
  BY <1>2, <1>3, <1>4, ReadyCtx

LEMMA DigestStart == Md5Init => Md5Inv
<1> SUFFICES ASSUME Md5Init PROVE Md5Inv
  OBVIOUS
<1>1. Part(<<>>, 0, 0) /\ 0 % Block = 0
  BY EmptyPart, Md5Assumption
<1>2. InBlocks(<<0, 0>>, <<>>, 0)
  BY <1>1, NothingCounted DEF InBlocks
<1>3. Ready(Ctx(<<>>, <<0, 0>>, <<>>), 0 + 0)
  BY <1>1, <1>2, Md5Assumption, CtxReady
<1>4. Now = Ctx(<<>>, <<0, 0>>, <<>>) /\ given - sum = 0 + 0
  BY DEF Md5Init, Now
<1>5. Ready(Now, given - sum)
  BY <1>3, <1>4
<1> QED
  BY <1>5, Md5Assumption DEF Md5Init, Md5Inv

LEMMA DigestStep == Md5Inv /\ [Md5Next]_md5Vars => Md5Inv'
<1> SUFFICES ASSUME Md5Inv, [Md5Next]_md5Vars PROVE Md5Inv'
  OBVIOUS
<1>0. /\ ReadBlock \in Nat /\ ReadBlock > 0 /\ ReadBlock < WordMod /\ ReadBlock % Block = 0
      /\ WordMod \in Nat /\ Block \in Nat
  BY Md5Assumption
<1>1. CASE Read
  <2>1. PICK n \in 1..(ReadBlock - sum) :
          given + n <= length /\ given' = given + n /\ sum' = sum + n
    BY <1>1 DEF Read
  <2>2. Now' = Now
    BY <1>1 DEF Read, Now
  <2>3. given' - sum' = given - sum
    BY <2>1 DEF Md5Inv
  <2>4. Ready(Now', given' - sum')
    BY <1>1, <2>2, <2>3 DEF Read, Md5Inv
  <2> QED
    BY <1>0, <1>1, <2>1, <2>4 DEF Read, Md5Inv
<1>2. CASE ReadFails
  <2>1. Now' = Now
    BY <1>2 DEF ReadFails, Now
  <2>2. Ready(Now', given' - sum')
    BY <1>2, <2>1 DEF ReadFails, Md5Inv
  <2> QED
    BY <1>2, <2>2 DEF ReadFails, Md5Inv
<1>3. CASE FullBuffer
  <2> DEFINE s == Message(given - sum, given)
             x == given - sum
  <2>1. /\ digest = "open" /\ way = "stream" /\ sum = ReadBlock /\ sum' = 0
        /\ SetCtx(Processed(Now, s))
        /\ length' = length /\ way' = way /\ given' = given /\ digest' = digest
    BY <1>3 DEF FullBuffer
  <2>2. x \in Nat /\ given \in Nat /\ x <= given /\ given - x = ReadBlock
    BY <1>0, <2>1 DEF Md5Inv
  <2>3. Part(s, x, ReadBlock)
    <3> HIDE DEF x
    <3>1. Part(Message(x, given), x, given - x)
      BY <2>2, MessagePart
    <3> QED
      BY <2>2, <3>1 DEF x
  <2>4. PICK l, b : ReadyAt(Now, l, b) /\ x = l + b
    BY <2>1 DEF Md5Inv, Ready
  <2>5. b = 0 /\ x = l /\ l \in Nat /\ InBlocks(total, blocks, l)
    <3>1. Now.buffer = buffer /\ Now.total = total /\ Now.blocks = blocks
      BY DEF Now, Ctx
    <3>2. Part(buffer, l, b) /\ InBlocks(total, blocks, l) /\ buffer = <<>>
      BY <2>1, <2>4, <3>1 DEF ReadyAt, Md5Inv
    <3>3. b = 0 /\ l \in Nat
      BY <3>2 DEF Part
    <3> QED
      BY <2>4, <3>2, <3>3
  <2> DEFINE more == Counted(total, Len(s))
             all  == blocks \o s
  <2> HIDE DEF s, x
  <2>6. InBlocks(more, all, l + ReadBlock)
    BY <1>0, <2>3, <2>5, BlocksMore
  <2>7. Processed(Now, s) = Ctx(buffer, more, all)
    BY ProcessedIs DEF Now
  <2> HIDE DEF more, all
  <2>8. Part(<<>>, l + ReadBlock, 0)
    BY <1>0, <2>5, EmptyPart
  <2>9. buffer = <<>>
    BY <2>1 DEF Md5Inv
  <2>10. Ready(Ctx(buffer, more, all), (l + ReadBlock) + 0)
    BY <1>0, <2>6, <2>8, <2>9, CtxReady
  <2>11. buffer' = buffer /\ Now' = Ctx(buffer, more, all)
    BY <2>1, <2>7, SetCtxIs
  <2>12. (l + ReadBlock) + 0 = given' - sum'
    BY <1>0, <2>1, <2>2, <2>5
  <2>13. Ready(Now', given' - sum')
    BY <2>10, <2>11, <2>12
  <2> QED
    BY <1>0, <2>1, <2>11, <2>13 DEF Md5Inv
<1>4. CASE EndOfFile
  <2> DEFINE s == Message(given - sum, given)
             x == given - sum
             ctx == IF sum > 0 THEN ProcessBytes(Now, s) ELSE Now
  <2>1. /\ digest = "open" /\ way = "stream" /\ given = length /\ sum < ReadBlock
        /\ SetCtx(Finish(ctx)) /\ digest' = "done"
        /\ length' = length /\ way' = way /\ given' = given /\ sum' = sum
    BY <1>4 DEF EndOfFile
  <2>2. x \in Nat /\ given \in Nat /\ sum \in Nat /\ x <= given /\ given - x = sum /\ x + sum = given
    BY <1>0, <2>1 DEF Md5Inv
  <2>3. Ready(Now, x)
    BY <2>1 DEF Md5Inv
  <2>4. Ready(ctx, given)
    <3>1. CASE sum > 0
      <4>1. Part(s, x, sum)
        <5> HIDE DEF x
        <5>1. Part(Message(x, given), x, given - x)
          BY <2>2, MessagePart
        <5> QED
          BY <2>2, <5>1 DEF x
      <4>2. PICK l, b : ReadyAt(Now, l, b) /\ x = l + b
        BY <2>3 DEF Ready
      <4> HIDE DEF s, x
      <4>3. Ready(ProcessBytes(Now, s), (l + b) + sum)
        <5>1. Part(s, l + b, sum) /\ sum < WordMod
          BY <1>0, <2>1, <2>2, <4>1, <4>2
        <5> QED
          BY <4>2, <5>1, ProcessReady
      <4>4. (l + b) + sum = given
        BY <2>2, <4>2
      <4> QED
        BY <3>1, <4>3, <4>4
    <3>2. CASE ~(sum > 0)
      <4>1. x = given
        BY <2>2, <3>2
      <4>2. ctx = Now
        BY <3>2
      <4> HIDE DEF ctx, x
      <4> QED
        BY <2>3, <4>1, <4>2
    <3> QED
      BY <3>1, <3>2
  <2> HIDE DEF ctx
  <2>5. Digested(blocks', given) /\ Len(buffer') \in Nat /\ Len(buffer') <= Block
    BY <2>1, <2>4, FinishTaken
  <2> QED
    BY <2>1, <2>5 DEF Md5Inv
<1>5. CASE GiveBytes
  <2>1. PICK n \in 1..(length - given) :
          /\ n < WordMod
          /\ SetCtx(ProcessBytes(Now, Message(given, given + n)))
          /\ given' = given + n
    BY <1>5 DEF GiveBytes
  <2>2. /\ digest = "open" /\ way = "bytes" /\ length' = length /\ way' = way
        /\ sum' = sum /\ digest' = digest
    BY <1>5 DEF GiveBytes
  <2>3. sum = 0 /\ given \in Nat /\ given - sum = given /\ n \in Nat /\ length \in Nat
    BY <2>1, <2>2 DEF Md5Inv
  <2> DEFINE s == Message(given, given + n)
  <2>4. Part(s, given, n)
    <3> DEFINE y == given + n
    <3>1. y \in Nat /\ given <= y /\ y - given = n
      BY <2>3
    <3> HIDE DEF y
    <3>2. Part(Message(given, y), given, y - given)
      BY <2>3, <3>1, MessagePart
    <3> QED
      BY <3>1, <3>2 DEF y
  <2>5. PICK l, b : ReadyAt(Now, l, b) /\ given = l + b
    BY <2>2, <2>3 DEF Md5Inv, Ready
  <2> HIDE DEF s
  <2>6. Ready(ProcessBytes(Now, s), (l + b) + n)
    BY <2>1, <2>4, <2>5, ProcessReady
  <2>7. SetCtx(ProcessBytes(Now, s))
    BY <2>1 DEF s
  <2>8. Ready(Now', (l + b) + n) /\ Len(buffer') \in Nat /\ Len(buffer') <= Block
    BY <2>6, <2>7, ReadyTaken
  <2>9. (l + b) + n = given' - sum'
    BY <2>1, <2>2, <2>3, <2>5
  <2>10. Ready(Now', given' - sum')
    BY <2>8, <2>9
  <2>11. given' \in 0..length' /\ sum' <= given'
    BY <2>1, <2>2, <2>3
  <2> QED
    BY <1>0, <2>2, <2>3, <2>8, <2>10, <2>11 DEF Md5Inv
<1>6. CASE FinishBytes
  <2>1. /\ digest = "open" /\ way = "bytes" /\ given = length /\ SetCtx(Finish(Now))
        /\ digest' = "done" /\ length' = length /\ way' = way /\ given' = given /\ sum' = sum
    BY <1>6 DEF FinishBytes
  <2>2. sum = 0 /\ given \in Nat /\ given - sum = given
    BY <2>1 DEF Md5Inv
  <2>3. Ready(Now, given)
    BY <2>1, <2>2 DEF Md5Inv
  <2>4. Digested(blocks', given) /\ Len(buffer') \in Nat /\ Len(buffer') <= Block
    BY <2>1, <2>3, FinishTaken
  <2> QED
    BY <2>1, <2>4 DEF Md5Inv
<1>7. CASE UNCHANGED md5Vars
  <2>1. Now' = Now
    BY <1>7 DEF md5Vars, Now
  <2> QED
    BY <1>7, <2>1 DEF md5Vars, Md5Inv
<1> QED
  BY <1>1, <1>2, <1>3, <1>4, <1>5, <1>6, <1>7 DEF Md5Next

LEMMA InvIsRight == Md5Inv => DigestRight
<1> SUFFICES ASSUME Md5Inv PROVE DigestRight
  OBVIOUS
<1>1. DigestOfWholeMessage
  BY DEF Md5Inv, Digested, DigestOfWholeMessage
<1>2. Len(buffer) <= Block /\ Len(buffer) + Padding(Len(buffer)) + LengthField <= 2 * Block
  BY PaddingRight DEF Md5Inv
<1>3. digest = "open" =>
        total[1] + WordMod * total[2] = Len(blocks) % (WordMod * WordMod)
  <2> SUFFICES ASSUME digest = "open"
               PROVE  total[1] + WordMod * total[2] = Len(blocks) % (WordMod * WordMod)
    OBVIOUS
  <2>1. PICK l, b : ReadyAt(Now, l, b)
    BY DEF Md5Inv, Ready
  <2>2. Part(blocks, 0, l) /\ CountIs(total, l)
    BY <2>1 DEF ReadyAt, InBlocks, Now, Ctx
  <2>3. Len(blocks) = l /\ l \in Nat
    BY <2>2 DEF Part
  <2> DEFINE W == WordMod
  <2>4. PICK q \in Nat, high \in 0..W - 1, low \in 0..W - 1 :
          total = <<low, high>> /\ l = (W * ((W * q) + high)) + low
    BY <2>2 DEF CountIs
  <2>5. W \in Nat \ {0}
    BY Words
  <2> HIDE DEF W
  <2> DEFINE m == W * W
             r == low + W * high
  <2>6. m \in Nat \ {0}
    BY <2>5
  <2>7. r \in 0..m - 1
    <3>1. PICK d \in Nat : W = high + 1 + d
      <4>1. W - (high + 1) \in Nat /\ W = high + 1 + (W - (high + 1))
        BY <2>5
      <4> QED
        BY <4>1
    <3> DEFINE a == W * high
               e == W * d
    <3>2. m = a + W + e
      BY <2>5, <3>1
    <3>3. a \in Nat /\ e \in Nat
      BY <2>5, <3>1
    <3> HIDE DEF a, e, m
    <3>4. r = low + a
      BY DEF a
    <3> HIDE DEF r
    <3> QED
      BY <2>5, <3>2, <3>3, <3>4
  <2>8. l = (m * q) + r
    <3>1. W * ((W * q) + high) = (W * (W * q)) + (W * high)
      BY <2>5
    <3>2. W * (W * q) = m * q
      BY <2>5
    <3>3. m * q \in Nat /\ W * high \in Nat
      BY <2>5, <2>6
    <3> QED
      BY <2>4, <2>5, <3>1, <3>2, <3>3
  <2> HIDE DEF m, r
  <2>9. l % m = r
    BY <2>3, <2>6, <2>7, <2>8, RemainderUnique
  <2>10. total[1] + W * total[2] = r
    BY <2>4 DEF r
  <2> QED
    BY <2>3, <2>9, <2>10 DEF m, W
<1> QED
  BY <1>1, <1>2, <1>3 DEF DigestRight, BufferHolds

(* However a file is read and however its bytes are handed over, each byte   *)
(* goes once through md5_process_block, in order, then the filling and the   *)
(* length in bits, and the context's buffer never overflows.                 *)
THEOREM DigestAlwaysRight == Md5Spec => []DigestRight
<1>1. Md5Init => Md5Inv
  BY DigestStart
<1>2. Md5Inv /\ [Md5Next]_md5Vars => Md5Inv'
  BY DigestStep
<1>3. Md5Inv => DigestRight
  BY InvIsRight
<1> QED
  BY <1>1, <1>2, <1>3, PTL DEF Md5Spec
-----------------------------------------------------------------------------

(* The swap of two halves is undone by a second one, and neither it nor     *)
(* writing the field leaves the bytes (adjust_eit_event_endian).            *)
LEMMA ByteFacts ==
  ASSUME NEW b \in Bytes, NEW order, NEW hi \in Nibbles
  PROVE  /\ Adjust(b, order) \in Bytes
         /\ Adjust(Adjust(b, order), order) = b
         /\ WithField(b, hi) \in Bytes
         /\ Field(b) \in Nibbles
         /\ Field(WithField(b, hi)) = hi
         /\ Field(Swapped(Adjust(WithField(b, hi), "L"))) = hi
BY DEF Bytes, Adjust, Swapped, WithField, Field

(* get_v5 always returns a byte, and the field it asked for stands in it.   *)
LEMMA GetV5Type ==
  ASSUME TypeOK, NEW i \in DOMAIN events, NEW order
  PROVE  GetV5(events[i], order) \in Bytes
<1>1. events[i] \in Event
  BY DEF TypeOK
<1>2. events[i].byte10 \in Bytes /\ events[i].hi \in Nibbles /\ data10 \in Bytes
  BY <1>1 DEF TypeOK, Event
<1> QED
  BY <1>2, ByteFacts DEF GetV5

(* What get_v5 leaves behind is typed as what it found.                     *)
LEMMA LeaveByteType ==
  ASSUME TypeOK, next \in DOMAIN events,
         NEW b \in Bytes, NEW order \in {"B", "L"}, LeaveByte(b, order)
  PROVE  /\ events' \in Seq(Event) /\ Len(events') = Len(events)
         /\ data10' \in Bytes
<1>1. CASE events[next].inline
  <2>1. events' = [events EXCEPT ![next] =
                     [events[next] EXCEPT !.byte10 = b, !.order = order]]
    BY <1>1 DEF LeaveByte
  <2>2. [events[next] EXCEPT !.byte10 = b, !.order = order] \in Event
    <3>1. events[next] \in Event
      BY DEF TypeOK
    <3> QED
      BY <3>1 DEF Event
  <2> QED
    BY <1>1, <2>1, <2>2 DEF LeaveByte, TypeOK
<1>2. CASE ~events[next].inline
  BY <1>2 DEF LeaveByte, TypeOK
<1> QED
  BY <1>1, <1>2

(* What get_v5 leaves behind is still the same event.                       *)
LEMMA LeaveByteSame ==
  ASSUME TypeOK, next \in DOMAIN events, NEW b, NEW order, LeaveByte(b, order)
  PROVE  /\ DOMAIN events' = DOMAIN events
         /\ \A i \in DOMAIN events :
              /\ events'[i].hi = events[i].hi /\ events'[i].file = events[i].file
              /\ events'[i].inline = events[i].inline
              /\ i # next \/ ~events[i].inline => events'[i] = events[i]
         /\ events[next].inline =>
              events'[next].byte10 = b /\ events'[next].order = order
<1>1. CASE events[next].inline
  <2>1. \A i \in DOMAIN events : events[i] \in Event
    BY DEF TypeOK
  <2>2. events' = [events EXCEPT ![next] =
                     [events[next] EXCEPT !.byte10 = b, !.order = order]]
    BY <1>1 DEF LeaveByte
  <2> QED
    BY <1>1, <2>1, <2>2 DEF Event
<1>2. CASE ~events[next].inline
  BY <1>2 DEF LeaveByte
<1> QED
  BY <1>1, <1>2

LEMMA InitType == Init => TypeOK
<1> SUFFICES ASSUME Init PROVE TypeOK
  OBVIOUS
<1>1. events \in Seq(Event)
  <2>1. PICK order \in {"B", "L"}, inline \in BOOLEAN, n \in 1..MaxEvents :
          events \in Loaded(order, inline, n)
    BY DEF Init
  <2>2. PICK his \in [1..n -> Nibbles], status \in [1..n -> Nibbles] :
          events = [i \in 1..n |->
                      [hi |-> his[i], file |-> order, inline |-> inline,
                       order |-> order,
                       byte10 |-> IF inline THEN FileByte(order, his[i], status[i])
                                  ELSE <<0, 0>>]]
    BY <2>1 DEF Loaded
  <2>3. \A i \in 1..n : events[i] \in Event
    BY <2>2, LoopAssumption
    DEF Event, FileByte, Adjust, Swapped, Bytes, LoopAssumption
  <2>4. n \in Nat
    BY LoopAssumption DEF LoopAssumption
  <2> QED
    BY <2>2, <2>3, <2>4
<1>2. data10 \in Bytes
  BY LoopAssumption DEF Init, FreshBuffer, Bytes, LoopAssumption
<1>3. plan \in Seq({"v5", "v7", "names", "full"})
  <2> DEFINE Pass == {"v5", "v7", "names", "full"}
  <2>1. PICK out \in OutputPasses, disp \in DisplayPasses, tvmap \in MapPasses :
          plan = out \o disp \o tvmap
    BY DEF Init
  <2>2. <<>> \in Seq(Pass) /\ \A p, q \in Pass : <<p>> \in Seq(Pass) /\ <<p, q>> \in Seq(Pass)
    OBVIOUS
  <2>3. out \in Seq(Pass)
    BY <2>2 DEF OutputPasses
  <2>4. disp \in Seq(Pass) /\ tvmap \in Seq(Pass)
    BY <2>2 DEF DisplayPasses, MapPasses
  <2> QED
    BY <2>1, <2>2, <2>3, <2>4
<1>4. pass \in 1..(Len(plan) + 1) /\ next \in 1..(Len(events) + 1)
  BY <1>1, <1>3 DEF Init
<1>5. seen \in [event : 0..Len(events), hi : Nibbles]
  BY <1>1, LoopAssumption DEF Init, LoopAssumption
<1>6. written \in Seq(Nibbles)
  BY DEF Init
<1> QED
  BY <1>1, <1>2, <1>3, <1>4, <1>5, <1>6 DEF TypeOK

LEMMA StepType == TypeOK /\ [Next]_vars => TypeOK'
<1> SUFFICES ASSUME TypeOK, [Next]_vars PROVE TypeOK'
  OBVIOUS
<1>1. CASE View
  <2> DEFINE e == events[next]
             b == GetV5(e, e.order)
  <2>1. next \in DOMAIN events /\ e \in Event /\ e.order \in {"B", "L"}
    <3>1. next \in DOMAIN events
      BY <1>1 DEF View, InPass
    <3>2. e \in Event
      BY <3>1 DEF TypeOK
    <3> QED
      BY <3>1, <3>2 DEF Event
  <2>2. b \in Bytes /\ Field(Adjust(b, "X")) \in Nibbles
    <3>1. b \in Bytes
      BY <2>1, GetV5Type
    <3> QED
      BY <3>1, ByteFacts, LoopAssumption DEF LoopAssumption
  <2>3. events' \in Seq(Event) /\ Len(events') = Len(events) /\ data10' \in Bytes
    BY <1>1, <2>1, <2>2, LeaveByteType DEF View
  <2>4. seen' \in [event : 0..Len(events'), hi : Nibbles]
    BY <1>1, <2>1, <2>2, <2>3 DEF View, TypeOK
  <2>5. next' \in 1..(Len(events') + 1)
    BY <1>1, <2>1, <2>3 DEF View, TypeOK
  <2> QED
    BY <1>1, <2>3, <2>4, <2>5 DEF View, TypeOK
<1>2. CASE SaveV5
  <2> DEFINE b == GetV5(events[next], "B")
  <2>1. next \in DOMAIN events /\ events[next] \in Event
    BY <1>2 DEF SaveV5, InPass, TypeOK
  <2>2. b \in Bytes /\ Field(b) \in Nibbles
    <3>1. b \in Bytes
      BY <2>1, GetV5Type
    <3> QED
      BY <3>1, ByteFacts, LoopAssumption DEF LoopAssumption
  <2>3. events' \in Seq(Event) /\ Len(events') = Len(events) /\ data10' \in Bytes
    BY <1>2, <2>1, <2>2, LeaveByteType DEF SaveV5
  <2>4. written' \in Seq(Nibbles)
    BY <1>2, <2>2 DEF SaveV5, TypeOK
  <2>5. next' \in 1..(Len(events') + 1)
    BY <1>2, <2>1, <2>3 DEF SaveV5, TypeOK
  <2> QED
    BY <1>2, <2>3, <2>4, <2>5 DEF SaveV5, TypeOK
<1>3. CASE SaveV7
  <2>1. events[next] \in Event
    BY <1>3 DEF SaveV7, InPass, TypeOK
  <2>2. events[next].byte10 \in Bytes /\ events[next].hi \in Nibbles
    BY <2>1 DEF Event
  <2>3. Field(events[next].byte10) \in Nibbles
    BY <2>2 DEF Bytes, Field
  <2>4. written' \in Seq(Nibbles)
    BY <1>3, <2>2, <2>3 DEF SaveV7, TypeOK
  <2> QED
    BY <1>3, <2>4 DEF SaveV7, InPass, TypeOK
<1>4. CASE EndPass
  BY <1>4 DEF EndPass, TypeOK
<1>5. CASE UNCHANGED vars
  BY <1>5 DEF vars, TypeOK
<1> QED
  BY <1>1, <1>2, <1>3, <1>4, <1>5 DEF Next

(* Every variable of LoopLength keeps its type; in particular no pass runs  *)
(* past the last event and every half byte stays one (epg.cpp 296-316).     *)
THEOREM TypeCorrect == Spec => []TypeOK
<1> QED
  BY InitType, StepType, PTL DEF Spec
-----------------------------------------------------------------------------
(* LengthSeen is not inductive: what EITEvent finds depends on the byte     *)
(* order an event has kept and, for a V5 event, on where its stored byte    *)
(* has the nibble.                                                          *)
Kept ==
  \A i \in DOMAIN events :
    /\ ~events[i].inline => events[i].order = events[i].file
    /\ events[i].inline /\ events[i].file = "B" =>
         events[i].order = "B" /\ events[i].byte10[2] = events[i].hi

LengthInv == TypeOK /\ Kept /\ LengthSeen

LEMMA InitLength == Init => LengthInv
<1> SUFFICES ASSUME Init PROVE LengthInv
  OBVIOUS
<1>1. TypeOK
  BY InitType
<1>2. Kept
  <2>1. PICK order \in {"B", "L"}, inline \in BOOLEAN, n \in 1..MaxEvents :
          events \in Loaded(order, inline, n)
    BY DEF Init
  <2>2. PICK his \in [1..n -> Nibbles], status \in [1..n -> Nibbles] :
          events = [i \in 1..n |->
                      [hi |-> his[i], file |-> order, inline |-> inline,
                       order |-> order,
                       byte10 |-> IF inline THEN FileByte(order, his[i], status[i])
                                  ELSE <<0, 0>>]]
    BY <2>1 DEF Loaded
  <2> QED
    BY <2>2 DEF Kept, FileByte, Adjust
<1>3. LengthSeen
  BY DEF Init, LengthSeen
<1> QED
  BY <1>1, <1>2, <1>3 DEF LengthInv

LEMMA StepLength == LengthInv /\ [Next]_vars => LengthInv'
<1> SUFFICES ASSUME LengthInv, [Next]_vars PROVE LengthInv'
  OBVIOUS
<1> USE DEF LengthInv
<1>1. TypeOK'
  BY StepType
<1>2. CASE View
  <2> DEFINE e == events[next]
             b == GetV5(e, e.order)
  <2>1. next \in DOMAIN events /\ LeaveByte(b, e.order)
        /\ seen' = [event |-> next, hi |-> Field(Adjust(b, "X"))]
    BY <1>2 DEF View, InPass
  <2>2. /\ DOMAIN events' = DOMAIN events
        /\ \A i \in DOMAIN events :
             /\ events'[i].hi = events[i].hi /\ events'[i].file = events[i].file
             /\ events'[i].inline = events[i].inline
             /\ i # next \/ ~events[i].inline => events'[i] = events[i]
        /\ e.inline => events'[next].byte10 = b /\ events'[next].order = e.order
    BY <2>1, LeaveByteSame
  <2>3. CASE e.inline /\ e.file = "B"
    <3>1. b = e.byte10 /\ b[2] = e.hi
      BY <2>1, <2>3 DEF Kept, GetV5, Adjust
    <3> QED
      BY <1>1, <2>1, <2>2, <2>3, <3>1
      DEF Kept, LengthSeen, SeenRight, Field, Adjust, Swapped
  <2>4. CASE ~e.inline /\ e.file = "L"
    <3>1. Field(Adjust(b, "X")) = e.hi
      BY <2>1, <2>4 DEF Kept, GetV5, Field, WithField, Adjust, Swapped
    <3> QED
      BY <1>1, <2>1, <2>2, <2>4, <3>1 DEF Kept, LengthSeen, SeenRight
  <2>5. CASE ~(e.inline <=> e.file = "B")
    <3>1. ~(events'[next].inline <=> events'[next].file = "B")
      BY <2>1, <2>2, <2>5
    <3>2. LengthSeen'
      BY <2>1, <3>1 DEF LengthSeen
    <3>3. Kept'
      BY <2>1, <2>2, <2>5 DEF Kept
    <3> QED
      BY <1>1, <3>2, <3>3
  <2>6. e.inline \in BOOLEAN /\ e.file \in {"B", "L"}
    <3>1. e \in Event
      BY <2>1 DEF TypeOK
    <3> QED
      BY <3>1 DEF Event
  <2> QED
    BY <2>3, <2>4, <2>5, <2>6
<1>3. CASE SaveV5
  <2> DEFINE b == GetV5(events[next], "B")
  <2>1. next \in DOMAIN events /\ LeaveByte(b, "B") /\ seen' = seen
    BY <1>3 DEF SaveV5, InPass
  <2>2. /\ DOMAIN events' = DOMAIN events
        /\ \A i \in DOMAIN events :
             /\ events'[i].hi = events[i].hi /\ events'[i].file = events[i].file
             /\ events'[i].inline = events[i].inline
             /\ i # next \/ ~events[i].inline => events'[i] = events[i]
        /\ events[next].inline =>
             events'[next].byte10 = b /\ events'[next].order = "B"
    BY <2>1, LeaveByteSame
  <2>3. Kept'
    BY <2>1, <2>2 DEF Kept, GetV5, Adjust
  <2>4. LengthSeen'
    BY <2>1, <2>2 DEF LengthSeen, SeenRight, TypeOK
  <2> QED
    BY <1>1, <2>3, <2>4
<1>4. CASE SaveV7
  BY <1>1, <1>4 DEF SaveV7, Kept, LengthSeen, SeenRight
<1>5. CASE EndPass
  BY <1>1, <1>5 DEF EndPass, Kept, LengthSeen, SeenRight
<1>6. CASE UNCHANGED vars
  BY <1>1, <1>6 DEF vars, Kept, LengthSeen, SeenRight
<1> QED
  BY <1>2, <1>3, <1>4, <1>5, <1>6 DEF Next

(* Whatever passes main makes and whatever get_v7 leaves in the shared      *)
(* buffer, EITEvent finds the true length of big-endian V5 events and of    *)
(* little-endian V7 events (dvb.cpp 189-245, 708-709).                      *)
THEOREM LengthAlwaysSeen == Spec => []LengthSeen
<1>1. LengthInv => LengthSeen
  BY DEF LengthInv
<1> QED
  BY InitLength, StepLength, <1>1, PTL DEF Spec
-----------------------------------------------------------------------------
(* While every event is short and nothing is saved in V7, the shared buffer *)
(* keeps a byte of two zero halves.                                         *)
ShortInv ==
  /\ TypeOK
  /\ ShortEvents /\ NothingSavedInV7 => data10 = <<0, 0>>
  /\ ShortLengthSeen

LEMMA InitShort == Init => ShortInv
BY InitType, SMTT(30) DEF Init, FreshBuffer, ShortInv, ShortLengthSeen, SeenRight

LEMMA StepShort == ShortInv /\ [Next]_vars => ShortInv'
<1> SUFFICES ASSUME ShortInv, [Next]_vars, ShortEvents', NothingSavedInV7'
             PROVE  data10' = <<0, 0>> /\ SeenRight'
  BY StepType DEF ShortInv, ShortLengthSeen
<1> USE DEF ShortInv
<1>1. CASE View
  <2> DEFINE e == events[next]
             b == GetV5(e, e.order)
  <2>1. next \in DOMAIN events /\ LeaveByte(b, e.order) /\ plan' = plan
        /\ seen' = [event |-> next, hi |-> Field(Adjust(b, "X"))]
    BY <1>1 DEF View, InPass
  <2>2. /\ DOMAIN events' = DOMAIN events
        /\ \A i \in DOMAIN events : events'[i].hi = events[i].hi
                                  /\ events'[i].inline = events[i].inline
    BY <2>1, LeaveByteSame
  <2>3. ShortEvents /\ NothingSavedInV7
    BY <2>1, <2>2 DEF ShortEvents, NothingSavedInV7
  <2>4. b = <<0, 0>>
    BY <2>1, <2>3 DEF ShortEvents, GetV5, WithField, Adjust, Swapped
  <2>5. data10' = <<0, 0>>
    BY <2>1, <2>3, <2>4 DEF ShortEvents, LeaveByte
  <2> QED
    BY <2>1, <2>2, <2>3, <2>4, <2>5
    DEF ShortEvents, SeenRight, Field, Adjust, Swapped
<1>2. CASE SaveV5
  <2> DEFINE b == GetV5(events[next], "B")
  <2>1. next \in DOMAIN events /\ LeaveByte(b, "B") /\ plan' = plan /\ seen' = seen
    BY <1>2 DEF SaveV5, InPass
  <2>2. /\ DOMAIN events' = DOMAIN events
        /\ \A i \in DOMAIN events : events'[i].hi = events[i].hi
                                  /\ events'[i].inline = events[i].inline
    BY <2>1, LeaveByteSame
  <2>3. ShortEvents /\ NothingSavedInV7
    BY <2>1, <2>2 DEF ShortEvents, NothingSavedInV7
  <2>4. data10' = <<0, 0>>
    BY <2>1, <2>3 DEF ShortEvents, LeaveByte, GetV5, WithField, Adjust
  <2>5. seen.event # 0 => seen.event \in DOMAIN events
    BY DEF TypeOK
  <2> QED
    BY <2>1, <2>2, <2>3, <2>4, <2>5 DEF SeenRight, ShortLengthSeen
<1>3. CASE SaveV7
  BY <1>3 DEF SaveV7, InPass, NothingSavedInV7
<1>4. CASE EndPass
  BY <1>4 DEF EndPass, ShortEvents, NothingSavedInV7, SeenRight, ShortLengthSeen
<1>5. CASE UNCHANGED vars
  BY <1>5 DEF vars, ShortEvents, NothingSavedInV7, SeenRight, ShortLengthSeen
<1> QED
  BY <1>1, <1>2, <1>3, <1>4, <1>5 DEF Next

(* Without a V7 file to save, events of less than 256 descriptor bytes are  *)
(* looked at in their true length whatever the source's byte order          *)
(* (dvb.cpp 204, 230-239).                                                  *)
THEOREM ShortLengthAlwaysSeen == Spec => []ShortLengthSeen
<1>1. ShortInv => ShortLengthSeen
  BY DEF ShortInv
<1> QED
  BY InitShort, StepShort, <1>1, PTL DEF Spec
-----------------------------------------------------------------------------
(* Records are only written in the first pass, each for the next event, and *)
(* until then a little-endian V5 event has its nibble where saveepg and     *)
(* get_v7 read it.                                                          *)
Saves == {"v5", "v7"}

Unsaved ==
  pass = 1 /\ plan # <<>> /\ plan[1] \in Saves =>
    /\ next = Len(written) + 1
    /\ \A i \in DOMAIN events :
         i >= next /\ events[i].inline /\ events[i].file = "L"
         => Field(events[i].byte10) = events[i].hi

TakenInv ==
  /\ TypeOK
  /\ \A i \in DOMAIN plan : plan[i] \in Saves => i = 1
  /\ Len(written) <= Len(events)
  /\ Unsaved
  /\ LengthTaken

LEMMA InitTaken == Init => TakenInv
<1> SUFFICES ASSUME Init PROVE TakenInv
  OBVIOUS
<1>1. TypeOK
  BY InitType
<1>2. \A i \in DOMAIN plan : plan[i] \in Saves => i = 1
  <2> DEFINE Pass == {"v5", "v7", "names", "full"}
  <2>1. PICK out \in OutputPasses, disp \in DisplayPasses, tvmap \in MapPasses :
          plan = out \o disp \o tvmap
    BY DEF Init
  <2>2. <<>> \in Seq(Pass) /\ \A p, q \in Pass : <<p>> \in Seq(Pass) /\ <<p, q>> \in Seq(Pass)
    OBVIOUS
  <2>3. out \in Seq(Pass) /\ \A i \in DOMAIN out : out[i] \in Saves => i = 1
    <3>1. out \in Seq(Pass)
      BY <2>2 DEF OutputPasses
    <3>2. \A i \in DOMAIN out : out[i] \in Saves => i = 1
      BY DEF OutputPasses, Saves
    <3> QED
      BY <3>1, <3>2
  <2>4. disp \in Seq(Pass) /\ \A i \in DOMAIN disp : disp[i] \notin Saves
    <3>1. disp \in Seq(Pass)
      BY <2>2 DEF DisplayPasses
    <3>2. \A i \in DOMAIN disp : disp[i] \notin Saves
      BY DEF DisplayPasses, Saves
    <3> QED
      BY <3>1, <3>2
  <2>5. tvmap \in Seq(Pass) /\ \A i \in DOMAIN tvmap : tvmap[i] \notin Saves
    <3>1. tvmap \in Seq(Pass)
      BY <2>2 DEF MapPasses
    <3>2. \A i \in DOMAIN tvmap : tvmap[i] \notin Saves
      BY DEF MapPasses, Saves
    <3> QED
      BY <3>1, <3>2
  <2> QED
    BY <2>1, <2>3, <2>4, <2>5
<1>3. Unsaved
  <2>1. PICK order \in {"B", "L"}, inline \in BOOLEAN, n \in 1..MaxEvents :
          events \in Loaded(order, inline, n)
    BY DEF Init
  <2>2. PICK his \in [1..n -> Nibbles], status \in [1..n -> Nibbles] :
          events = [i \in 1..n |->
                      [hi |-> his[i], file |-> order, inline |-> inline,
                       order |-> order,
                       byte10 |-> IF inline THEN FileByte(order, his[i], status[i])
                                  ELSE <<0, 0>>]]
    BY <2>1 DEF Loaded
  <2>3. \A i \in DOMAIN events :
          events[i].inline /\ events[i].file = "L"
          => Field(events[i].byte10) = events[i].hi
    BY <2>2 DEF FileByte, Adjust, Swapped, Field
  <2> QED
    BY <2>3 DEF Init, Unsaved
<1>4. Len(written) <= Len(events) /\ LengthTaken
  BY <1>1 DEF Init, TypeOK, LengthTaken
<1> QED
  BY <1>1, <1>2, <1>3, <1>4 DEF TakenInv

(* A record more, in the true length unless the source is big-endian V5. *)
LEMMA WriteKeeps ==
  ASSUME TakenInv, TypeOK', next \in DOMAIN events, pass \in DOMAIN plan, plan[pass] \in Saves,
         UNCHANGED <<plan, pass>>, next' = next + 1,
         NEW x, written' = Append(written, x),
         ~(events[next].inline /\ events[next].file = "B") => x = events[next].hi,
         DOMAIN events' = DOMAIN events,
         \A i \in DOMAIN events :
           /\ events'[i].hi = events[i].hi /\ events'[i].file = events[i].file
           /\ events'[i].inline = events[i].inline
           /\ i # next => events'[i] = events[i]
  PROVE  TakenInv'
<1> USE DEF TakenInv
<1>1. Len(events') = Len(events)
  BY DEF TypeOK
<1>2. pass = 1 /\ next = Len(written) + 1
  BY DEF Unsaved, TypeOK
<1>3. /\ Len(written') = next
      /\ \A i \in 1..(next - 1) : i \in DOMAIN written /\ written'[i] = written[i]
      /\ written'[next] = x
  BY <1>2 DEF TypeOK
<1>4. LengthTaken'
  <2> SUFFICES ASSUME NEW i \in DOMAIN written',
                      ~(events'[i].inline /\ events'[i].file = "B")
               PROVE  written'[i] = events'[i].hi
    BY DEF LengthTaken
  <2>1. i \in 1..next
    BY <1>3 DEF TypeOK
  <2>2. i \in DOMAIN events
    BY <2>1 DEF TypeOK
  <2>3. CASE i = next
    BY <1>3, <2>2, <2>3
  <2>4. CASE i # next
    <3>1. i \in DOMAIN written /\ written'[i] = written[i]
      <4>1. next \in Int
        BY DEF TypeOK
      <4>2. i \in 1..(next - 1)
        <5> HIDE DEF TakenInv
        <5> QED
          BY <2>1, <2>4, <4>1
      <4> QED
        BY <1>3, <4>2
    <3> QED
      BY <2>2, <3>1 DEF LengthTaken
  <2> QED
    BY <2>3, <2>4
<1>5. Unsaved'
  <2> SUFFICES ASSUME NEW i \in DOMAIN events', i >= next', events'[i].inline,
                      events'[i].file = "L"
               PROVE  Field(events'[i].byte10) = events'[i].hi
    BY <1>3 DEF Unsaved
  <2>1. i \in DOMAIN events /\ i # next /\ i >= next
    <3>1. next \in Int /\ DOMAIN events = 1..Len(events) /\ Len(events) \in Nat
      BY DEF TypeOK
    <3> HIDE DEF TakenInv
    <3> QED
      BY <3>1
  <2> QED
    BY <1>2, <2>1 DEF Unsaved, TypeOK
<1>6. Len(written') <= Len(events')
  BY <1>1, <1>3 DEF TypeOK
<1> QED
  BY <1>4, <1>5, <1>6

LEMMA StepTaken == TakenInv /\ [Next]_vars => TakenInv'
<1> SUFFICES ASSUME TakenInv, [Next]_vars PROVE TakenInv'
  OBVIOUS
<1> USE DEF TakenInv
<1>1. TypeOK'
  BY StepType
<1>2. CASE View
  <2> DEFINE b == GetV5(events[next], events[next].order)
  <2>1. /\ next \in DOMAIN events /\ LeaveByte(b, events[next].order)
        /\ pass \in DOMAIN plan /\ plan[pass] \in {"names", "full"}
        /\ UNCHANGED <<plan, pass, written>>
    BY <1>2 DEF View, InPass
  <2>2. /\ DOMAIN events' = DOMAIN events
        /\ \A i \in DOMAIN events :
             /\ events'[i].hi = events[i].hi /\ events'[i].file = events[i].file
             /\ events'[i].inline = events[i].inline
    BY <2>1, LeaveByteSame
  <2>3. Len(events') = Len(events)
    BY <2>2, <1>1 DEF TypeOK
  <2>4. Unsaved'
    BY <2>1 DEF Unsaved, Saves
  <2>5. \A i \in DOMAIN written : i \in DOMAIN events
    BY DEF TypeOK
  <2>6. LengthTaken'
    BY <2>1, <2>2, <2>5 DEF LengthTaken
  <2> QED
    BY <1>1, <2>1, <2>3, <2>4, <2>6
<1>3. CASE SaveV5
  <2> DEFINE e == events[next]
             b == GetV5(e, "B")
  <2>1. /\ next \in DOMAIN events /\ LeaveByte(b, "B") /\ plan[pass] \in Saves
        /\ written' = Append(written, Field(b)) /\ next' = next + 1
        /\ pass \in DOMAIN plan /\ UNCHANGED <<plan, pass>>
    BY <1>3 DEF SaveV5, InPass, Saves
  <2>2. /\ DOMAIN events' = DOMAIN events
        /\ \A i \in DOMAIN events :
             /\ events'[i].hi = events[i].hi /\ events'[i].file = events[i].file
             /\ events'[i].inline = events[i].inline
             /\ i # next => events'[i] = events[i]
    BY <2>1, LeaveByteSame
  <2>3. ~(e.inline /\ e.file = "B") => Field(b) = e.hi
    <3>1. e.file \in {"B", "L"}
      <4>1. e \in Event
        BY <2>1 DEF TypeOK
      <4> QED
        BY <4>1 DEF Event
    <3>2. CASE e.inline /\ e.file = "L"
      BY <2>1, <3>2 DEF Unsaved, GetV5, Adjust, TypeOK
    <3>3. CASE ~e.inline
      BY <3>3 DEF GetV5, Adjust, Field, WithField
    <3> QED
      BY <3>1, <3>2, <3>3
  <2> HIDE DEF b
  <2> QED
    BY <1>1, <2>1, <2>2, <2>3, WriteKeeps
<1>4. CASE SaveV7
  <2> DEFINE e == events[next]
             x == IF e.inline THEN Field(e.byte10) ELSE e.hi
  <2>1. /\ next \in DOMAIN events /\ plan[pass] \in Saves /\ written' = Append(written, x)
        /\ next' = next + 1 /\ pass \in DOMAIN plan /\ UNCHANGED <<events, plan, pass>>
    BY <1>4 DEF SaveV7, InPass, Saves
  <2>2. e.file \in {"B", "L"}
    <3>1. e \in Event
      BY <2>1 DEF TypeOK
    <3> QED
      BY <3>1 DEF Event
  <2>3. ~(e.inline /\ e.file = "B") => x = e.hi
    <3>1. CASE e.inline /\ e.file = "L"
      <4>1. pass = 1 /\ plan # <<>> /\ plan[1] \in Saves
        BY <2>1 DEF TypeOK
      <4>2. Field(e.byte10) = e.hi
        BY <2>1, <3>1, <4>1 DEF Unsaved, TypeOK
      <4> QED
        BY <3>1, <4>2
    <3>2. CASE ~e.inline
      BY <3>2
    <3> QED
      BY <2>2, <3>1, <3>2
  <2> HIDE DEF x
  <2> QED
    BY <1>1, <2>1, <2>3, WriteKeeps
<1>5. CASE EndPass
  <2>1. UNCHANGED <<events, plan, written>> /\ pass' # 1
    BY <1>5 DEF EndPass, TypeOK
  <2> QED
    BY <1>1, <2>1 DEF Unsaved, Saves, LengthTaken
<1>6. CASE UNCHANGED vars
  BY <1>1, <1>6 DEF vars, Unsaved, LengthTaken
<1> QED
  BY <1>2, <1>3, <1>4, <1>5, <1>6 DEF Next

(* Every record is written by the true length of its event unless the       *)
(* source is a big-endian V5 file (epg.cpp 299-316, dvb.cpp 189-302).       *)
THEOREM LengthAlwaysTaken == Spec => []LengthTaken
<1>1. TakenInv => LengthTaken
  BY DEF TakenInv
<1> QED
  BY InitTaken, StepTaken, <1>1, PTL DEF Spec
-----------------------------------------------------------------------------

(* The days before a month that the formula counts, months of January and   *)
(* February being those of the year before.                                 *)
Before(m) ==
  CASE m = 1 -> 428 [] m = 2 -> 459 [] m = 3 -> 122 [] m = 4 -> 153 [] m = 5 -> 183
    [] m = 6 -> 214 [] m = 7 -> 244 [] m = 8 -> 275 [] m = 9 -> 306 [] m = 10 -> 336
    [] m = 11 -> 367 [] m = 12 -> 397

Early(m) == IF m \in {1, 2} THEN 1 ELSE 0

LEMMA MonthsCounted ==
  \A m \in 1..12 :
    /\ Before(m) \in Nat /\ Before(m) >= 122 /\ Before(m) <= 459
    /\ (m # 2 => Before(m) <= 428)
    /\ Quot((m + 1 + 12 * Early(m)) * 306001, 10000) = Before(m)
<1> TAKE m \in 1..12
<1>1. m \in {1, 2, 3, 4, 5, 6, 7, 8, 9, 10, 11, 12}
  OBVIOUS
<1>2. CASE m = 1
  BY <1>2, SMT DEF Before, Early, Quot
<1>3. CASE m = 2
  BY <1>3, SMT DEF Before, Early, Quot
<1>4. CASE m = 3
  BY <1>4, SMT DEF Before, Early, Quot
<1>5. CASE m = 4
  BY <1>5, SMT DEF Before, Early, Quot
<1>6. CASE m = 5
  BY <1>6, SMT DEF Before, Early, Quot
<1>7. CASE m = 6
  BY <1>7, SMT DEF Before, Early, Quot
<1>8. CASE m = 7
  BY <1>8, SMT DEF Before, Early, Quot
<1>9. CASE m = 8
  BY <1>9, SMT DEF Before, Early, Quot
<1>10. CASE m = 9
  BY <1>10, SMT DEF Before, Early, Quot
<1>11. CASE m = 10
  BY <1>11, SMT DEF Before, Early, Quot
<1>12. CASE m = 11
  BY <1>12, SMT DEF Before, Early, Quot
<1>13. CASE m = 12
  BY <1>13, SMT DEF Before, Early, Quot
<1> QED
  BY <1>1, <1>2, <1>3, <1>4, <1>5, <1>6, <1>7, <1>8, <1>9, <1>10, <1>11, <1>12, <1>13

(* A date of the calendar, from 1970 on.                                    *)
IsDate(d) ==
  /\ d = [year |-> d.year, mon |-> d.mon, mday |-> d.mday]
  /\ d.year \in Nat /\ d.year >= 1970 /\ d.mon \in 1..12
  /\ d.mday \in Nat /\ d.mday >= 1 /\ d.mday <= DaysOf(d.year, d.mon)

Years(y) == (y * 1461) \div 4

LEMMA YearsAre ==
  ASSUME NEW y \in Nat
  PROVE  Years(y) \in Nat /\ Quot(y * 1461, 4) = Years(y)
         /\ 4 * Years(y) <= 1461 * y /\ 1461 * y <= 4 * Years(y) + 3
         /\ (y % 4 = 3 => 1461 * y = 4 * Years(y) + 3)
BY SMTT(30) DEF Years, Quot

LEMMA YearsLong == \A y \in Nat : Years(y) \in Nat /\ 1461 * y <= 4 * Years(y) + 3
BY SMT DEF Years

LEMMA YearAfter ==
  \A y \in Nat : Years(y) \in Nat
                 /\ Years(y + 1) = Years(y) + (IF (y + 1) % 4 = 0 THEN 366 ELSE 365)
BY SMT DEF Years

LEMMA MjdIs ==
  ASSUME NEW d, IsDate(d)
  PROVE  Mjd(d) = 14956 + d.mday + Years(d.year - 1900 - Early(d.mon)) + Before(d.mon)
<1> DEFINE y == d.year - 1900 - Early(d.mon)
<1>1. y \in Nat
  BY SMT DEF Early, IsDate
<1>2. Quot(y * 1461, 4) = Years(y)
  BY <1>1, YearsAre
<1>3. Quot((d.mon + 1 + 12 * Early(d.mon)) * 306001, 10000) = Before(d.mon)
  BY MonthsCounted DEF IsDate
<1>4. Mjd(d) = 14956 + d.mday + Quot(y * 1461, 4)
                 + Quot((d.mon + 1 + 12 * Early(d.mon)) * 306001, 10000)
  BY DEF Mjd, Early
<1> QED
  BY <1>2, <1>3, <1>4

LEMMA LeapsAre ==
  ASSUME NEW y \in Nat, Leap(y)
  PROVE  y % 4 = 0
BY DEF Leap

LEMMA LeapsUntil2100 ==
  ASSUME NEW y \in Nat, y >= 1970, y < 2100
  PROVE  Leap(y) <=> y % 4 = 0
BY SMT DEF Leap

LEMMA DaysOfAre ==
  ASSUME NEW y \in Nat, NEW m \in 1..12
  PROVE  /\ DaysOf(y, m) \in 28..31
         /\ m = 2 => DaysOf(y, m) = IF Leap(y) THEN 29 ELSE 28
         /\ m \in {1, 3, 5, 7, 8, 10, 12} => DaysOf(y, m) = 31
         /\ m \in {4, 6, 9, 11} => DaysOf(y, m) = 30
BY DEF DaysOf

(* The year is found again from any of its days, February's 29th included.  *)
LEMMA YearFound ==
  ASSUME NEW y \in Nat, NEW t \in Nat, t >= 123, t <= 488, t = 488 => y % 4 = 3
  PROVE  Quot(100 * (14956 + t + Years(y)) - 1507820, 36525) = y
<1> DEFINE q == Years(y)
           r == 100 * t - 12220 - 25 * (1461 * y - 4 * q)
           a == 100 * (14956 + t + q) - 1507820
<1>1. /\ q \in Nat /\ 4 * q <= 1461 * y /\ 1461 * y <= 4 * q + 3
      /\ (y % 4 = 3 => 1461 * y = 4 * q + 3)
  BY YearsAre, SMTT(30)
<1> HIDE DEF q
<1>2. r \in Int /\ r >= 0 /\ r < 36525
  BY <1>1, SMT
<1>3. a = 36525 * y + r
  BY <1>1, SMT
<1>4. a >= 0 /\ a \in Nat
  BY <1>1, <1>2, <1>3, SMT
<1> HIDE DEF r, a
<1>5. a \div 36525 = y
  BY <1>2, <1>3, <1>4, SMT
<1> QED
  BY <1>4, <1>5, SMT DEF Quot, a, q

LEMMA MonthFound ==
  \A m \in 1..12 : \A day \in 1..31 : 
    (m = 2 => day <= 29) /\ (m \in {4, 6, 9, 11} => day <= 30) =>
      Quot((day + Before(m)) * 10000 - 1000, 306001) = m + 1 + 12 * Early(m)
<1> SUFFICES ASSUME NEW m \in 1..12, NEW day \in 1..31, m = 2 => day <= 29,
                    m \in {4, 6, 9, 11} => day <= 30
             PROVE  Quot((day + Before(m)) * 10000 - 1000, 306001) = m + 1 + 12 * Early(m)
  OBVIOUS
<1>0. day \in Nat /\ day >= 1 /\ day <= 31
  OBVIOUS
<1>1. m \in {1, 2, 3, 4, 5, 6, 7, 8, 9, 10, 11, 12}
  OBVIOUS
<1>2. CASE m = 1
  BY <1>0, <1>2, SMT DEF Before, Early, Quot
<1>3. CASE m = 2
  BY <1>0, <1>3, SMT DEF Before, Early, Quot
<1>4. CASE m = 3
  BY <1>0, <1>4, SMT DEF Before, Early, Quot
<1>5. CASE m = 4
  BY <1>0, <1>5, SMT DEF Before, Early, Quot
<1>6. CASE m = 5
  BY <1>0, <1>6, SMT DEF Before, Early, Quot
<1>7. CASE m = 6
  BY <1>0, <1>7, SMT DEF Before, Early, Quot
<1>8. CASE m = 7
  BY <1>0, <1>8, SMT DEF Before, Early, Quot
<1>9. CASE m = 8
  BY <1>0, <1>9, SMT DEF Before, Early, Quot
<1>10. CASE m = 9
  BY <1>0, <1>10, SMT DEF Before, Early, Quot
<1>11. CASE m = 10
  BY <1>0, <1>11, SMT DEF Before, Early, Quot
<1>12. CASE m = 11
  BY <1>0, <1>12, SMT DEF Before, Early, Quot
<1>13. CASE m = 12
  BY <1>0, <1>13, SMT DEF Before, Early, Quot
<1> QED
  BY <1>1, <1>2, <1>3, <1>4, <1>5, <1>6, <1>7, <1>8, <1>9, <1>10, <1>11, <1>12, <1>13

LEMMA DateReadBack ==
  ASSUME NEW d, IsDate(d)
  PROVE  DateOf(Mjd(d)) = d
<1> DEFINE m == d.mon
           day == d.mday
           e == Early(m)
           y == d.year - 1900 - e
           b == Before(m)
           c == m + 1 + 12 * e
           j == Mjd(d)
<1>1. /\ m \in 1..12 /\ day \in 1..31 /\ (m = 2 => day <= 29) /\ d.year \in Nat /\ d.year >= 1970
      /\ (m = 2 /\ day = 29 => d.year % 4 = 0)
      /\ (m \in {4, 6, 9, 11} => day <= 30)
  <2>1. /\ m \in 1..12 /\ d.year \in Nat /\ day \in Nat /\ day >= 1 /\ day <= DaysOf(d.year, m)
        /\ d.year >= 1970
    BY DEF IsDate
  <2> DEFINE n == DaysOf(d.year, m)
  <2>2. n \in 28..31 /\ (m = 2 => n = IF Leap(d.year) THEN 29 ELSE 28)
          /\ (m \in {4, 6, 9, 11} => n = 30)
    BY <2>1, DaysOfAre
  <2>3. Leap(d.year) => d.year % 4 = 0
    BY <2>1, LeapsAre
  <2> HIDE DEF n, m, day
  <2> QED
    BY <2>1, <2>2, <2>3 DEF n
<1>2. /\ b \in Nat /\ b >= 122 /\ b <= 459 /\ (m # 2 => b <= 428)
      /\ Quot(c * 306001, 10000) = b
  BY <1>1, MonthsCounted
<1>3. e \in {0, 1} /\ (m = 2 => e = 1) /\ (e = 1 <=> m \in {1, 2})
  BY <1>1 DEF Early
<1>4. j = 14956 + day + Years(y) + b
  BY MjdIs
<1>5. Quot((day + b) * 10000 - 1000, 306001) = c
  BY <1>1, MonthFound
<1>6. DateOf(j) =
        LET Y == Quot(100 * j - 1507820, 36525)
            left == j - Quot(Y * 1461, 4)
            M == Quot(left * 10000 - 149561000, 306001)
            k == IF M \in {14, 15} THEN 1 ELSE 0
        IN [year |-> Y + k + 1900, mon |-> M - 1 - k * 12,
            mday |-> left - 14956 - Quot(M * 306001, 10000)]
  BY DEF DateOf
<1>7. d = [year |-> d.year, mon |-> m, mday |-> day]
  BY DEF IsDate
<1> HIDE DEF j, b, c, m, day
<1>8. y \in Nat /\ (m = 2 /\ day = 29 => y % 4 = 3)
  <2> DEFINE yr == d.year
  <2>1. yr \in Nat /\ yr >= 1970 /\ e \in {0, 1} /\ (m = 2 /\ day = 29 => yr % 4 = 0 /\ e = 1)
    BY <1>1, <1>3
  <2> HIDE DEF yr, e
  <2>2. yr - 1900 - e \in Nat /\ (m = 2 /\ day = 29 => (yr - 1900 - e) % 4 = 3)
    BY <2>1
  <2> QED
    BY <2>2 DEF yr
<1>16. Quot(y * 1461, 4) = Years(y) /\ Years(y) \in Nat
  <2>1. y \in Nat
    BY <1>8
  <2> HIDE DEF y
  <2> QED
    BY <2>1, YearsAre
<1>9. Quot(100 * j - 1507820, 36525) = y
  <2> DEFINE t == day + b
  <2>1. t \in Nat /\ t >= 123 /\ t <= 488 /\ (t = 488 => m = 2 /\ day = 29)
    BY <1>1, <1>2
  <2>2. j = 14956 + t + Years(y)
    <3>1. Years(y) \in Nat /\ day \in Int /\ b \in Int
      BY <1>1, <1>2, <1>16
    <3> QED
      BY <1>4, <3>1
  <2> HIDE DEF t, y
  <2>3. Quot(100 * (14956 + t + Years(y)) - 1507820, 36525) = y
    BY <1>8, <2>1, YearFound
  <2> QED
    BY <2>2, <2>3
<1>10. j - Quot(y * 1461, 4) = 14956 + day + b
  <2> HIDE DEF y
  <2>1. Quot(y * 1461, 4) = Years(y) /\ Years(y) \in Nat
    BY <1>16
  <2> QED
    BY <1>1, <1>2, <1>4, <2>1
<1>11. Quot((14956 + day + b) * 10000 - 149561000, 306001) = c
  <2>1. (14956 + day + b) * 10000 - 149561000 = (day + b) * 10000 - 1000
    BY <1>1, <1>2, SMT
  <2> QED
    BY <1>5, <2>1
<1>12. /\ c \in {14, 15} <=> e = 1
       /\ e = 1 => c - 1 - 12 = m /\ y + 1 + 1900 = d.year
       /\ e = 0 => c - 1 = m /\ y + 1900 = d.year
  <2> DEFINE yr == d.year
  <2>1. yr \in Nat
    BY <1>1
  <2> HIDE DEF yr, e
  <2>2. (e = 1 => (yr - 1900 - e) + 1 + 1900 = yr) /\ (e = 0 => (yr - 1900 - e) + 1900 = yr)
    BY <1>3, <2>1
  <2>3. c = m + 1 + 12 * e
    BY DEF c, e
  <2>4. c \in {14, 15} <=> e = 1
    BY <1>1, <1>3, <2>3
  <2>5. (e = 1 => c - 1 - 12 = m) /\ (e = 0 => c - 1 = m)
    BY <1>1, <2>3
  <2> QED
    BY <2>2, <2>4, <2>5 DEF yr
<1>13. (14956 + day + b) - 14956 - b = day
  BY <1>1, <1>2
<1> DEFINE k == IF c \in {14, 15} THEN 1 ELSE 0
<1>14. DateOf(j) = [year |-> y + k + 1900, mon |-> c - 1 - k * 12,
                    mday |-> (14956 + day + b) - 14956 - b]
  <2> HIDE DEF y, k
  <2> QED
    BY <1>2, <1>6, <1>9, <1>10, <1>11 DEF k
<1>15. y + k + 1900 = d.year /\ c - 1 - k * 12 = m
  <2>1. y \in Int /\ c \in Int
    BY <1>1, <1>3, <1>8 DEF c
  <2> HIDE DEF y, e
  <2>2. e = 1 => y + k + 1900 = d.year /\ c - 1 - k * 12 = m
    BY <1>12, <2>1
  <2>3. e = 0 => y + k + 1900 = d.year /\ c - 1 - k * 12 = m
    BY <1>12, <2>1
  <2> QED
    BY <1>3, <2>2, <2>3
<1> QED
  BY <1>7, <1>13, <1>14, <1>15 DEF j

LEMMA NextDayIsDate ==
  ASSUME NEW d, IsDate(d)
  PROVE  IsDate(DayAfter(d))
<1> DEFINE D == DayAfter(d)
<1>1. /\ d = [year |-> d.year, mon |-> d.mon, mday |-> d.mday]
      /\ d.year \in Nat /\ d.year >= 1970 /\ d.mon \in 1..12
      /\ d.mday \in Nat /\ d.mday >= 1 /\ d.mday <= DaysOf(d.year, d.mon)
  BY DEF IsDate
<1>2. CASE d.mday < DaysOf(d.year, d.mon)
  <2>1. D = [year |-> d.year, mon |-> d.mon, mday |-> d.mday + 1]
    <3>1. D = [d EXCEPT !.mday = @ + 1]
      BY <1>2, Zenon DEF DayAfter
    <3> HIDE DEF D
    <3>2. d = [year |-> d.year, mon |-> d.mon, mday |-> d.mday]
      BY <1>1
    <3> QED
      BY <3>1, <3>2
  <2> DEFINE n == DaysOf(d.year, d.mon)
  <2>2. n \in Nat /\ d.mday < n /\ d.mday \in Nat
    BY <1>1, <1>2, DaysOfAre
  <2> HIDE DEF n
  <2>3. d.mday + 1 <= n /\ d.mday + 1 \in Nat /\ d.mday + 1 >= 1
    BY <2>2
  <2> HIDE DEF D
  <2>4. D.year = d.year /\ D.mon = d.mon /\ D.mday = d.mday + 1
    BY <2>1
  <2>5. D = [year |-> D.year, mon |-> D.mon, mday |-> D.mday]
    BY <2>1, <2>4, Zenon
  <2>6. D.mday <= DaysOf(D.year, D.mon)
    BY <2>3, <2>4 DEF n
  <2>7. D.year \in Nat /\ D.year >= 1970 /\ D.mon \in 1..12
    BY <1>1, <2>4
  <2>8. D.mday \in Nat /\ D.mday >= 1
    BY <2>3, <2>4
  <2>9. IsDate(D)
    BY <2>5, <2>6, <2>7, <2>8 DEF IsDate
  <2> QED
    BY <2>9 DEF D
<1>3. CASE ~(d.mday < DaysOf(d.year, d.mon)) /\ d.mon < 12
  <2>1. D = [year |-> d.year, mon |-> d.mon + 1, mday |-> 1]
    <3>1. D = [d EXCEPT !.mon = @ + 1, !.mday = 1]
      BY <1>3, Zenon DEF DayAfter
    <3> HIDE DEF D
    <3>2. d = [year |-> d.year, mon |-> d.mon, mday |-> d.mday]
      BY <1>1
    <3> QED
      BY <3>1, <3>2
  <2>2. d.mon + 1 \in 1..12
    BY <1>1, <1>3
  <2>3. 1 <= DaysOf(d.year, d.mon + 1)
    BY <1>1, <2>2, DaysOfAre
  <2> HIDE DEF D
  <2> QED
    BY <1>1, <2>1, <2>2, <2>3 DEF IsDate, D
<1>4. CASE ~(d.mday < DaysOf(d.year, d.mon)) /\ ~(d.mon < 12)
  <2>1. D = [year |-> d.year + 1, mon |-> 1, mday |-> 1]
    BY <1>1, <1>4 DEF DayAfter
  <2>2. d.year + 1 \in Nat /\ d.year + 1 >= 1970
    BY <1>1
  <2>3. 1 <= DaysOf(d.year + 1, 1)
    BY <2>2, DaysOfAre
  <2> HIDE DEF D
  <2> QED
    BY <2>1, <2>2, <2>3 DEF IsDate, D
<1> QED
  BY <1>2, <1>3, <1>4

(* A date that fits two bytes is before the year 2100.                      *)
LEMMA FitsUntil2100 ==
  ASSUME NEW d, IsDate(d), Mjd(d) < 65536
  PROVE  d.year < 2100
<1> DEFINE y == d.year - 1900 - Early(d.mon)
           b == Before(d.mon)
           day == d.mday
           s == Years(y)
           yr == d.year
           j == Mjd(d)
<1>1. y \in Nat /\ b \in Nat /\ day \in Nat /\ j < 65536
  <2>1. b \in Nat /\ day \in Nat
    BY MonthsCounted DEF IsDate
  <2> QED
    BY <2>1, SMT DEF Early, IsDate
<1>2. j = 14956 + day + s + b
  BY MjdIs
<1>3. s \in Nat /\ 1461 * y <= 4 * s + 3
  <2>1. y \in Nat
    BY <1>1
  <2> HIDE DEF y
  <2> QED
    BY <2>1, YearsLong DEF s
<1>4. yr \in Nat /\ yr <= y + 1901
  BY SMT DEF IsDate, Early
<1> HIDE DEF y, b, day, s, yr, j
<1>5. yr < 2100
  BY <1>1, <1>2, <1>3, <1>4, SMT
<1> QED
  BY <1>5 DEF yr

LEMMA NextDayCounted ==
  ASSUME NEW d, IsDate(d), Mjd(d) < 65536
  PROVE  Mjd(DayAfter(d)) = Mjd(d) + 1
<1> DEFINE D == DayAfter(d)
           m == d.mon
           yr == d.year
           day == d.mday
           n == DaysOf(yr, m)
           s(x) == Years(x)
<1>1. /\ d = [year |-> yr, mon |-> m, mday |-> day]
      /\ yr \in Nat /\ yr >= 1970 /\ m \in 1..12 /\ day \in Nat /\ day >= 1 /\ day <= n
  BY DEF IsDate
<1>2. IsDate(D)
  BY NextDayIsDate
<1>3. /\ Mjd(d) = 14956 + day + Years(yr - 1900 - Early(m)) + Before(m)
      /\ Mjd(D) = 14956 + D.mday + Years(D.year - 1900 - Early(D.mon)) + Before(D.mon)
  BY <1>2, MjdIs
<1>4. yr < 2100
  BY FitsUntil2100
<1>5. Leap(yr) <=> yr % 4 = 0
  BY <1>1, <1>4, LeapsUntil2100
<1>6. /\ n \in 28..31
      /\ m = 2 => n = IF Leap(yr) THEN 29 ELSE 28
      /\ m \in {1, 3, 5, 7, 8, 10, 12} => n = 31
      /\ m \in {4, 6, 9, 11} => n = 30
  BY <1>1, DaysOfAre
<1>7. ASSUME NEW x \in Nat
      PROVE  Years(x) \in Nat /\ Years(x + 1) = Years(x) + (IF (x + 1) % 4 = 0 THEN 366 ELSE 365)
  BY YearAfter
<1>8. D = IF day < n THEN [d EXCEPT !.mday = @ + 1]
          ELSE IF m < 12 THEN [d EXCEPT !.mon = @ + 1, !.mday = 1]
          ELSE [year |-> yr + 1, mon |-> 1, mday |-> 1]
  BY DEF DayAfter
<1> DEFINE a == Years(yr - 1900 - Early(m))
           b == Before(m)
<1>9. a \in Nat /\ b \in Nat
  <2> DEFINE x == yr - 1900 - Early(m)
  <2>1. x \in Nat
    BY <1>1, SMT DEF Early
  <2>2. Years(x) \in Nat
    <3> HIDE DEF x
    <3> QED
      BY <2>1, <1>7
  <2> QED
    BY <1>1, <2>2, MonthsCounted
<1>10. CASE day < n
  <2>1. D.mday = day + 1 /\ D.year = yr /\ D.mon = m
    BY <1>1, <1>8, <1>10
  <2>2. Mjd(D) = 14956 + (day + 1) + a + b /\ Mjd(d) = 14956 + day + a + b
    BY <1>3, <2>1
  <2> HIDE DEF D, m, day, a, b
  <2> QED
    BY <1>1, <1>9, <2>2 DEF D
<1>11. CASE ~(day < n) /\ m < 12
  <2>1. D.mday = 1 /\ D.year = yr /\ D.mon = m + 1 /\ day = n
    <3>1. day = n
      <4> HIDE DEF n, day
      <4> QED
        BY <1>1, <1>6, <1>11
    <3> QED
      BY <1>1, <1>8, <1>11, <3>1
  <2> DEFINE a2 == Years(yr - 1900 - Early(m + 1))
             b2 == Before(m + 1)
  <2>2. Mjd(D) = 14956 + 1 + a2 + b2 /\ Mjd(d) = 14956 + n + a + b
    BY <1>3, <2>1
  <2>3. CASE m # 2
    <3>1. Early(m) = Early(m + 1)
      BY <1>1, <1>11, <2>3 DEF Early
    <3>2. a2 = a
      BY <3>1
    <3>3. b2 + 1 = b + n + 1
      <4> HIDE DEF n, m
      <4>1. m \in {1, 3, 4, 5, 6, 7, 8, 9, 10, 11}
        BY <1>1, <1>11, <2>3
      <4>2. Before(m) + n = Before(m + 1)
        BY <1>6, <4>1 DEF Before
      <4> QED
        BY <1>6, <1>9, <4>2
    <3>4. n \in Nat /\ b2 \in Nat /\ a \in Nat /\ b \in Nat
      <4>1. m + 1 \in 1..12
        BY <1>1, <1>11
      <4>2. b2 \in Nat
        BY <4>1, MonthsCounted
      <4> QED
        BY <1>6, <1>9, <4>2
    <3> DEFINE j1 == Mjd(D)
               j2 == Mjd(d)
    <3>5. j1 = 14956 + 1 + a + b2 /\ j2 = 14956 + n + a + b
      BY <2>2, <3>2
    <3> HIDE DEF a, a2, b, b2, n, D, j1, j2
    <3>6. j1 = j2 + 1
      BY <3>3, <3>4, <3>5
    <3> QED
      BY <3>6 DEF D, j1, j2
  <2>4. CASE m = 2
    <3> DEFINE x == yr - 1901
    <3>1. x \in Nat /\ x + 1 = yr - 1900 /\ ((x + 1) % 4 = 0 <=> yr % 4 = 0)
      <4> HIDE DEF yr
      <4> QED
        BY <1>1
    <3>2. a = Years(x) /\ a2 = Years(x + 1) /\ b = 459 /\ b2 = 122
      <4>1. Early(m) = 1 /\ Early(m + 1) = 0
        BY <2>4 DEF Early
      <4>2. b = 459 /\ b2 = 122
        BY <2>4 DEF Before
      <4>3. yr - 1900 - 1 = x /\ yr - 1900 - 0 = x + 1
        <5> HIDE DEF yr
        <5> QED
          BY <1>1
      <4> QED
        BY <4>1, <4>2, <4>3
    <3>3. a2 = a + (IF yr % 4 = 0 THEN 366 ELSE 365)
      <4> HIDE DEF x
      <4>1. Years(x + 1) = Years(x) + (IF (x + 1) % 4 = 0 THEN 366 ELSE 365)
        BY <1>7, <3>1, SMTT(30)
      <4> HIDE DEF a, a2, yr
      <4>2. CASE yr % 4 = 0
        <5>1. Years(x + 1) = Years(x) + 366
          BY <3>1, <4>1, <4>2
        <5>2. a2 = a + 366
          BY <3>2, <5>1
        <5> QED
          BY <4>2, <5>2
      <4>3. CASE ~(yr % 4 = 0)
        <5>1. Years(x + 1) = Years(x) + 365
          BY <3>1, <4>1, <4>3
        <5>2. a2 = a + 365
          BY <3>2, <5>1
        <5> QED
          BY <4>3, <5>2
      <4> QED
        BY <4>2, <4>3
    <3>4. n = IF yr % 4 = 0 THEN 29 ELSE 28
      BY <1>5, <1>6, <2>4
    <3> DEFINE p == yr % 4 = 0
    <3>5. (p => a2 = a + 366 /\ n = 29) /\ (~p => a2 = a + 365 /\ n = 28)
      BY <3>3, <3>4
    <3> HIDE DEF a, a2, b, b2, n, D, p
    <3> QED
      BY <1>9, <2>2, <3>2, <3>5 DEF D
  <2> QED
    BY <2>3, <2>4
<1>12. CASE ~(day < n) /\ ~(m < 12)
  <2>1. D.mday = 1 /\ D.year = yr + 1 /\ D.mon = 1 /\ m = 12
    BY <1>1, <1>8, <1>12
  <2>2. day = n /\ n = 31
    <3> HIDE DEF n, day
    <3> QED
      BY <1>1, <1>6, <1>12, <2>1
  <2>3. Early(1) = 1 /\ Early(12) = 0 /\ Before(1) = 428 /\ Before(12) = 397
    BY DEF Early, Before
  <2>4. (yr + 1) - 1900 - 1 = yr - 1900 - 0
    <3> HIDE DEF yr
    <3> QED
      BY <1>1
  <2>5. Mjd(D) = 14956 + 1 + a + 428 /\ Mjd(d) = 14956 + 31 + a + 397
    <3>1. Mjd(D) = 14956 + 1 + Years((yr + 1) - 1900 - Early(1)) + Before(1)
      BY <1>3, <2>1
    <3> QED
      BY <1>3, <2>1, <2>2, <2>3, <2>4, <3>1
  <2> HIDE DEF a, D
  <2> QED
    BY <1>9, <2>5 DEF D
<1> QED
  BY <1>10, <1>11, <1>12
-----------------------------------------------------------------------------
(* Two BCD digits.                                                          *)
LEMMA DigitsReadBack ==
  \A x \in Nat : x < 100 =>
    /\ ToBCD(x) % 256 # 255 /\ FromBCD(ToBCD(x) % 256) = x
<1> SUFFICES ASSUME NEW x \in Nat, x < 100
             PROVE  ToBCD(x) % 256 # 255 /\ FromBCD(ToBCD(x) % 256) = x
  OBVIOUS
<1> DEFINE q == x \div 10
           r == x - 10 * q
           b == q * 16 + r
<1>1. q \in Nat /\ q < 10 /\ r \in Nat /\ r < 10 /\ 10 * q + r = x
  OBVIOUS
<1>2. ToBCD(x) = b
  <2>1. Quot(x, 10) = q
    BY DEF Quot
  <2>2. ToBCD(x) = q * 16 + x - 10 * q
    BY <2>1 DEF ToBCD
  <2> HIDE DEF q
  <2> QED
    BY <1>1, <2>2
<1> HIDE DEF q, r
<1>3. b \in Nat /\ b < 160 /\ b % 256 = b /\ b \div 16 = q /\ b % 16 = r
  BY <1>1
<1> HIDE DEF b
<1>4. FromBCD(b) = q * 10 + r
  BY <1>1, <1>3 DEF FromBCD
<1> QED
  BY <1>1, <1>2, <1>3, <1>4

(* The byte of a digit pair that cannot be.                                 *)
LEMMA BelowZero ==
  ASSUME NEW m \in Nat \ {0}, NEW a \in Int, a = -1
  PROVE  a % m = m - 1
<1> DEFINE r == m - 1
<1>1. r \in 0..(m - 1)
  OBVIOUS
<1>2. a = (m * a) + r
  BY Z3
<1> HIDE DEF r
<1>3. a % m = r
  BY <1>1, <1>2, RemainderUnique
<1> QED
  BY <1>3 DEF r

LEMMA ByteBelowZero == \A a \in Int : a = -1 => a % 256 = 255
<1>1. \A a \in Int, m \in Nat \ {0} : a = -1 => a % m = m - 1
  BY BelowZero
<1>2. 256 \in Nat \ {0}
  OBVIOUS
<1>3. \A a \in Int : a = -1 => a % 256 = 256 - 1
  BY <1>1, <1>2, Zenon
<1>4. 256 - 1 = 255
  OBVIOUS
<1> QED
  BY <1>3, <1>4, Zenon

LEMMA DurationReadBack ==
  ASSUME NEW d \in Nat
  PROVE  DurationSurvives(d)
<1> DEFINE h == d \div 3600
           m == (d % 3600) \div 60
           s == d % 60
           b == <<ToBCD(h) % 256, ToBCD(m) % 256, ToBCD(s) % 256>>
<1>1. /\ h \in Nat /\ m \in Nat /\ m < 60 /\ s \in Nat /\ s < 60
      /\ h * 3600 + m * 60 + s = d /\ (h < 100 <=> d < 360000)
  OBVIOUS
<1>2. DurationBytes(d) = b
  BY DEF DurationBytes
<1>3. /\ ToBCD(m) % 256 # 255 /\ FromBCD(ToBCD(m) % 256) = m
      /\ ToBCD(s) % 256 # 255 /\ FromBCD(ToBCD(s) % 256) = s
  <2> HIDE DEF m, s
  <2>1. m < 100 /\ s < 100 /\ m \in Nat /\ s \in Nat
    BY <1>1
  <2> QED
    BY <2>1, DigitsReadBack
<1>4. CASE h < 100
  <2>1. ToBCD(h) % 256 # 255 /\ FromBCD(ToBCD(h) % 256) = h
    <3> HIDE DEF h
    <3> QED
      BY <1>1, <1>4, DigitsReadBack
  <2>2. ~(\E k \in 1..3 : b[k] = 255)
    <3> HIDE DEF h, m, s
    <3>1. b[1] # 255 /\ b[2] # 255 /\ b[3] # 255
      BY <1>3, <2>1
    <3> HIDE DEF b
    <3>2. \A k \in 1..3 : k \in {1, 2, 3}
      OBVIOUS
    <3> QED
      BY <3>1, <3>2
  <2>3. DurationOf(b) = h * 3600 + m * 60 + s
    <3> HIDE DEF h, m, s
    <3>1. DurationOf(b) = FromBCD(b[1]) * 3600 + FromBCD(b[2]) * 60 + FromBCD(b[3])
      BY <2>2 DEF DurationOf
    <3>2. FromBCD(b[1]) = h /\ FromBCD(b[2]) = m /\ FromBCD(b[3]) = s
      BY <1>3, <2>1
    <3> HIDE DEF b
    <3> QED
      BY <3>1, <3>2
  <2> HIDE DEF h, m, s, b
  <2> QED
    BY <1>1, <1>2, <1>4, <2>3 DEF DurationSurvives
<1>5. CASE ~(h < 100)
  <2>1. ToBCD(h) % 256 = 255
    <3> HIDE DEF h
    <3>1. ToBCD(h) = -1
      BY <1>1, <1>5 DEF ToBCD
    <3>2. ToBCD(h) \in Int
      BY <3>1
    <3> QED
      BY <3>1, <3>2, ByteBelowZero, Zenon
  <2>2. DurationOf(b) = -1
    <3> HIDE DEF h, m, s
    <3>1. b[1] = 255
      BY <2>1
    <3> HIDE DEF b
    <3> QED
      BY <3>1 DEF DurationOf
  <2> HIDE DEF h, m, s, b
  <2> QED
    BY <1>1, <1>2, <1>5, <2>2 DEF DurationSurvives
<1> QED
  BY <1>4, <1>5
-----------------------------------------------------------------------------
IsPlace ==
  /\ place.zone \in Int /\ place.summer[1] \in Int /\ place.summer[2] \in Int
  /\ place.timeoff = 0 \/ place.timeoff = -place.zone

(* Where clocks do not change nearby, a local time is of one instant.       *)
LEMMA SteadyClocks ==
  ASSUME IsPlace, NEW s \in {0, 1}, NEW t \in Int,
         Ahead(t) = place.zone + s, Ahead(t - 1) = place.zone + s, Ahead(t + 1) = place.zone + s
  PROVE  MkTime(t + (place.zone + s)) = {t}
<1> DEFINE z == place.zone
           local == t + (z + s)
           both == {local - z, local - z - 1}
           fits == {u \in both : LocalTime(u) = local}
<1>1. z \in Int
  BY DEF IsPlace
<1>2. LocalTime(t) = local /\ LocalTime(t - 1) # local /\ LocalTime(t + 1) # local
  <2>1. LocalTime(t) = t + (z + s) /\ LocalTime(t - 1) = (t - 1) + (z + s)
          /\ LocalTime(t + 1) = (t + 1) + (z + s)
    BY DEF LocalTime
  <2> HIDE DEF z
  <2> QED
    BY <1>1, <2>1
<1>3. t \in both /\ both \subseteq {t, t - 1, t + 1}
  <2> HIDE DEF z
  <2>1. CASE s = 0
    BY <1>1, <2>1
  <2>2. CASE s = 1
    BY <1>1, <2>2
  <2> QED
    BY <2>1, <2>2
<1>4. fits = {t}
  <2> HIDE DEF both, local
  <2> QED
    BY <1>2, <1>3
<1>5. MkTime(local) = IF fits # {} THEN fits ELSE {local - z, local - z - 1}
  BY DEF MkTime
<1> HIDE DEF fits, local
<1>6. MkTime(local) = {t}
  BY <1>4, <1>5
<1> QED
  BY <1>6 DEF local, z

LEMMA InstantReadBack ==
  ASSUME IsPlace, hour \in Int
  PROVE  InstantSurvives
<1> DEFINE z == place.zone
           far == 2 + (IF z < 0 THEN -z ELSE z)
           a == place.summer[1]
           b == place.summer[2]
           away(change) == hour - change > far \/ change - hour > far
           s == IF hour >= a /\ hour < b THEN 1 ELSE 0
<1> SUFFICES ASSUME away(a), away(b) PROVE Means(hour) = {hour}
  BY DEF InstantSurvives
<1>1. z \in Int /\ a \in Int /\ b \in Int /\ s \in {0, 1} /\ far \in Int
      /\ z <= far - 2 /\ -z <= far - 2 /\ far >= 2
  BY DEF IsPlace
<1>2. ASSUME NEW t \in Int, t - hour <= far, hour - t <= far PROVE Ahead(t) = z + s
  <2>1. Ahead(t) = z + (IF t >= a /\ t < b THEN 1 ELSE 0)
    BY DEF Ahead
  <2> HIDE DEF z, far
  <2>2. t >= a <=> hour >= a
    BY <1>1, <1>2
  <2>3. t < b <=> hour < b
    BY <1>1, <1>2
  <2> HIDE DEF a, b
  <2> QED
    BY <2>1, <2>2, <2>3
<1> HIDE DEF s, far
<1>3. ASSUME NEW t \in Int, t - hour <= far - 1, hour - t <= far - 1
      PROVE  LocalTime(t) = t + (z + s) /\ MkTime(t + (z + s)) = {t}
  <2>1. Ahead(t) = z + s
    BY <1>1, <1>2, <1>3
  <2>2. Ahead(t - 1) = z + s
    <3> DEFINE u == t - 1
    <3>1. u \in Int /\ u - hour <= far /\ hour - u <= far
      BY <1>1, <1>3
    <3> HIDE DEF u
    <3>2. Ahead(u) = z + s
      BY <1>2, <3>1
    <3> QED
      BY <3>2 DEF u
  <2>3. Ahead(t + 1) = z + s
    <3> DEFINE u == t + 1
    <3>1. u \in Int /\ u - hour <= far /\ hour - u <= far
      BY <1>1, <1>3
    <3> HIDE DEF u
    <3>2. Ahead(u) = z + s
      BY <1>2, <3>1
    <3> QED
      BY <3>2 DEF u
  <2> QED
    BY <1>1, <2>1, <2>2, <2>3, SteadyClocks DEF LocalTime
<1> DEFINE w == hour - (z + s)
           off == place.timeoff
<1>4. LocalTime(hour) = hour + (z + s) /\ MkTime(hour + (z + s)) = {hour}
  <2>1. hour - hour <= far - 1
    BY <1>1
  <2> QED
    BY <1>3, <2>1
<1>5. MkTime(hour) = {w}
  <2>1. w \in Int /\ w - hour <= far - 1 /\ hour - w <= far - 1 /\ w + (z + s) = hour
    <3> HIDE DEF z
    <3> QED
      BY <1>1
  <2> HIDE DEF w
  <2>2. MkTime(w + (z + s)) = {w}
    BY <1>3, <2>1
  <2> QED
    BY <2>1, <2>2
<1>6. off = 0 \/ off = -z
  BY DEF IsPlace
<1>7. LocalTime(w - off) + off = hour
  <2> DEFINE u == w - off
  <2>1. u \in Int /\ u - hour <= far - 1 /\ hour - u <= far - 1 /\ (u + (z + s)) + off = hour
    <3> HIDE DEF z, off
    <3>1. CASE off = 0
      BY <1>1, <3>1
    <3>2. CASE off = -z
      <4>1. s = 0 \/ s = 1
        BY <1>1
      <4> QED
        BY <1>1, <3>2, <4>1
    <3> QED
      BY <1>6, <3>1, <3>2
  <2> HIDE DEF u
  <2>2. LocalTime(u) = u + (z + s)
    BY <1>3, <2>1
  <2> QED
    BY <2>1, <2>2 DEF u
<1>8. LET p == Printed(w) IN p.time - p.zone = hour
  <2>1. LocalTime(w - off) - (-off) = LocalTime(w - off) + off
    <3> DEFINE x == LocalTime(w - off)
    <3>1. x \in Int /\ off \in Int
      <4>1. off \in Int
        BY <1>1, <1>6
      <4>2. x \in Int
        <5>1. w - off \in Int
          BY <1>1, <4>1
        <5>2. Ahead(w - off) \in Int
          BY <1>1 DEF Ahead
        <5> HIDE DEF w, off
        <5> QED
          BY <5>1, <5>2 DEF LocalTime
      <4> QED
        BY <4>1, <4>2
    <3> HIDE DEF x, off
    <3> QED
      BY <3>1 DEF x
  <2>2. Printed(w) = [time |-> LocalTime(w - off), zone |-> -off]
    BY DEF Printed
  <2> HIDE DEF w, off
  <2> QED
    BY <1>7, <2>1, <2>2
<1>9. UNION {StartOf(read) : read \in MkTime(LocalTime(hour))} = {w}
  <2> HIDE DEF w
  <2>1. MkTime(LocalTime(hour)) = {hour}
    BY <1>4
  <2>2. StartOf(hour) = {w}
    BY <1>5 DEF StartOf
  <2> QED
    BY <2>1, <2>2
<1>10. Means(hour) = {LET p == Printed(start) IN p.time - p.zone : start \in {w}}
  <2> HIDE DEF w
  <2> QED
    BY <1>9 DEF Means
<1> HIDE DEF w
<1> QED
  BY <1>8, <1>10
-----------------------------------------------------------------------------
TimeInv ==
  IsDate(date) /\ hour \in Int /\ duration \in Nat /\ IsPlace

(* From 1970 on every date that fits two bytes is read back, and the next   *)
(* one has the next number; every instant survives in every zone unless     *)
(* clocks change meanwhile; every duration up to a hundred hours survives,  *)
(* and none is made up for longer ones (makeDVBtime, parseDVBtime, toBCD,   *)
(* fromBCD, mktimet_from_xmltv, saveepg_to_xmltv).                          *)
THEOREM TimesAlwaysSurvive == TimeSpec => []TimesSurvive
<1>1. TimeInit => TimeInv
  <2> SUFFICES ASSUME TimeInit PROVE TimeInv
    OBVIOUS
  <2>1. IsDate(date)
    <3>1. 1 \in 1..12
      OBVIOUS
    <3>2. 1 <= DaysOf(1970, 1)
      BY DEF DaysOf
    <3> QED
      BY <3>1, <3>2 DEF TimeInit, IsDate
  <2>2. hour \in Int /\ duration \in Nat
    BY TimeAssumption DEF TimeInit
  <2>3. PICK zone \in Zones, summer \in Summers : \E timeoff \in {0, -zone} :
          place = [zone |-> zone, summer |-> summer, timeoff |-> timeoff]
    BY DEF TimeInit
  <2>4. PICK timeoff \in {0, -zone} :
          place = [zone |-> zone, summer |-> summer, timeoff |-> timeoff]
    BY <2>3
  <2>5. zone \in Int /\ summer \in Int \X Int
    BY TimeAssumption, <2>3
  <2>6. IsPlace
    BY <2>4, <2>5 DEF IsPlace
  <2> QED
    BY <2>1, <2>2, <2>6 DEF TimeInv
<1>2. TimeInv /\ [Tomorrow]_timeVars => TimeInv'
  <2> SUFFICES ASSUME TimeInv, [Tomorrow]_timeVars PROVE TimeInv'
    OBVIOUS
  <2>1. hour' = hour /\ duration' = duration /\ place' = place
    BY DEF Tomorrow, timeVars
  <2>2. date' = date \/ date' = DayAfter(date)
    BY DEF Tomorrow, timeVars
  <2>3. IsDate(date')
    BY <2>2, NextDayIsDate DEF TimeInv
  <2> QED
    BY <2>1, <2>3 DEF TimeInv, IsDate, IsPlace
<1>3. TimeInv => TimesSurvive
  <2> SUFFICES ASSUME TimeInv PROVE TimesSurvive
    OBVIOUS
  <2>1. DateSurvives
    BY DateReadBack DEF TimeInv, DateSurvives
  <2>2. DaysCounted
    BY NextDayCounted DEF TimeInv, DaysCounted
  <2>3. InstantSurvives
    BY InstantReadBack DEF TimeInv
  <2>4. DurationSurvives(duration)
    BY DurationReadBack DEF TimeInv
  <2> QED
    BY <2>1, <2>2, <2>3, <2>4 DEF TimesSurvive
<1> QED
  BY <1>1, <1>2, <1>3, PTL DEF TimeSpec
=============================================================================
