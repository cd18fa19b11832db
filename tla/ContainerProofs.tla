-------------------------- MODULE ContainerProofs ---------------------------
(***************************************************************************)
(* What TLAPS proves of the containers of lib/: the ring of the pull       *)
(* parser, for any items, any first size and however often it has grown;   *)
(* the pointer list, for any objects, any order of them and any length of  *)
(* the list; the lists and the string buffer under the parser, for any     *)
(* names in any strict order, any values and any text.                     *)
(***************************************************************************)
EXTENDS XmlQueue, EPtrList, XmlBuffers, Lemmas, FiniteSetTheorems

Typed ==
  /\ max \in Nat \ {0}
  /\ entries \in [0..max - 1 -> Items \cup {NoItem}]

RingInv == Typed /\ RingConsistent

(* One step around the ring.                                               *)
LEMMA ModWrap ==
  ASSUME NEW m \in Nat \ {0}, NEW x \in 0..m
  PROVE  x % m = IF x = m THEN 0 ELSE x
<1>1. CASE x < m
  BY <1>1, SMT
<1>2. CASE x = m
  BY <1>2, SMT
<1> QED
  BY <1>1, <1>2, SMT

LEMMA GrownGrows ==
  ASSUME NEW m \in Nat \ {0}
  PROVE  Grown(m) \in Nat /\ Grown(m) > m
BY SMT DEF Grown

(* A full ring begins where it ends, and what the two copies move is the   *)
(* queue from its head on.                                                 *)
LEMMA FullRing ==
  ASSUME RingInv, count >= max
  PROVE  /\ count = max
         /\ HeadLen + TailLen = max
         /\ \A i \in 0..max - 1 : Moved[i] = entries[Slot(i)]
<1>1. count = max /\ head = tail /\ head \in 0..max - 1 /\ max \in Nat
  BY SMT DEF RingInv, Typed, RingConsistent, Slot
<1>2. HeadLen = max - head /\ TailLen = head
  BY <1>1, SMT DEF HeadLen, TailLen
<1>3. max \in Nat \ {0}
  BY DEF RingInv, Typed
<1>4. Grown(max) \in Nat /\ Grown(max) > max
  BY <1>3, GrownGrows
<1>5. ASSUME NEW i \in 0..max - 1 PROVE Moved[i] = entries[Slot(i)]
  <2>1. i \in 0..Grown(max) - 1
    BY <1>1, <1>4, SMT
  <2>2. CASE i < HeadLen
    BY <2>1, <2>2, <1>1, <1>2, SMT DEF Moved, Slot
  <2>3. CASE i >= HeadLen
    BY <2>1, <2>3, <1>1, <1>2, SMT DEF Moved, Slot
  <2> QED
    BY <2>2, <2>3, <1>1, <1>2, SMT
<1> QED
  BY <1>1, <1>2, <1>5, SMT

(* What push does to a ring with room: one more slot, the others as before.*)
LEMMA RoomyPush ==
  ASSUME RingInv, NEW item \in Items, Push(item), count < max
  PROVE  /\ RingInv'
         /\ count' = count + 1 /\ popped' = popped
         /\ \A i \in 0..count :
              entries'[Slot(i)'] = IF i < count THEN entries[Slot(i)] ELSE item
<1>1. /\ entries' = [entries EXCEPT ![tail] = item]
      /\ tail' = (tail + 1) % max
      /\ head' = head /\ max' = max /\ count' = count + 1
  BY SMT DEF Push, RingInv, Typed, RingConsistent
<1>2. /\ max \in Nat \ {0} /\ head \in 0..max - 1 /\ tail \in 0..max - 1
      /\ count \in 0..max - 1 /\ tail = Slot(count)
      /\ entries \in [0..max - 1 -> Items \cup {NoItem}]
      /\ \A i \in 0..count - 1 : entries[Slot(i)] \in Items
  BY SMT DEF RingInv, Typed, RingConsistent
<1>3. tail' = IF tail + 1 = max THEN 0 ELSE tail + 1
  <2>1. tail + 1 \in 0..max
    BY <1>2, SMT
  <2> QED
    BY <2>1, <1>1, <1>2, ModWrap
<1>4. \A i \in 0..count : Slot(i)' = Slot(i)
  BY <1>1 DEF Slot
<1>5. \A i \in 0..count - 1 : Slot(i) \in 0..max - 1 /\ Slot(i) # tail
  BY <1>2, SMT DEF Slot
<1>6. \A i \in 0..count - 1 : entries'[Slot(i)] = entries[Slot(i)]
  BY <1>1, <1>2, <1>5
<1>7. entries'[tail] = item
  BY <1>1, <1>2
<1>8. Typed'
  BY <1>1, <1>2 DEF Typed
<1>9. tail' = Slot(count + 1)
  BY <1>2, <1>3, SMT DEF Slot
<1>10. RingConsistent'
  <2>1. head' \in 0..max' - 1 /\ tail' \in 0..max' - 1 /\ count' \in 0..max'
    BY <1>1, <1>2, <1>3, SMT
  <2>2. tail' = Slot(count)'
    BY <1>1, <1>9 DEF Slot
  <2>3. ASSUME NEW i \in 0..count' - 1 PROVE entries'[Slot(i)'] \in Items
    <3>1. i \in 0..count - 1 \/ i = count
      BY <1>1, <1>2, SMT
    <3>2. CASE i \in 0..count - 1
      <4>1. i \in 0..count
        BY <3>2, <1>2, SMT
      <4> QED
        BY <3>2, <4>1, <1>2, <1>4, <1>6
    <3>3. CASE i = count
      <4>1. Slot(i)' = tail
        BY <3>3, <1>2, <1>4, SMT
      <4> QED
        BY <4>1, <1>7
    <3> QED
      BY <3>1, <3>2, <3>3
  <2> QED
    BY <2>1, <2>2, <2>3 DEF RingConsistent
<1>11. \A i \in 0..count : i \in 0..count - 1 \/ i = count
  BY <1>2, SMT
<1>12. \A i \in 0..count - 1 : i < count
  BY <1>2, SMT
<1>13. ~(count < count)
  BY <1>2, SMT
<1>14. ASSUME NEW i \in 0..count
       PROVE  entries'[Slot(i)'] = IF i < count THEN entries[Slot(i)] ELSE item
  BY <1>2, <1>4, <1>6, <1>7, <1>11, <1>12, <1>13
<1> QED
  BY <1>1, <1>8, <1>10, <1>14 DEF RingInv, Push

(* What push does to a full ring: the queue now begins at slot 0.          *)
LEMMA GrowingPush ==
  ASSUME RingInv, NEW item \in Items, Push(item), count >= max
  PROVE  /\ RingInv'
         /\ count' = count + 1 /\ popped' = popped
         /\ \A i \in 0..count :
              entries'[Slot(i)'] = IF i < count THEN entries[Slot(i)] ELSE item
<1>1. /\ count = max /\ HeadLen + TailLen = max
      /\ \A i \in 0..max - 1 : Moved[i] = entries[Slot(i)]
  BY FullRing
<1>2. /\ entries' = [Moved EXCEPT ![max] = item]
      /\ tail' = (max + 1) % Grown(max)
      /\ head' = 0 /\ max' = Grown(max) /\ count' = max + 1
  BY <1>1 DEF Push
<1>3. /\ max \in Nat \ {0} /\ head \in 0..max - 1
      /\ entries \in [0..max - 1 -> Items \cup {NoItem}]
      /\ \A i \in 0..max - 1 : entries[Slot(i)] \in Items
  BY <1>1, SMT DEF RingInv, Typed, RingConsistent
<1>4. Grown(max) \in Nat /\ Grown(max) > max
  BY <1>3, GrownGrows
<1>5. tail' = IF max + 1 = Grown(max) THEN 0 ELSE max + 1
  <2>1. max + 1 \in 0..Grown(max) /\ Grown(max) \in Nat \ {0}
    BY <1>3, <1>4, SMT
  <2> QED
    BY <2>1, <1>2, ModWrap
<1>6. Moved \in [0..Grown(max) - 1 -> Items \cup {NoItem}]
  <2>1. ASSUME NEW i \in 0..Grown(max) - 1 PROVE Moved[i] \in Items \cup {NoItem}
    <3>1. CASE i < max
      BY <3>1, <1>1, <1>3, SMT
    <3>2. CASE i >= max
      <4>1. ~(i < HeadLen) /\ ~(i < HeadLen + TailLen)
        BY <3>2, <1>1, <1>3, SMT DEF HeadLen, TailLen, RingInv, RingConsistent
      <4> QED
        BY <4>1 DEF Moved
    <3> QED
      BY <3>1, <3>2, <1>3, SMT
  <2>2. Moved = [i \in 0..Grown(max) - 1 |-> Moved[i]]
    BY DEF Moved
  <2> HIDE DEF Moved
  <2> QED
    BY <2>1, <2>2
<1> HIDE DEF Moved
<1>7. max \in 0..Grown(max) - 1 /\ 0..max - 1 \subseteq 0..Grown(max) - 1
  BY <1>3, <1>4, SMT
<1>8. Typed'
  <2>1. entries' \in [0..Grown(max) - 1 -> Items \cup {NoItem}]
    BY <1>2, <1>6, <1>7
  <2> QED
    BY <2>1, <1>2, <1>3, <1>4, SMT DEF Typed
<1>9. \A i \in 0..max : Slot(i)' = i
  BY <1>2, <1>3, <1>4, SMT DEF Slot
<1>10. entries'[max] = item
  BY <1>2, <1>6, <1>7
<1>11. ASSUME NEW i \in 0..max - 1 PROVE entries'[i] = entries[Slot(i)]
  <2>1. i # max /\ i \in 0..Grown(max) - 1
    BY <1>3, <1>7, SMT
  <2> QED
    BY <2>1, <1>1, <1>2, <1>6
<1>12. \A i \in 0..max : i \in 0..max - 1 \/ i = max
  BY <1>3, SMT
<1>13. RingConsistent'
  <2>1. head' \in 0..max' - 1 /\ tail' \in 0..max' - 1 /\ count' \in 0..max'
    BY <1>2, <1>3, <1>4, <1>5, SMT
  <2>2. tail' = Slot(count)'
    BY <1>2, <1>3, <1>4, <1>5, SMT DEF Slot
  <2>3. count' - 1 = max
    BY <1>2, <1>3, SMT
  <2>4. ASSUME NEW i \in 0..max PROVE entries'[Slot(i)'] \in Items
    BY <1>3, <1>9, <1>10, <1>11, <1>12
  <2> QED
    BY <2>1, <2>2, <2>3, <2>4 DEF RingConsistent
<1>14. ~(max < max) /\ \A i \in 0..max - 1 : i < max
  BY <1>3, SMT
<1>15. ASSUME NEW i \in 0..max
       PROVE  entries'[Slot(i)'] = IF i < max THEN entries[Slot(i)] ELSE item
  BY <1>9, <1>10, <1>11, <1>12, <1>14
<1>16. popped' = popped
  BY DEF Push
<1> QED
  BY <1>1, <1>2, <1>8, <1>13, <1>15, <1>16 DEF RingInv

(* What pop does to a ring that is not empty.                              *)
LEMMA FullPop ==
  ASSUME RingInv, Pop, count > 0
  PROVE  /\ RingInv'
         /\ popped' = entries[Slot(0)]
         /\ count' = count - 1
         /\ \A i \in 0..count - 2 : entries'[Slot(i)'] = entries[Slot(i + 1)]
<1>1. /\ popped' = entries[head] /\ head' = (head + 1) % max
      /\ count' = count - 1 /\ entries' = entries /\ tail' = tail /\ max' = max
  BY DEF Pop
<1>2. /\ max \in Nat \ {0} /\ head \in 0..max - 1 /\ tail \in 0..max - 1
      /\ count \in 1..max /\ tail = Slot(count)
      /\ \A i \in 0..count - 1 : entries[Slot(i)] \in Items
  BY SMT DEF RingInv, Typed, RingConsistent
<1>3. head' = IF head + 1 = max THEN 0 ELSE head + 1
  <2>1. head + 1 \in 0..max
    BY <1>2, SMT
  <2> QED
    BY <2>1, <1>1, <1>2, ModWrap
<1>4. \A i \in 0..count - 1 : Slot(i)' = Slot(i + 1)
  BY <1>1, <1>2, <1>3, SMT DEF Slot
<1>5. Slot(0) = head
  BY <1>2, SMT DEF Slot
<1>6. \A i \in 0..count - 2 : i \in 0..count - 1 /\ i + 1 \in 0..count - 1
  BY <1>2, SMT
<1>7. RingConsistent'
  <2>1. head' \in 0..max' - 1 /\ tail' \in 0..max' - 1 /\ count' \in 0..max'
    BY <1>1, <1>2, <1>3, SMT
  <2>2. tail' = Slot(count)'
    BY <1>1, <1>2, <1>3, SMT DEF Slot
  <2>3. count' - 1 = count - 2
    BY <1>1, <1>2, SMT
  <2>4. ASSUME NEW i \in 0..count - 2 PROVE entries'[Slot(i)'] \in Items
    BY <1>1, <1>2, <1>4, <1>6
  <2> QED
    BY <2>1, <2>2, <2>3, <2>4 DEF RingConsistent
<1> QED
  BY <1>1, <1>4, <1>5, <1>6, <1>7 DEF RingInv, Typed
-----------------------------------------------------------------------------
LEMMA RingInitial == QueueInit => RingInv
<1> SUFFICES ASSUME QueueInit PROVE RingInv
  OBVIOUS
<1>1. FirstMax \in Nat \ {0}
  BY SizeAssumption
<1> QED
  BY <1>1, SMT DEF QueueInit, RingInv, Typed, RingConsistent, Slot

LEMMA RingStep == RingInv /\ [QueueNext]_qvars => RingInv'
<1> SUFFICES ASSUME RingInv, [QueueNext]_qvars PROVE RingInv'
  OBVIOUS
<1>1. ASSUME NEW item \in Items, Push(item) PROVE RingInv'
  <2>1. count < max \/ count >= max
    BY SMT DEF RingInv, Typed, RingConsistent
  <2> QED
    BY <1>1, <2>1, RoomyPush, GrowingPush
<1>2. CASE Pop /\ count > 0
  BY <1>2, FullPop
<1>3. CASE (Pop /\ ~(count > 0)) \/ UNCHANGED qvars
  <2>1. /\ entries' = entries /\ head' = head /\ tail' = tail
        /\ count' = count /\ max' = max
    BY <1>3 DEF Pop, qvars
  <2> QED
    BY <2>1 DEF RingInv, Typed, RingConsistent, Slot
<1> QED
  BY <1>1, <1>2, <1>3 DEF QueueNext

(* In every reachable state head, tail and count tell one story and no     *)
(* queued slot is null (SP_XmlQueue).                                      *)
THEOREM RingAlwaysConsistent == QueueSpec => []RingConsistent
<1>1. RingInv => RingConsistent
  BY DEF RingInv
<1> QED
  BY <1>1, RingInitial, RingStep, PTL DEF QueueSpec

LEMMA QueuedTyped ==
  RingInv => Queued \in Seq(Items) /\ Len(Queued) = count /\ count \in Nat
<1> SUFFICES ASSUME RingInv
             PROVE  Queued \in Seq(Items) /\ Len(Queued) = count /\ count \in Nat
  OBVIOUS
<1>1. count \in Nat
  BY SMT DEF RingInv, Typed, RingConsistent
<1>2. \A i \in 1..count : entries[Slot(i - 1)] \in Items
  <2>1. \A i \in 1..count : i - 1 \in 0..count - 1
    BY <1>1, SMT
  <2> QED
    BY <2>1 DEF RingInv, RingConsistent
<1> QED
  BY <1>1, <1>2, SMT DEF Queued

LEMMA PushPushes ==
  ASSUME RingInv, NEW item \in Items, Push(item)
  PROVE  Promise!Push(item)
<1>1. /\ RingInv' /\ count' = count + 1 /\ popped' = popped
      /\ \A i \in 0..count :
           entries'[Slot(i)'] = IF i < count THEN entries[Slot(i)] ELSE item
  <2>1. count < max \/ count >= max
    BY SMT DEF RingInv, Typed, RingConsistent
  <2> QED
    BY <2>1, RoomyPush, GrowingPush
<1>2. count \in Nat /\ Queued \in Seq(Items) /\ Len(Queued) = count
  BY QueuedTyped
<1>3. Queued' \in Seq(Items) /\ Len(Queued') = count + 1
  <2>1. (Queued \in Seq(Items) /\ Len(Queued) = count)'
    BY <1>1, QueuedTyped, PTL
  <2> QED
    BY <2>1, <1>1
<1>4. ASSUME NEW i \in 1..count + 1
      PROVE  Queued'[i] = IF i <= count THEN Queued[i] ELSE item
  <2>1. i \in 1..count' /\ i - 1 \in 0..count /\ (i - 1 < count <=> i <= count)
    BY <1>1, <1>2, SMT
  <2>2. Queued'[i] = entries'[Slot(i - 1)']
    BY <2>1 DEF Queued
  <2>3. i <= count => i \in 1..count
    BY <1>2, SMT
  <2>4. i <= count => Queued[i] = entries[Slot(i - 1)]
    BY <2>3 DEF Queued
  <2> QED
    BY <1>1, <2>1, <2>2, <2>4
<1>5. Queued' = Append(Queued, item)
  BY <1>2, <1>3, <1>4, SMT
<1> QED
  BY <1>1, <1>5 DEF Promise!Push

LEMMA PopPops ==
  ASSUME RingInv, Pop
  PROVE  Promise!Pop
<1>1. count \in Nat /\ Queued \in Seq(Items) /\ Len(Queued) = count
  BY QueuedTyped
<1>2. CASE count > 0
  <2>1. /\ RingInv' /\ popped' = entries[Slot(0)] /\ count' = count - 1
        /\ \A i \in 0..count - 2 : entries'[Slot(i)'] = entries[Slot(i + 1)]
    BY <1>2, FullPop
  <2>2. Queued' \in Seq(Items) /\ Len(Queued') = count - 1
    <3>1. (Queued \in Seq(Items) /\ Len(Queued) = count)'
      BY <2>1, QueuedTyped, PTL
    <3> QED
      BY <3>1, <2>1
  <2>3. ASSUME NEW i \in 1..count - 1 PROVE Queued'[i] = Queued[i + 1]
    <3>1. i \in 1..count' /\ i - 1 \in 0..count - 2 /\ i + 1 \in 1..count
      BY <1>1, <2>1, SMT
    <3>2. Queued'[i] = entries'[Slot(i - 1)']
      BY <3>1 DEF Queued
    <3>3. (i - 1) + 1 = (i + 1) - 1
      BY SMT
    <3>4. Queued[i + 1] = entries[Slot((i + 1) - 1)]
      BY <3>1 DEF Queued
    <3> QED
      BY <2>1, <3>1, <3>2, <3>3, <3>4
  <2>4. popped' = Queued[1]
    <3>1. 1 \in 1..count /\ 1 - 1 = 0
      BY <1>1, <1>2, SMT
    <3> QED
      BY <2>1, <3>1 DEF Queued
  <2>5. Queued # <<>> /\ popped' = Head(Queued) /\ Queued' = Tail(Queued)
    BY <1>1, <1>2, <2>2, <2>3, <2>4, SMT
  <2> QED
    BY <2>5 DEF Promise!Pop
<1>3. CASE ~(count > 0)
  <2>1. /\ popped' = NoItem /\ entries' = entries /\ head' = head
        /\ tail' = tail /\ count' = count /\ max' = max
    BY <1>3 DEF Pop
  <2>2. Queued' = Queued
    BY <2>1 DEF Queued, Slot
  <2>3. Queued = <<>>
    BY <1>1, <1>3, SMT
  <2> QED
    BY <2>1, <2>2, <2>3 DEF Promise!Pop
<1> QED
  BY <1>2, <1>3

LEMMA QueueStep == RingInv /\ [QueueNext]_qvars => [Promise!Next]_<<Queued, popped>>
<1> SUFFICES ASSUME RingInv, [QueueNext]_qvars
             PROVE  [Promise!Next]_<<Queued, popped>>
  OBVIOUS
<1>1. ASSUME NEW item \in Items, Push(item) PROVE Promise!Next
  BY <1>1, PushPushes DEF Promise!Next
<1>2. CASE Pop
  BY <1>2, PopPops DEF Promise!Next
<1>3. CASE UNCHANGED qvars
  BY <1>3 DEF qvars, Queued, Slot
<1> QED
  BY <1>1, <1>2, <1>3 DEF QueueNext

(* The ring implements the queue that Fifo specifies: items come out in    *)
(* the order they went in, each once, and null comes out of an empty one,  *)
(* for any items and any first size (SP_XmlQueue::push, pop).              *)
THEOREM QueueImplementsFifo == QueueSpec => QueueIsFifo
<1>1. QueueInit => Promise!Init
  <2> SUFFICES ASSUME QueueInit PROVE Promise!Init
    OBVIOUS
  <2>1. count = 0 /\ popped = NoItem
    BY DEF QueueInit
  <2>2. Queued = <<>>
    BY <2>1, SMT DEF Queued
  <2> QED
    BY <2>1, <2>2 DEF Promise!Init
<1> QED
  BY <1>1, RingInitial, RingStep, QueueStep, PTL
     DEF QueueSpec, QueueIsFifo, Promise!Spec
-----------------------------------------------------------------------------
Node == [id : Addresses, t : Objects]

LEMMA Inserted ==
  ASSUME NEW S, NEW s \in Seq(S), NEW k \in 1..Len(s) + 1, NEW e \in S
  PROVE  /\ InsertAt(s, k, e) \in Seq(S)
         /\ Len(InsertAt(s, k, e)) = Len(s) + 1
         /\ InsertAt(s, k, e)[k] = e
         /\ \A m \in 1..k - 1 : InsertAt(s, k, e)[m] = s[m]
         /\ \A m \in k + 1..Len(s) + 1 : InsertAt(s, k, e)[m] = s[m - 1]
<1> DEFINE a == SubSeq(s, 1, k - 1)
           b == SubSeq(s, k, Len(s))
<1>1. /\ a \in Seq(S) /\ Len(a) = k - 1
      /\ \A m \in 1..k - 1 : a[m] = s[m]
  OBVIOUS
<1>2. /\ b \in Seq(S) /\ Len(b) = Len(s) + 1 - k
      /\ \A m \in 1..Len(s) + 1 - k : b[m] = s[m + k - 1]
  OBVIOUS
<1>3. InsertAt(s, k, e) = (a \o <<e>>) \o b
  BY DEF InsertAt
<1> HIDE DEF a, b
<1> DEFINE c == a \o <<e>>
<1>4. /\ c \in Seq(S) /\ Len(c) = k /\ c[k] = e
      /\ \A m \in 1..k - 1 : c[m] = s[m]
  BY <1>1
<1> HIDE DEF c
<1>5. /\ c \o b \in Seq(S) /\ Len(c \o b) = Len(s) + 1
      /\ \A m \in 1..k : (c \o b)[m] = c[m]
      /\ \A m \in k + 1..Len(s) + 1 : (c \o b)[m] = b[m - k]
  <2>1. c \in Seq(S) /\ b \in Seq(S) /\ k \in Nat /\ Len(c) = k
    BY <1>2, <1>4
  <2>2. c \o b \in Seq(S) /\ Len(c \o b) = Len(c) + Len(b)
    BY <2>1
  <2>3. \A m \in 1..Len(c) : (c \o b)[m] = c[m]
    BY <2>1
  <2>4. \A m \in Len(c) + 1..Len(c) + Len(b) : (c \o b)[m] = b[m - Len(c)]
    BY <2>1
  <2>5. k + Len(b) = Len(s) + 1
    BY <1>2
  <2> QED
    BY <2>1, <2>2, <2>3, <2>4, <2>5
<1>6. \A m \in k + 1..Len(s) + 1 : (c \o b)[m] = s[m - 1]
  BY <1>2, <1>5
<1> QED
  BY <1>3, <1>4, <1>5, <1>6 DEF c

LEMMA Removed ==
  ASSUME NEW S, NEW s \in Seq(S), NEW k \in 1..Len(s)
  PROVE  /\ RemoveAt(s, k) \in Seq(S)
         /\ Len(RemoveAt(s, k)) = Len(s) - 1
         /\ \A m \in 1..k - 1 : RemoveAt(s, k)[m] = s[m]
         /\ \A m \in k..Len(s) - 1 : RemoveAt(s, k)[m] = s[m + 1]
<1> DEFINE a == SubSeq(s, 1, k - 1)
           b == SubSeq(s, k + 1, Len(s))
<1>1. /\ a \in Seq(S) /\ Len(a) = k - 1
      /\ \A m \in 1..k - 1 : a[m] = s[m]
  OBVIOUS
<1>2. /\ b \in Seq(S) /\ Len(b) = Len(s) - k
      /\ \A m \in 1..Len(s) - k : b[m] = s[m + k]
  OBVIOUS
<1>3. RemoveAt(s, k) = a \o b
  BY DEF RemoveAt
<1> HIDE DEF a, b
<1>4. a \o b \in Seq(S) /\ Len(a \o b) = Len(s) - 1
  <2>1. a \in Seq(S) /\ b \in Seq(S)
    BY <1>1, <1>2
  <2>2. a \o b \in Seq(S) /\ Len(a \o b) = Len(a) + Len(b)
    BY <2>1
  <2> QED
    BY <1>1, <1>2, <2>2
<1>5. \A m \in 1..k - 1 : (a \o b)[m] = a[m]
  BY <1>1, <1>2
<1>6. \A m \in k..Len(s) - 1 : (a \o b)[m] = b[m - (k - 1)]
  BY <1>1, <1>2
<1>7. \A m \in k..Len(s) - 1 : (a \o b)[m] = s[m + 1]
  <2> SUFFICES ASSUME NEW m \in k..Len(s) - 1
               PROVE  (a \o b)[m] = s[m + 1]
    OBVIOUS
  <2>1. m - (k - 1) \in 1..Len(s) - k /\ m - (k - 1) + k = m + 1
    OBVIOUS
  <2> QED
    BY <1>2, <1>6, <2>1
<1> QED
  BY <1>1, <1>3, <1>4, <1>5, <1>7

-----------------------------------------------------------------------------
(* Nodes are told apart by their addresses; two of one object have been     *)
(* noticed.                                                                *)
Apart(list) ==
  \A k, l \in DOMAIN list :
    k # l => /\ list[k].id # list[l].id
             /\ list[k].t = list[l].t => list[k].t \in twice

NodesInv == nodes \in Seq(Node) /\ Apart(nodes)

ListInv ==
  /\ NodesInv
  /\ cur \in Ids(nodes) \cup {End} \cup unseen
  /\ taken \cap Held \subseteq twice
  /\ deleted \cap (Held \cup taken) \subseteq twice

(* A new node is between the nodes there were. *)
LEMMA PushKeeps ==
  ASSUME NodesInv, NEW t \in Objects, NEW k \in 1..Len(nodes) + 1,
         NEW id \in Addresses \ Ids(nodes), nodes' = InsertAt(nodes, k, [id |-> id, t |-> t]),
         twice' = twice \cup (Held \cap {t})
  PROVE  /\ NodesInv' /\ nodes' # <<>>
         /\ Held' = Held \cup {t}
         /\ Ids(nodes') = Ids(nodes) \cup {id}
<1> DEFINE e == [id |-> id, t |-> t]
<1>1. nodes' = InsertAt(nodes, k, e)
  OBVIOUS
<1>2. nodes \in Seq(Node) /\ e \in Node /\ DOMAIN nodes = 1..Len(nodes)
  BY DEF NodesInv, Node
<1>3. /\ nodes' \in Seq(Node)
      /\ Len(nodes') = Len(nodes) + 1
      /\ nodes'[k] = e
      /\ \A m \in 1..k - 1 : nodes'[m] = nodes[m]
      /\ \A m \in k + 1..Len(nodes) + 1 : nodes'[m] = nodes[m - 1]
  <2> HIDE DEF e
  <2>1. /\ InsertAt(nodes, k, e) \in Seq(Node)
        /\ Len(InsertAt(nodes, k, e)) = Len(nodes) + 1
        /\ InsertAt(nodes, k, e)[k] = e
        /\ \A m \in 1..k - 1 : InsertAt(nodes, k, e)[m] = nodes[m]
        /\ \A m \in k + 1..Len(nodes) + 1 : InsertAt(nodes, k, e)[m] = nodes[m - 1]
    <3>1. nodes \in Seq(Node) /\ k \in 1..Len(nodes) + 1 /\ e \in Node
      BY <1>2
    <3> QED
      BY <3>1, Inserted
  <2> QED
    BY <1>1, <2>1
<1>4. DOMAIN nodes' = 1..Len(nodes) + 1
  BY <1>3
<1>5. e.id = id /\ e.t = t
  OBVIOUS
<1> HIDE DEF e
<1>6. \A l \in DOMAIN nodes : nodes[l].id # id /\ (nodes[l].t = t => t \in twice')
  BY DEF Held, Ids
(* Where each node comes from. *)
<1>7. \A m \in DOMAIN nodes' :
        \/ m = k
        \/ m < k /\ m \in DOMAIN nodes /\ nodes'[m] = nodes[m]
        \/ m > k /\ m - 1 \in DOMAIN nodes /\ nodes'[m] = nodes[m - 1]
  BY <1>2, <1>3, <1>4
<1>8. Apart(nodes)'
  <2> SUFFICES ASSUME NEW m \in DOMAIN nodes', NEW n \in DOMAIN nodes', m # n
               PROVE  /\ nodes'[m].id # nodes'[n].id
                      /\ nodes'[m].t = nodes'[n].t => nodes'[m].t \in twice'
    BY DEF Apart
  <2>1. m \in Int /\ n \in Int /\ k \in Int
    BY <1>4
  <2>2. Apart(nodes)
    BY DEF NodesInv
  <2>3. CASE m = k
    BY <1>2, <1>3, <1>5, <1>6, <1>7, <2>1, <2>3
  <2>4. CASE n = k
    BY <1>2, <1>3, <1>5, <1>6, <1>7, <2>1, <2>4
  <2>5. CASE m # k /\ n # k
    BY <1>7, <2>1, <2>2, <2>5 DEF Apart
  <2> QED
    BY <2>3, <2>4, <2>5
<1>10. \A l \in DOMAIN nodes : \E m \in DOMAIN nodes' : nodes'[m] = nodes[l]
  <2> SUFFICES ASSUME NEW l \in DOMAIN nodes
               PROVE  \E m \in DOMAIN nodes' : nodes'[m] = nodes[l]
    OBVIOUS
  <2>1. CASE l < k
    BY <1>2, <1>3, <1>4, <2>1
  <2>2. CASE ~(l < k)
    <3>1. l + 1 \in DOMAIN nodes' /\ nodes'[l + 1] = nodes[l]
      BY <1>2, <1>3, <1>4, <2>2
    <3> QED
      BY <3>1
  <2> QED
    BY <2>1, <2>2
<1>11. k \in DOMAIN nodes'
  BY <1>2, <1>4
<1>12. \A m \in DOMAIN nodes' :
         nodes'[m] = e \/ \E l \in DOMAIN nodes : nodes'[m] = nodes[l]
  BY <1>3, <1>7
<1>13. \E m \in DOMAIN nodes' : nodes'[m] = e
  BY <1>3, <1>11
<1>14. Held' = Held \cup {t}
  BY <1>5, <1>10, <1>12, <1>13 DEF Held
<1>15. Ids(nodes') = Ids(nodes) \cup {id}
  BY <1>5, <1>10, <1>12, <1>13 DEF Ids
<1> QED
  BY <1>1, <1>2, <1>3, <1>8, <1>11, <1>14, <1>15 DEF NodesInv

(* A node that is erased is gone, and its object if it was there once. *)
LEMMA RemoveKeeps ==
  ASSUME NodesInv, NEW k \in DOMAIN nodes, nodes' = RemoveAt(nodes, k), twice' = twice
  PROVE  /\ NodesInv'
         /\ Held' \subseteq Held
         /\ nodes[k].t \in Held' => nodes[k].t \in twice
         /\ Ids(nodes') = Ids(nodes) \ {nodes[k].id}
<1>1. nodes \in Seq(Node) /\ DOMAIN nodes = 1..Len(nodes) /\ Apart(nodes)
  BY DEF NodesInv
<1>2. /\ nodes' \in Seq(Node)
      /\ Len(nodes') = Len(nodes) - 1
      /\ \A m \in 1..k - 1 : nodes'[m] = nodes[m]
      /\ \A m \in k..Len(nodes) - 1 : nodes'[m] = nodes[m + 1]
  <2>1. /\ RemoveAt(nodes, k) \in Seq(Node)
        /\ Len(RemoveAt(nodes, k)) = Len(nodes) - 1
        /\ \A m \in 1..k - 1 : RemoveAt(nodes, k)[m] = nodes[m]
        /\ \A m \in k..Len(nodes) - 1 : RemoveAt(nodes, k)[m] = nodes[m + 1]
    BY <1>1, Removed, ZenonT(30)
  <2> QED
    BY <2>1
<1>3. DOMAIN nodes' = 1..Len(nodes) - 1
  BY <1>2
<1>4. \A m \in DOMAIN nodes' :
        \/ m < k /\ m \in DOMAIN nodes /\ nodes'[m] = nodes[m]
        \/ m >= k /\ m + 1 \in DOMAIN nodes /\ nodes'[m] = nodes[m + 1]
  BY <1>1, <1>2, <1>3
<1>5. Apart(nodes)'
  <2> SUFFICES ASSUME NEW m \in DOMAIN nodes', NEW n \in DOMAIN nodes', m # n
               PROVE  /\ nodes'[m].id # nodes'[n].id
                      /\ nodes'[m].t = nodes'[n].t => nodes'[m].t \in twice
    BY DEF Apart
  <2>1. m \in Int /\ n \in Int /\ k \in Int
    BY <1>1, <1>3
  <2> QED
    BY <1>1, <1>4, <2>1 DEF Apart
<1>6. \A m \in DOMAIN nodes' : \E l \in DOMAIN nodes : l # k /\ nodes'[m] = nodes[l]
  BY <1>1, <1>3, <1>4
<1>7. \A l \in DOMAIN nodes : l # k => \E m \in DOMAIN nodes' : nodes'[m] = nodes[l]
  <2> SUFFICES ASSUME NEW l \in DOMAIN nodes, l # k
               PROVE  \E m \in DOMAIN nodes' : nodes'[m] = nodes[l]
    OBVIOUS
  <2>1. CASE l < k
    BY <1>1, <1>2, <1>3, <2>1
  <2>2. CASE l > k
    <3>1. l - 1 \in DOMAIN nodes' /\ nodes'[l - 1] = nodes[l]
      BY <1>1, <1>2, <1>3, <2>2
    <3> QED
      BY <3>1
  <2> QED
    BY <1>1, <2>1, <2>2
<1>8. Held' \subseteq Held /\ (nodes[k].t \in Held' => nodes[k].t \in twice)
  BY <1>1, <1>6, <1>7 DEF Held, Apart
<1>9. Ids(nodes') = Ids(nodes) \ {nodes[k].id}
  BY <1>1, <1>6, <1>7 DEF Ids, Apart
<1> QED
  BY <1>1, <1>2, <1>5, <1>8, <1>9 DEF NodesInv

(* Nodes kept are the nodes they were, in whatever order. *)
LEMMA KeptKeep ==
  ASSUME NodesInv, NEW S \in SUBSET DOMAIN nodes, NEW p \in SetToSeqs(S),
         nodes' = [k \in DOMAIN p |-> nodes[p[k]]], twice' = twice
  PROVE  /\ NodesInv'
         /\ Held' = {nodes[k].t : k \in S}
         /\ Ids(nodes') = {nodes[k].id : k \in S}
<1> DEFINE n == Cardinality(S)
<1>1. nodes \in Seq(Node) /\ DOMAIN nodes = 1..Len(nodes) /\ Len(nodes) \in Nat /\ Apart(nodes)
  BY DEF NodesInv
<1>2. IsFiniteSet(1..Len(nodes))
  BY <1>1, FS_Interval
<1>3. IsFiniteSet(S)
  BY <1>1, <1>2, FS_Subset
<1>4. n \in Nat
  BY <1>3, FS_CardinalityType
<1>5. IsFiniteSet(1..n) /\ Cardinality(1..n) = n
  BY <1>4, FS_Interval, SMTT(30)
<1>6. p \in [1..n -> S] /\ \A i, j \in 1..n : i # j => p[i] # p[j]
  BY <1>3 DEF SetToSeqs
<1>7. p \in Injection(1..n, S)
  BY <1>6 DEF Injection, IsInjective
<1>8. p \in Surjection(1..n, S)
  BY <1>3, <1>5, <1>7, FS_Injection
<1>9. \A l \in S : \E k \in 1..n : p[k] = l
  BY <1>8 DEF Surjection
<1>10. DOMAIN p = 1..n
  BY <1>6
<1> HIDE DEF n
<1>11. \A k \in 1..n : p[k] \in DOMAIN nodes /\ nodes'[k] = nodes[p[k]]
  BY <1>6, <1>10
<1>12. nodes' \in Seq(Node) /\ DOMAIN nodes' = 1..n
  BY <1>1, <1>4, <1>10, <1>11
<1>13. Apart(nodes)'
  <2> SUFFICES ASSUME NEW k \in 1..n, NEW l \in 1..n, k # l
               PROVE  /\ nodes'[k].id # nodes'[l].id
                      /\ nodes'[k].t = nodes'[l].t => nodes'[k].t \in twice
    BY <1>12 DEF Apart
  <2>1. p[k] \in DOMAIN nodes /\ p[l] \in DOMAIN nodes /\ p[k] # p[l]
    BY <1>6, <1>11
  <2>2. nodes'[k] = nodes[p[k]] /\ nodes'[l] = nodes[p[l]]
    BY <1>11
  <2> QED
    BY <1>1, <2>1, <2>2 DEF Apart
<1>14. ASSUME NEW k \in 1..n
       PROVE  \E l \in S : nodes'[k] = nodes[l]
  <2>1. p[k] \in S /\ nodes'[k] = nodes[p[k]]
    BY <1>6, <1>11
  <2> QED
    BY <2>1, Zenon
<1>15. ASSUME NEW l \in S
       PROVE  \E k \in 1..n : nodes'[k] = nodes[l]
  <2>1. PICK k \in 1..n : p[k] = l
    BY <1>9, Zenon
  <2>2. nodes'[k] = nodes[l]
    BY <1>11, <2>1, Zenon
  <2> QED
    BY <2>2, Zenon
<1>16. Held' = {nodes[k].t : k \in S} /\ Ids(nodes') = {nodes[k].id : k \in S}
  BY <1>12, <1>14, <1>15 DEF Held, Ids
<1> QED
  BY <1>12, <1>13, <1>16 DEF NodesInv

(* What is left when all nodes of one object are gone. *)
LEMMA OthersKept ==
  ASSUME NodesInv, NEW t, KeepOnly(DOMAIN nodes \ PlacesOf(t)), twice' = twice
  PROVE  /\ NodesInv'
         /\ Held' = Held \ {t}
         /\ Ids(nodes') = Ids(nodes) \ {nodes[k].id : k \in PlacesOf(t)}
<1> DEFINE S == DOMAIN nodes \ PlacesOf(t)
<1>1. PICK p \in SetToSeqs(S) : nodes' = [k \in DOMAIN p |-> nodes[p[k]]]
  BY DEF KeepOnly
<1>2. S \in SUBSET DOMAIN nodes
  OBVIOUS
<1>3. /\ NodesInv'
      /\ Held' = {nodes[k].t : k \in S}
      /\ Ids(nodes') = {nodes[k].id : k \in S}
  <2> HIDE DEF S
  <2> QED
    BY <1>1, <1>2, KeptKeep
<1>4. Held' = Held \ {t}
  BY <1>3 DEF Held, PlacesOf
<1>5. Ids(nodes') = Ids(nodes) \ {nodes[k].id : k \in PlacesOf(t)}
  BY <1>3 DEF Ids, PlacesOf, NodesInv, Apart
<1> QED
  BY <1>3, <1>4, <1>5

-----------------------------------------------------------------------------
(* Where cur may be. *)
LEMMA PlaceFound ==
  ASSUME NodesInv, AtNode
  PROVE  PlaceOf(cur) \in DOMAIN nodes /\ nodes[PlaceOf(cur)].id = cur
<1>1. \E k \in DOMAIN nodes : nodes[k].id = cur
  BY DEF AtNode, Ids
<1> QED
  BY <1>1 DEF PlaceOf

LEMMA AddressKnown ==
  ASSUME NodesInv, NEW k \in DOMAIN nodes
  PROVE  nodes[k].id \in Addresses
<1>1. nodes[k] \in Node
  BY DEF NodesInv
<1> QED
  BY <1>1 DEF Node

LEMMA NeighbourInList ==
  ASSUME NodesInv, NEW k \in DOMAIN nodes
  PROVE  /\ nodes[k].id \in Ids(nodes)
         /\ nodes[1].id \in Ids(nodes)
         /\ LastOf(nodes) \in Ids(nodes)
         /\ Behind(nodes, k) \in Ids(nodes) \cup {End}
         /\ k > 1 => nodes[k - 1].id \in Ids(nodes)
<1>1. DOMAIN nodes = 1..Len(nodes) /\ Len(nodes) \in Nat
  BY DEF NodesInv
<1>2. /\ 1 \in DOMAIN nodes /\ Len(nodes) \in DOMAIN nodes
      /\ k < Len(nodes) => k + 1 \in DOMAIN nodes
      /\ k > 1 => k - 1 \in DOMAIN nodes
  BY <1>1
<1>3. \A l \in DOMAIN nodes : nodes[l].id \in Ids(nodes)
  BY DEF Ids
<1> QED
  BY <1>2, <1>3 DEF LastOf, Behind

(* What is erased is deleted or not, and held only if it was there twice. *)
LEMMA EraseSound ==
  ASSUME ListInv, NEW k \in DOMAIN nodes, NEW byList \in BOOLEAN, Erase(k, byList),
         UNCHANGED <<unseen, twice>>,
         \/ taken' = taken
         \/ ~byList /\ taken' = taken \cup {nodes[k].t}
  PROVE  ListInv'
<1>1. /\ nodes' = RemoveAt(nodes, k)
      /\ cur' = IF cur = nodes[k].id THEN Behind(nodes, k) ELSE cur
      /\ deleted' = IF byList /\ autoDelete THEN deleted \cup {nodes[k].t} ELSE deleted
  BY DEF Erase
<1>2. /\ NodesInv'
      /\ Held' \subseteq Held
      /\ nodes[k].t \in Held' => nodes[k].t \in twice
      /\ Ids(nodes') = Ids(nodes) \ {nodes[k].id}
  BY <1>1, RemoveKeeps DEF ListInv
<1>3. nodes[k].t \in Held
  BY DEF Held
<1>4. cur' \in Ids(nodes') \cup {End} \cup unseen
  <2>1. CASE cur # nodes[k].id
    BY <1>1, <1>2, <2>1 DEF ListInv
  <2>2. CASE cur = nodes[k].id
    <3>1. Behind(nodes, k) \in Ids(nodes) \cup {End} /\ cur' = Behind(nodes, k)
      BY <1>1, <2>2, NeighbourInList DEF ListInv
    <3>2. Behind(nodes, k) # nodes[k].id
      <4>1. /\ nodes \in Seq(Node) /\ Apart(nodes) /\ DOMAIN nodes = 1..Len(nodes)
            /\ nodes[k].id \in Addresses
        BY AddressKnown DEF ListInv, NodesInv
      <4>2. k < Len(nodes) => k + 1 \in DOMAIN nodes /\ k + 1 # k
        BY <4>1
      <4> QED
        BY <4>1, <4>2, PtrListAssumption DEF Behind, Apart
    <3> QED
      BY <1>2, <3>1, <3>2
  <2> QED
    BY <2>1, <2>2
<1>5. taken' \cap Held' \subseteq twice
  BY <1>2 DEF ListInv
<1>6. deleted' \cap (Held' \cup taken') \subseteq twice
  BY <1>1, <1>2, <1>3 DEF ListInv
<1> QED
  BY <1>2, <1>4, <1>5, <1>6 DEF ListInv

(* What is pushed is held by the list, and noticed if it was before. *)
LEMMA PushSound ==
  ASSUME ListInv, NEW t \in Objects \ deleted,
         PushBack(t) \/ PushFront(t) \/ InsertInOrder(t)
  PROVE  ListInv'
<1>1. nodes \in Seq(Node) /\ Len(nodes) \in Nat /\ DOMAIN nodes = 1..Len(nodes)
  BY DEF ListInv, NodesInv
<1>2. PICK k \in 1..Len(nodes) + 1 : PushAt(k, t)
  <2>1. CASE PushBack(t) \/ PushFront(t)
    BY <1>1, <2>1 DEF PushBack, PushFront
  <2>2. CASE InsertInOrder(t)
    <3> DEFINE less == {k \in DOMAIN nodes : <<nodes[k].t, t>> \in Less}
    <3>1. PushAt(Cardinality(less) + 1, t)
      BY <2>2 DEF InsertInOrder
    <3>2. IsFiniteSet(1..Len(nodes)) /\ Cardinality(1..Len(nodes)) = Len(nodes)
      BY <1>1, FS_Interval
    <3>3. less \subseteq 1..Len(nodes)
      BY <1>1
    <3>4. IsFiniteSet(less) /\ Cardinality(less) <= Len(nodes)
      BY <3>2, <3>3, FS_Subset
    <3>5. Cardinality(less) \in Nat
      BY <3>4, FS_CardinalityType
    <3> HIDE DEF less
    <3> QED
      BY <1>1, <3>1, <3>4, <3>5
  <2> QED
    BY <2>1, <2>2
<1>3. PICK id \in Addresses \ Ids(nodes) :
        nodes' = InsertAt(nodes, k, [id |-> id, t |-> t]) /\ unseen' = unseen \ {id}
  BY <1>2 DEF PushAt
<1>4. taken' = taken \ {t} /\ twice' = twice \cup (Held \cap {t})
  BY <1>2 DEF PushAt
<1>5. /\ NodesInv' /\ nodes' # <<>>
      /\ Held' = Held \cup {t}
      /\ Ids(nodes') = Ids(nodes) \cup {id}
  BY <1>3, <1>4, PushKeeps DEF ListInv
<1>6. nodes'[1].id \in Ids(nodes') /\ LastOf(nodes') \in Ids(nodes')
  <2>1. nodes' \in Seq(Node) /\ DOMAIN nodes' = 1..Len(nodes') /\ Len(nodes') \in Nat
    BY <1>5 DEF NodesInv
  <2>2. 1 \in DOMAIN nodes' /\ Len(nodes') \in DOMAIN nodes'
    BY <1>5, <2>1
  <2> QED
    BY <2>2 DEF Ids, LastOf
<1>7. cur' \in Ids(nodes') \cup {End} \cup unseen'
  BY <1>3, <1>5, <1>6 DEF PushBack, PushFront, InsertInOrder, ListInv
<1>8. deleted' = deleted
  BY DEF PushBack, PushFront, InsertInOrder
<1> QED
  BY <1>4, <1>5, <1>7, <1>8 DEF ListInv

LEMMA StepSound == ListInv /\ [PtrListNext]_listOfPtrVars => ListInv'
<1> SUFFICES ASSUME ListInv, [PtrListNext]_listOfPtrVars PROVE ListInv'
  OBVIOUS
<1>1. NodesInv /\ nodes \in Seq(Node) /\ Len(nodes) \in Nat /\ DOMAIN nodes = 1..Len(nodes)
  BY DEF ListInv, NodesInv
<1>2. ASSUME NEW t \in Objects \ deleted, PushBack(t) \/ PushFront(t) \/ InsertInOrder(t)
      PROVE  ListInv'
  BY <1>2, PushSound
<1>3. ASSUME NEW t \in Objects, RemoveItem(t) PROVE ListInv'
  <2>1. PICK first \in PlacesOf(t) :
          /\ KeepOnly(DOMAIN nodes \ PlacesOf(t))
          /\ cur' = IF cur = nodes[first].id THEN Behind(nodes, first) ELSE cur
          /\ deleted' = IF autoDelete THEN deleted \cup {t} ELSE deleted
          /\ unseen' = unseen \cup {nodes[k].id : k \in PlacesOf(t) \ {first}}
    BY <1>3 DEF RemoveItem
  <2>2. UNCHANGED <<taken, twice>>
    BY <1>3 DEF RemoveItem
  <2>3. /\ NodesInv'
        /\ Held' = Held \ {t}
        /\ Ids(nodes') = Ids(nodes) \ {nodes[k].id : k \in PlacesOf(t)}
    BY <1>1, <2>1, <2>2, OthersKept
  <2>4. first \in DOMAIN nodes /\ nodes[first].t = t /\ t \in Held
    BY DEF PlacesOf, Held
  <2>5. Behind(nodes, first) # nodes[first].id
    <3>1. Apart(nodes) /\ nodes[first].id \in Addresses
      BY <1>1, <2>4, AddressKnown DEF NodesInv
    <3>2. first < Len(nodes) => first + 1 \in DOMAIN nodes /\ first + 1 # first
      BY <1>1, <2>4
    <3> QED
      BY <2>4, <3>1, <3>2, PtrListAssumption DEF Behind, Apart
  <2>6. Behind(nodes, first) \in Ids(nodes) \cup {End}
    BY <1>1, <2>4, NeighbourInList
  <2>7. cur' \in Ids(nodes) \cup {End} \cup unseen /\ cur' # nodes[first].id
    BY <2>1, <2>5, <2>6 DEF ListInv
  <2>8. cur' \in Ids(nodes') \cup {End} \cup unseen'
    BY <2>1, <2>3, <2>7
  <2> QED
    BY <2>1, <2>2, <2>3, <2>4, <2>8 DEF ListInv
<1>4. ASSUME NEW t \in Objects, TakeNodes(t) PROVE ListInv'
  <2>1. /\ PlacesOf(t) # {} /\ KeepOnly(DOMAIN nodes \ PlacesOf(t))
        /\ taken' = taken \cup {t}
        /\ unseen' = unseen \cup {nodes[k].id : k \in PlacesOf(t)}
        /\ UNCHANGED <<cur, deleted, twice>>
    BY <1>4 DEF TakeNodes
  <2>2. /\ NodesInv'
        /\ Held' = Held \ {t}
        /\ Ids(nodes') = Ids(nodes) \ {nodes[k].id : k \in PlacesOf(t)}
    BY <1>1, <2>1, OthersKept
  <2>3. t \in Held
    BY <2>1 DEF Held, PlacesOf
  <2>4. cur' \in Ids(nodes') \cup {End} \cup unseen'
    BY <2>1, <2>2 DEF ListInv
  <2> QED
    BY <2>1, <2>2, <2>3, <2>4 DEF ListInv
<1>5. ASSUME NEW t \in Objects, SetCurrent(t) PROVE ListInv'
  <2>1. cur' \in Ids(nodes)
    BY <1>5 DEF SetCurrent, PlacesOf, Ids
  <2> QED
    BY <1>5, <2>1 DEF SetCurrent, ListInv, NodesInv, Apart, Held, Ids
<1>6. CASE PopBack \/ PopFront
  <2>1. nodes # <<>>
    BY <1>6 DEF PopBack, PopFront
  <2>2. 1 \in DOMAIN nodes /\ Len(nodes) \in DOMAIN nodes
    BY <1>1, <2>1
  <2>3. PICK k \in DOMAIN nodes : Erase(k, TRUE)
    BY <1>6, <2>2 DEF PopBack, PopFront
  <2>4. UNCHANGED <<taken, unseen, twice>>
    BY <1>6 DEF PopBack, PopFront
  <2> QED
    BY <2>3, <2>4, EraseSound
<1>7. CASE Clear
  <2>1. nodes' = <<>> /\ UNCHANGED <<taken, unseen, twice>>
    BY <1>7 DEF Clear
  <2>5. cur' \in {End} \cup unseen
    BY <1>7 DEF Clear, AtNode, ListInv
  <2>2. deleted' = deleted \/ deleted' = deleted \cup Held
    BY <1>7 DEF Clear
  <2>3. Held' = {}
    BY <2>1 DEF Held
  <2>4. NodesInv'
    BY <2>1 DEF ListInv, NodesInv, Apart
  <2> QED
    BY <2>1, <2>2, <2>3, <2>4, <2>5 DEF ListInv
<1>8. CASE TakeCurrent
  <2> DEFINE k == PlaceOf(cur)
  <2>1. k \in DOMAIN nodes
    BY <1>1, <1>8, PlaceFound DEF TakeCurrent
  <2>2. Erase(k, FALSE) /\ UNCHANGED <<unseen, twice>> /\ taken' = taken \cup {nodes[k].t}
    BY <1>8 DEF TakeCurrent
  <2> HIDE DEF k
  <2> QED
    BY <2>1, <2>2, EraseSound
<1>9. CASE SortNodes
  <2>1. PICK p \in SetToSeqs(DOMAIN nodes) : nodes' = [k \in DOMAIN nodes |-> nodes[p[k]]]
    BY <1>9 DEF SortNodes
  <2>2. UNCHANGED <<cur, deleted, taken, unseen, twice>>
    BY <1>9 DEF SortNodes
  <2>3. DOMAIN p = DOMAIN nodes
    <3>1. Cardinality(1..Len(nodes)) = Len(nodes)
      BY <1>1, FS_Interval
    <3> QED
      BY <1>1, <3>1 DEF SetToSeqs
  <2>4. NodesInv' /\ Held' = Held /\ Ids(nodes') = Ids(nodes)
    BY <1>1, <2>1, <2>2, <2>3, KeptKeep DEF Held, Ids
  <2> QED
    BY <2>2, <2>4 DEF ListInv
<1>10. CASE MoveCurrent
  <2>1. cur' \in Ids(nodes) \cup {End} \cup unseen
    <3>1. ASSUME nodes # <<>>
          PROVE  nodes[1].id \in Ids(nodes) /\ LastOf(nodes) \in Ids(nodes)
      <4>1. 1 \in DOMAIN nodes
        BY <1>1, <3>1
      <4> QED
        BY <1>1, <4>1, NeighbourInList
    <3>2. CASE ToFirst \/ ToLast
      BY <3>1, <3>2 DEF ToFirst, ToLast
    <3>3. CASE Forward
      BY <1>1, <3>3, PlaceFound, NeighbourInList DEF Forward
    <3>4. CASE Back
      <4>1. CASE cur = End
        BY <3>1, <3>4, <4>1 DEF Back
      <4>2. CASE cur # End /\ AtNode
        <5> DEFINE k == PlaceOf(cur)
        <5>1. k \in DOMAIN nodes
          BY <1>1, <4>2, PlaceFound
        <5>2. cur' = IF k = 1 THEN cur ELSE nodes[k - 1].id
          BY <3>4, <4>2 DEF Back
        <5> HIDE DEF k
        <5>3. k # 1 => k > 1
          BY <1>1, <5>1
        <5>4. k > 1 => nodes[k - 1].id \in Ids(nodes)
          BY <1>1, <5>1, NeighbourInList
        <5> QED
          BY <5>2, <5>3, <5>4 DEF ListInv
      <4> QED
        BY <3>4, <4>1, <4>2 DEF Back
    <3> QED
      BY <1>10, <3>2, <3>3, <3>4 DEF MoveCurrent
  <2> QED
    BY <1>10, <2>1 DEF MoveCurrent, ListInv, NodesInv, Apart, Held, Ids
<1>11. CASE SetAutoDelete \/ UNCHANGED listOfPtrVars
  BY <1>11 DEF SetAutoDelete, listOfPtrVars, ListInv, NodesInv, Apart, Held, Ids
<1> QED
  BY <1>2, <1>3, <1>4, <1>5, <1>6, <1>7, <1>8, <1>9, <1>10, <1>11 DEF PtrListNext

(* eptrlist.h: whatever is pushed, inserted in order, sorted, erased and     *)
(* taken, cur is at a node of the list, at its end, or where a node was      *)
(* freed without a look at it; and what the list has deleted is neither in   *)
(* it nor with a caller, unless it was in the list more than once.           *)
THEOREM ListAlwaysSound == PtrListSpec => []ListSound
<1>1. PtrListInit => ListInv
  BY DEF PtrListInit, ListInv, NodesInv, Apart, Held, Ids
<1>2. ListInv => ListSound
  BY DEF ListInv, ListSound, CurrentInList, NoneDeletedTwice
<1> QED
  BY <1>1, <1>2, StepSound, PTL DEF PtrListSpec
-----------------------------------------------------------------------------
(* The string buffer: what was appended, and zeros behind it. *)
StringInv ==
  /\ chars \in Seq(Chars) /\ size = Len(chars)
  /\ buf \in Seq(Chars \cup {Nul})
  /\ StringTerminated

LEMMA RoomMade ==
  ASSUME StringInv, NEW n \in Nat, size <= n, NEW by \in Nat, n < Len(buf) + by
  PROVE  /\ Room(n, by) \in Seq(Chars \cup {Nul})
         /\ Len(Room(n, by)) \in Nat /\ Len(Room(n, by)) > n
         /\ \A k \in 1..Len(Room(n, by)) :
              Room(n, by)[k] = IF k <= size THEN chars[k] ELSE Nul
<1>1. /\ Len(buf) \in Nat /\ size \in Nat /\ size < Len(buf)
      /\ \A k \in 1..Len(buf) : buf[k] \in Chars \cup {Nul}
      /\ \A k \in 1..Len(buf) : buf[k] = IF k <= size THEN chars[k] ELSE Nul
  BY DEF StringInv, StringTerminated
<1>2. CASE n > Len(buf) - 1
  <2> DEFINE r == [k \in 1..Len(buf) + by |-> IF k <= size THEN buf[k] ELSE Nul]
  <2>1. Room(n, by) = r
    BY <1>2 DEF Room
  <2>2. \A k \in 1..Len(buf) + by : (IF k <= size THEN buf[k] ELSE Nul) \in Chars \cup {Nul}
    BY <1>1
  <2>3. r \in Seq(Chars \cup {Nul}) /\ Len(r) = Len(buf) + by
    BY <1>1, <2>2
  <2>4. \A k \in 1..Len(r) : r[k] = IF k <= size THEN chars[k] ELSE Nul
    BY <1>1, <2>3
  <2> HIDE DEF r
  <2> QED
    BY <1>1, <2>1, <2>3, <2>4
<1>3. CASE ~(n > Len(buf) - 1)
  <2>1. Room(n, by) = buf
    BY <1>3 DEF Room
  <2> QED
    BY <1>1, <1>3, <2>1 DEF StringInv
<1> QED
  BY <1>2, <1>3

LEMMA CharAppended ==
  ASSUME StringInv, NEW c \in Chars, AppendChar(c)
  PROVE  StringInv'
<1> DEFINE n    == size + 1
           by   == (Len(buf) * 3) \div 2 + 1
           room == Room(n, by)
<1>1. /\ Len(buf) \in Nat /\ size \in Nat /\ size < Len(buf) /\ size = Len(chars)
      /\ chars \in Seq(Chars)
  BY DEF StringInv, StringTerminated
<1>2. n \in Nat /\ size <= n /\ by \in Nat /\ n < Len(buf) + by
  BY <1>1
<1>3. /\ room \in Seq(Chars \cup {Nul})
      /\ Len(room) \in Nat /\ Len(room) > size + 1
      /\ \A k \in 1..Len(room) : room[k] = IF k <= size THEN chars[k] ELSE Nul
  <2>1. Len(room) > n => Len(room) > size + 1
    OBVIOUS
  <2> HIDE DEF n, by
  <2> QED
    BY <1>2, <2>1, RoomMade
<1>4. /\ buf' = [room EXCEPT ![size + 1] = c] /\ size' = size + 1 /\ chars' = Append(chars, c)
  BY DEF AppendChar
<1> HIDE DEF room
<1>5. /\ chars' \in Seq(Chars) /\ Len(chars') = size + 1 /\ chars'[size + 1] = c
      /\ \A k \in 1..size : chars'[k] = chars[k]
  BY <1>1, <1>4
<1>6. /\ buf' \in Seq(Chars \cup {Nul}) /\ Len(buf') = Len(room)
      /\ \A k \in 1..Len(room) : buf'[k] = IF k = size + 1 THEN c ELSE room[k]
  BY <1>1, <1>3, <1>4
<1>7. \A k \in 1..Len(buf') : buf'[k] = IF k <= size' THEN chars'[k] ELSE Nul
  BY <1>1, <1>3, <1>4, <1>5, <1>6
<1> QED
  BY <1>3, <1>4, <1>5, <1>6, <1>7 DEF StringInv, StringTerminated

LEMMA StringAppended ==
  ASSUME StringInv, NEW s \in Seq(Chars), AppendString(s)
  PROVE  StringInv'
<1> DEFINE n    == size + Len(s)
           by   == Len(s)
           room == Room(n, by)
<1>1. /\ Len(buf) \in Nat /\ size \in Nat /\ size < Len(buf) /\ size = Len(chars)
      /\ chars \in Seq(Chars) /\ Len(s) \in Nat
      /\ \A k \in 1..Len(s) : s[k] \in Chars
  BY DEF StringInv, StringTerminated
<1>2. /\ room \in Seq(Chars \cup {Nul})
      /\ Len(room) \in Nat /\ Len(room) > size + Len(s)
      /\ \A k \in 1..Len(room) : room[k] = IF k <= size THEN chars[k] ELSE Nul
  <2>1. n \in Nat /\ size <= n /\ by \in Nat /\ n < Len(buf) + by
    BY <1>1
  <2>2. Len(room) > n => Len(room) > size + Len(s)
    OBVIOUS
  <2> HIDE DEF n, by
  <2> QED
    BY <2>1, <2>2, RoomMade
<1>3. /\ buf' = [k \in DOMAIN room |-> IF k \in size + 1..size + Len(s) THEN s[k - size]
                                      ELSE room[k]]
      /\ size' = size + Len(s) /\ chars' = chars \o s
  BY DEF AppendString
<1> HIDE DEF room
<1>4. /\ chars' \in Seq(Chars) /\ Len(chars') = size + Len(s)
      /\ \A k \in 1..size : chars'[k] = chars[k]
      /\ \A k \in size + 1..size + Len(s) : chars'[k] = s[k - size]
  BY <1>1, <1>3
<1>5. DOMAIN room = 1..Len(room) /\ \A k \in 1..Len(room) : room[k] \in Chars \cup {Nul}
  BY <1>2
<1>6. \A k \in DOMAIN room :
        (IF k \in size + 1..size + Len(s) THEN s[k - size] ELSE room[k]) \in Chars \cup {Nul}
  BY <1>1, <1>5
<1>7. /\ buf' \in Seq(Chars \cup {Nul}) /\ Len(buf') = Len(room)
      /\ \A k \in 1..Len(room) :
           buf'[k] = IF k \in size + 1..size + Len(s) THEN s[k - size] ELSE room[k]
  BY <1>2, <1>3, <1>5, <1>6
<1>8. \A k \in 1..Len(buf') : buf'[k] = IF k <= size' THEN chars'[k] ELSE Nul
  <2> SUFFICES ASSUME NEW k \in 1..Len(buf')
               PROVE  buf'[k] = IF k <= size' THEN chars'[k] ELSE Nul
    OBVIOUS
  <2>1. CASE k <= size
    BY <1>1, <1>2, <1>3, <1>4, <1>7, <2>1
  <2>2. CASE k \in size + 1..size + Len(s)
    BY <1>1, <1>2, <1>3, <1>4, <1>7, <2>2
  <2>3. CASE k > size + Len(s)
    BY <1>1, <1>2, <1>3, <1>4, <1>7, <2>3
  <2> QED
    BY <1>1, <1>2, <1>7, <2>1, <2>2, <2>3
<1> QED
  BY <1>2, <1>3, <1>4, <1>7, <1>8 DEF StringInv, StringTerminated

LEMMA NewString ==
  ASSUME NEW n \in Nat, n > 0, buf' = [k \in 1..n |-> Nul], size' = 0, chars' = <<>>
  PROVE  StringInv'
<1>1. buf' \in Seq(Chars \cup {Nul}) /\ Len(buf') = n /\ \A k \in 1..n : buf'[k] = Nul
  OBVIOUS
<1> QED
  BY <1>1 DEF StringInv, StringTerminated

LEMMA StringStep == StringInv /\ [ListNext \/ StringNext]_bufferVars => StringInv'
<1> SUFFICES ASSUME StringInv, [ListNext \/ StringNext]_bufferVars PROVE StringInv'
  OBVIOUS
<1>1. CASE UNCHANGED stringVars
  BY <1>1 DEF StringInv, StringTerminated, stringVars
<1>2. CASE ListNext \/ UNCHANGED bufferVars
  BY <1>1, <1>2 DEF ListNext, AddAttr, RemoveAttr, bufferVars, stringVars
<1>3. ASSUME NEW c \in Chars, AppendChar(c) \/ AppendString(<<c>>) PROVE StringInv'
  <2>1. <<c>> \in Seq(Chars)
    OBVIOUS
  <2> QED
    BY <1>3, <2>1, CharAppended, StringAppended
<1>4. ASSUME NEW c \in Chars, NEW d \in Chars, NEW n \in {7, 8, 10},
             AppendString([k \in 1..n |-> IF k = n THEN d ELSE c])
      PROVE  StringInv'
  <2>1. [k \in 1..n |-> IF k = n THEN d ELSE c] \in Seq(Chars)
    <3>1. n \in Nat
      OBVIOUS
    <3> HIDE <3>1
    <3> QED
      BY <3>1
  <2> QED
    BY <1>4, <2>1, StringAppended
<1>5. CASE TakeBuffer
  <2> DEFINE n == 8
  <2>1. n \in Nat /\ n > 0
    OBVIOUS
  <2>2. buf' = [k \in 1..n |-> Nul] /\ size' = 0 /\ chars' = <<>>
    BY <1>5 DEF TakeBuffer
  <2> HIDE DEF n
  <2> QED
    BY <2>1, <2>2, NewString
<1>6. CASE Clean
  <2>1. Len(buf) \in Nat /\ Len(buf) > 0 /\ DOMAIN buf = 1..Len(buf)
    BY DEF StringInv, StringTerminated
  <2> QED
    BY <1>6, <2>1, NewString DEF Clean
<1> QED
  BY <1>2, <1>3, <1>4, <1>5, <1>6 DEF StringNext
-----------------------------------------------------------------------------
(* A list in use: its first n cells hold what f says. *)
Holding(list, V, n, f) ==
  /\ list = [count |-> n, first |-> list.first]
  /\ list.first \in Seq(V \cup {Wild, NULL})
  /\ n \in Nat /\ n <= Len(list.first)
  /\ \A k \in 1..n : f[k] \in V /\ list.first[k] = f[k]

LEMMA NewHolding == ASSUME NEW V, NEW f PROVE Holding(NewList(0), V, 0, f)
<1> DEFINE first == [k \in 1..2 |-> Wild]
<1>1. NewList(0) = [count |-> 0, first |-> first]
  BY DEF NewList
<1>2. first \in Seq(V \cup {Wild, NULL}) /\ Len(first) = 2
  OBVIOUS
<1> HIDE DEF first
<1> QED
  BY <1>1, <1>2 DEF Holding

LEMMA AppendHolding ==
  ASSUME NEW list, NEW V, NEW n, NEW f, Holding(list, V, n, f), NEW v \in V, v # NULL,
         NEW g, g[n + 1] = v, \A k \in 1..n : g[k] = f[k]
  PROVE  Holding(ListAppend(list, v), V, n + 1, g)
<1> DEFINE S     == V \cup {Wild, NULL}
           most   == Len(list.first)
           more  == [k \in 1..((most * 3) \div 2 + 1 - most) |-> NULL]
           grown == IF list.count < most THEN list.first ELSE list.first \o more
           first == [grown EXCEPT ![n + 1] = v]
<1>1. /\ list.first \in Seq(S) /\ most \in Nat /\ n \in Nat /\ n <= most /\ list.count = n
      /\ \A k \in 1..n : list.first[k] = f[k] /\ f[k] \in V
  BY DEF Holding
<1>2. (most * 3) \div 2 + 1 - most \in Nat /\ (most * 3) \div 2 + 1 - most > 0
  <2>1. most \in Nat
    BY <1>1
  <2> HIDE DEF most
  <2> QED
    BY <2>1
<1>3. more \in Seq(S) /\ Len(more) > 0
  <2> DEFINE m == (most * 3) \div 2 + 1 - most
  <2>1. m \in Nat /\ m > 0
    BY <1>2
  <2> HIDE DEF m
  <2>2. [k \in 1..m |-> NULL] \in Seq(S) /\ Len([k \in 1..m |-> NULL]) = m
    BY <2>1
  <2> QED
    BY <2>1, <2>2 DEF m
<1>4. ListAppend(list, v) = [count |-> n + 1, first |-> first]
  BY <1>1 DEF ListAppend
<1> HIDE DEF more, S
<1>5. /\ grown \in Seq(S) /\ Len(grown) > n
      /\ \A k \in 1..n : grown[k] = list.first[k]
  BY <1>1, <1>3
<1> HIDE DEF grown, most
<1>6. v \in S
  BY DEF S
<1>7. /\ first \in Seq(S) /\ Len(first) = Len(grown)
      /\ first[n + 1] = v /\ \A k \in 1..n : first[k] = grown[k]
  BY <1>1, <1>5, <1>6
<1> HIDE DEF first
<1>8. \A k \in 1..n + 1 : g[k] \in V /\ first[k] = g[k]
  <2> TAKE k \in 1..n + 1
  <2>1. CASE k = n + 1
    BY <1>7, <2>1
  <2>2. CASE k # n + 1
    <3>1. k \in 1..n
      BY <1>1, <2>2
    <3> QED
      BY <1>1, <1>5, <1>7, <3>1
  <2> QED
    BY <2>1, <2>2
<1> QED
  BY <1>1, <1>4, <1>5, <1>7, <1>8 DEF Holding, S

LEMMA TakeHolding ==
  ASSUME NEW list, NEW V, NEW n, NEW f, Holding(list, V, n, f), NEW at \in 0..n - 1,
         NEW g, \A k \in 1..at : g[k] = f[k], \A k \in at + 1..n - 1 : g[k] = f[k + 1]
  PROVE  Holding(TakeItem(list, at), V, n - 1, g)
<1> DEFINE S     == V \cup {Wild, NULL}
           most   == Len(list.first)
           first == [k \in 1..most |-> IF k > at /\ k < most THEN list.first[k + 1]
                                      ELSE IF at + 1 = most /\ k = most THEN NULL
                                      ELSE list.first[k]]
<1>1. /\ list.first \in Seq(S) /\ most \in Nat /\ n \in Nat /\ n <= most /\ list.count = n
      /\ \A k \in 1..n : list.first[k] = f[k] /\ f[k] \in V
      /\ \A k \in 1..most : list.first[k] \in S
  BY DEF Holding
<1>2. ItemAt(list, at) = at
  BY DEF ItemAt
<1>3. TakeItem(list, at) = [count |-> n - 1, first |-> first]
  BY <1>1, <1>2 DEF TakeItem
<1>4. first \in Seq(S) /\ Len(first) = most
  <2>1. NULL \in S
    OBVIOUS
  <2> HIDE DEF S
  <2>2. \A k \in 1..most : (IF k > at /\ k < most THEN list.first[k + 1]
                           ELSE IF at + 1 = most /\ k = most THEN NULL
                           ELSE list.first[k]) \in S
    BY <1>1, <2>1
  <2> HIDE DEF most
  <2> QED
    BY <1>1, <2>2
<1>5. \A k \in 1..n - 1 : g[k] \in V /\ first[k] = g[k]
  <2> TAKE k \in 1..n - 1
  <2>1. CASE k <= at
    <3>1. k \in 1..at /\ k \in 1..n /\ k \in 1..most
      BY <1>1, <2>1
    <3>2. first[k] = list.first[k]
      BY <1>1, <2>1, <3>1
    <3> HIDE DEF first
    <3> QED
      BY <1>1, <3>1, <3>2
  <2>2. CASE ~(k <= at)
    <3>1. k \in at + 1..n - 1 /\ k + 1 \in 1..n /\ k \in 1..most /\ k > at /\ k < most
      BY <1>1, <2>2
    <3>2. first[k] = list.first[k + 1]
      BY <3>1
    <3> HIDE DEF first
    <3> QED
      BY <1>1, <3>1, <3>2
  <2> QED
    BY <2>1, <2>2
<1> HIDE DEF first
<1> QED
  BY <1>1, <1>3, <1>4, <1>5 DEF Holding, S

LEMMA ItemHolding ==
  ASSUME NEW list, NEW V, NEW n, NEW f, Holding(list, V, n, f), NEW k \in 1..n
  PROVE  GetItem(list, k - 1) = f[k]
<1>1. list.count = n /\ n \in Nat /\ list.first[k] = f[k]
  BY DEF Holding
<1>2. ItemAt(list, k - 1) = k - 1
  BY <1>1 DEF ItemAt
<1> QED
  BY <1>1, <1>2 DEF GetItem

LEMMA NoItemHolding ==
  ASSUME NEW list, NEW V, NEW n, NEW f, Holding(list, V, n, f)
  PROVE  GetItem(list, n) = NULL
BY DEF Holding, GetItem, ItemAt
-----------------------------------------------------------------------------
(* Attribute k of the tag is in cell k of either list. *)
NamesOf(pairs) == [k \in DOMAIN pairs |-> pairs[k][1]]
ValuesOf(pairs) == [k \in DOMAIN pairs |-> pairs[k][2]]

PairsInv ==
  /\ attrs \in Seq(Names \X Values)
  /\ Holding(names, Names, Len(attrs), NamesOf(attrs))
  /\ Holding(values, Values, Len(attrs), ValuesOf(attrs))

(* The cells of a name. *)
Same(n) == {k \in DOMAIN attrs : attrs[k][1] = n}

LEMMA IndexIs ==
  ASSUME PairsInv, NEW n
  PROVE  /\ Same(n) = {} => IndexOf(n) = Len(attrs)
         /\ Same(n) # {} => /\ Min(Same(n)) \in Same(n)
                            /\ IndexOf(n) = Min(Same(n)) - 1
<1> DEFINE len == Len(attrs)
           found == {k \in 1..names.count : GetItem(names, k - 1) = n}
           S     == found \cup {names.count + 1}
<1>1. /\ len \in Nat /\ names.count = len /\ DOMAIN attrs = 1..len
      /\ Holding(names, Names, len, NamesOf(attrs))
  BY DEF PairsInv, Holding
<1>2. \A k \in 1..len : GetItem(names, k - 1) = attrs[k][1]
  <2> TAKE k \in 1..len
  <2>1. NamesOf(attrs)[k] = attrs[k][1]
    BY <1>1 DEF NamesOf
  <2> HIDE DEF len
  <2> QED
    BY <1>1, <2>1, ItemHolding
<1>3. found = Same(n)
  BY <1>1, <1>2 DEF Same
<1>4. S = Same(n) \cup {len + 1}
  BY <1>1, <1>3
<1>5. IndexOf(n) = Min(S) - 1
  BY DEF IndexOf
<1> HIDE DEF S, found
<1>6. S \in SUBSET Nat /\ S # {}
  BY <1>1, <1>4 DEF Same
<1>7. Min(S) \in S /\ \A y \in S : Min(S) <= y
  BY <1>6, MinNat
<1>8. CASE Same(n) = {}
  BY <1>1, <1>4, <1>5, <1>7, <1>8
<1>9. CASE Same(n) # {}
  <2>1. Same(n) \in SUBSET Nat /\ \A k \in Same(n) : k <= len
    BY <1>1 DEF Same
  <2>2. Min(Same(n)) \in Same(n) /\ \A y \in Same(n) : Min(Same(n)) <= y
    BY <1>9, <2>1, MinNat
  <2> DEFINE m == Min(Same(n))
             l == Min(S)
  <2>3. m \in Same(n) /\ m \in Nat /\ m <= len /\ m \in S
    BY <1>4, <2>1, <2>2
  <2>4. l <= m /\ l \in S /\ l \in Nat
    BY <1>6, <1>7, <2>3
  <2>5. m <= l
    <3>1. CASE l \in Same(n)
      BY <2>2, <3>1
    <3>2. CASE l = len + 1
      BY <1>1, <2>3, <3>2
    <3> HIDE DEF l, m
    <3> QED
      BY <1>4, <2>4, <3>1, <3>2
  <2>6. m = l
    BY <2>3, <2>4, <2>5
  <2> QED
    BY <1>5, <2>2, <2>6
<1> QED
  BY <1>8, <1>9

LEMMA InvPairs == PairsInv => AttributesPaired
<1> SUFFICES ASSUME PairsInv PROVE AttributesPaired
  OBVIOUS
<1>1. /\ Len(attrs) \in Nat /\ DOMAIN attrs = 1..Len(attrs) /\ attrs \in Seq(Names \X Values)
      /\ Holding(names, Names, Len(attrs), NamesOf(attrs))
      /\ Holding(values, Values, Len(attrs), ValuesOf(attrs))
  BY DEF PairsInv
<1>2. names.count = Len(attrs) /\ values.count = Len(attrs)
  BY <1>1 DEF Holding
<1>3. ASSUME NEW k \in 1..Len(attrs)
      PROVE  GetItem(names, k - 1) = attrs[k][1] /\ GetItem(values, k - 1) = attrs[k][2]
  <2>1. NamesOf(attrs)[k] = attrs[k][1] /\ ValuesOf(attrs)[k] = attrs[k][2]
    BY <1>1 DEF NamesOf, ValuesOf
  <2> DEFINE l == Len(attrs)
  <2>2. /\ k \in 1..l /\ Holding(names, Names, l, NamesOf(attrs))
        /\ Holding(values, Values, l, ValuesOf(attrs))
    BY <1>1
  <2> HIDE DEF l
  <2> QED
    BY <2>1, <2>2, ItemHolding
<1>4. \A k \in DOMAIN attrs : <<GetItem(names, k - 1), GetItem(values, k - 1)>> = attrs[k]
  BY <1>1, <1>3
<1>5. ASSUME NEW n \in Names
      PROVE  GetAttrValue(n) = IF Same(n) = {} THEN NULL ELSE attrs[Min(Same(n))][2]
  <2>1. CASE Same(n) = {}
    BY <1>2, <2>1, IndexIs DEF GetAttrValue
  <2>2. CASE Same(n) # {}
    <3> DEFINE m == Min(Same(n))
    <3>1. m \in Same(n) /\ IndexOf(n) = m - 1
      BY <2>2, IndexIs
    <3>2. m \in 1..Len(attrs)
      BY <1>1, <3>1 DEF Same
    <3> HIDE DEF m
    <3>3. m - 1 # Len(attrs)
      BY <1>1, <3>2
    <3>4. GetAttrValue(n) = attrs[m][2]
      BY <1>2, <1>3, <3>1, <3>2, <3>3 DEF GetAttrValue
    <3> QED
      BY <2>2, <3>4 DEF m
  <2> QED
    BY <2>1, <2>2
<1> QED
  BY <1>2, <1>4, <1>5 DEF AttributesPaired, Same

LEMMA PairsStep == PairsInv /\ [ListNext \/ StringNext]_bufferVars => PairsInv'
<1> SUFFICES ASSUME PairsInv, [ListNext \/ StringNext]_bufferVars PROVE PairsInv'
  OBVIOUS
<1> DEFINE n == Len(attrs)
<1>1. /\ n \in Nat /\ DOMAIN attrs = 1..n /\ attrs \in Seq(Names \X Values)
      /\ Holding(names, Names, n, NamesOf(attrs))
      /\ Holding(values, Values, n, ValuesOf(attrs))
  BY DEF PairsInv
<1>2. CASE UNCHANGED listVars
  BY <1>2 DEF PairsInv, listVars
<1>3. ASSUME NEW name \in Names, NEW value \in Values, AddAttr(name, value) PROVE PairsInv'
  <2>1. /\ names' = ListAppend(names, name) /\ values' = ListAppend(values, value)
        /\ attrs' = Append(attrs, <<name, value>>)
    BY <1>3 DEF AddAttr
  <2>2. name # NULL /\ value # NULL
    BY BuffersAssumption
  <2>3. /\ attrs' \in Seq(Names \X Values) /\ Len(attrs') = n + 1 /\ DOMAIN attrs' = 1..n + 1
        /\ attrs'[n + 1] = <<name, value>> /\ \A k \in 1..n : attrs'[k] = attrs[k]
    BY <1>1, <2>1
  <2>4. /\ NamesOf(attrs')[n + 1] = name /\ ValuesOf(attrs')[n + 1] = value
        /\ \A k \in 1..n : /\ NamesOf(attrs')[k] = NamesOf(attrs)[k]
                           /\ ValuesOf(attrs')[k] = ValuesOf(attrs)[k]
    <3> HIDE DEF n
    <3> QED
      BY <1>1, <2>3 DEF NamesOf, ValuesOf
  <2> HIDE DEF n
  <2>5. Holding(names', Names, n + 1, NamesOf(attrs'))
    BY <1>1, <2>1, <2>2, <2>4, AppendHolding
  <2>6. Holding(values', Values, n + 1, ValuesOf(attrs'))
    BY <1>1, <2>1, <2>2, <2>4, AppendHolding
  <2> QED
    BY <2>3, <2>5, <2>6 DEF PairsInv, NamesOf, ValuesOf
<1>4. ASSUME NEW name \in Names, RemoveAttr(name) PROVE PairsInv'
  <2> DEFINE at == IndexOf(name)
  <2>1. /\ at < names.count
        /\ names' = TakeItem(names, at) /\ values' = TakeItem(values, at)
        /\ attrs' = RemoveAt(attrs, Min(Same(name)))
    BY <1>4 DEF RemoveAttr, Same
  <2>2. names.count = n
    BY <1>1 DEF Holding
  <2>3. Same(name) # {}
    BY <1>1, <2>1, <2>2, IndexIs
  <2>4. Min(Same(name)) \in 1..n /\ at = Min(Same(name)) - 1
    BY <1>1, <2>3, IndexIs DEF Same
  <2>5. at \in 0..n - 1 /\ Min(Same(name)) = at + 1 /\ at + 1 \in 1..n
    BY <1>1, <2>4
  <2> HIDE DEF at, n
  <2>6. /\ attrs' \in Seq(Names \X Values) /\ Len(attrs') = n - 1
        /\ \A k \in 1..at : attrs'[k] = attrs[k]
        /\ \A k \in at + 1..n - 1 : attrs'[k] = attrs[k + 1]
    <3> DEFINE l == at + 1
    <3>1. l \in 1..Len(attrs) /\ l - 1 = at
      BY <2>5 DEF n
    <3>2. attrs' = RemoveAt(attrs, l)
      BY <2>1, <2>5
    <3> HIDE DEF l
    <3>3. /\ attrs' \in Seq(Names \X Values) /\ Len(attrs') = Len(attrs) - 1
          /\ \A k \in 1..l - 1 : attrs'[k] = attrs[k]
          /\ \A k \in l..Len(attrs) - 1 : attrs'[k] = attrs[k + 1]
      BY <1>1, <3>1, <3>2, Removed
    <3> QED
      BY <3>1, <3>3 DEF n, l
  <2>7. DOMAIN attrs' = 1..n - 1
    BY <2>6
  <2>8. /\ \A k \in 1..at : /\ NamesOf(attrs')[k] = NamesOf(attrs)[k]
                            /\ ValuesOf(attrs')[k] = ValuesOf(attrs)[k]
        /\ \A k \in at + 1..n - 1 : /\ NamesOf(attrs')[k] = NamesOf(attrs)[k + 1]
                                    /\ ValuesOf(attrs')[k] = ValuesOf(attrs)[k + 1]
    BY <1>1, <2>5, <2>6, <2>7 DEF NamesOf, ValuesOf
  <2>9. Holding(names', Names, n - 1, NamesOf(attrs'))
    BY <1>1, <2>1, <2>5, <2>8, TakeHolding
  <2>10. Holding(values', Values, n - 1, ValuesOf(attrs'))
    BY <1>1, <2>1, <2>5, <2>8, TakeHolding
  <2> QED
    BY <2>6, <2>9, <2>10 DEF PairsInv, NamesOf, ValuesOf
<1>5. CASE StringNext \/ UNCHANGED bufferVars
  BY <1>2, <1>5, ZenonT(30)
  DEF StringNext, AppendChar, AppendString, TakeBuffer, Clean, bufferVars, listVars
<1> QED
  BY <1>3, <1>4, <1>5 DEF ListNext
-----------------------------------------------------------------------------
(* Sorting: a list whose first n cells hold names.                          *)
Unsorted(n) ==
  {list \in [count : {n}, first : Seq(Names \cup {Wild, NULL})] :
     n <= Len(list.first) /\ \A k \in 1..n : list.first[k] \in Names}

IsLeast(f, n, k, l) == l \in k..n /\ \A m \in k..n : <<f[m], f[l]>> \notin Before

LEMMA LeastExists ==
  ASSUME NEW n \in Nat, NEW f, \A i \in 1..n : f[i] \in Names, NEW k \in 1..n
  PROVE  \E l : IsLeast(f, n, k, l)
<1> DEFINE B == {m \in k..n : ~\E l : IsLeast(f, m, k, l)}
<1>1. ASSUME B # {} PROVE FALSE
  <2>1. B \in SUBSET Nat
    OBVIOUS
  <2>2. Min(B) \in B /\ \A y \in B : Min(B) <= y
    <3> HIDE DEF B
    <3> QED
      BY <1>1, <2>1, MinNat
  <2>3. PICK m \in B : \A y \in B : m <= y
    BY <2>2
  <2>4. m # k
    <3>1. IsLeast(f, k, k, k)
      BY BuffersAssumption DEF IsLeast
    <3> QED
      BY <2>3, <3>1
  <2>5. m - 1 \in k..n /\ m - 1 \notin B
    BY <2>3, <2>4
  <2>6. PICK l : IsLeast(f, m - 1, k, l)
    BY <2>5
  <2>7. \A i \in k..m : i \in 1..n /\ f[i] \in Names
    BY <2>3
  <2>8. \A i \in k..m : i = m \/ i \in k..m - 1
    BY <2>3
  <2>9. l \in k..m - 1 /\ l \in k..m /\ m \in k..m
    BY <2>3, <2>6 DEF IsLeast
  <2>10. \A i \in k..m - 1 : <<f[i], f[l]>> \notin Before
    BY <2>6 DEF IsLeast
  <2>11. f[l] \in Names /\ f[m] \in Names
    BY <2>7, <2>9
  <2>12. CASE <<f[m], f[l]>> \in Before
    <3>1. \A i \in k..m : <<f[i], f[m]>> \notin Before
      <4> TAKE i \in k..m
      <4>1. CASE i = m
        BY <2>11, <4>1, BuffersAssumption
      <4>2. CASE i \in k..m - 1
        BY <2>7, <2>10, <2>11, <2>12, <4>2, BuffersAssumption
      <4> QED
        BY <2>8, <4>1, <4>2
    <3>2. IsLeast(f, m, k, m)
      BY <2>9, <3>1 DEF IsLeast
    <3> QED
      BY <2>3, <3>2
  <2>13. CASE <<f[m], f[l]>> \notin Before
    <3>1. \A i \in k..m : <<f[i], f[l]>> \notin Before
      BY <2>8, <2>10, <2>13
    <3>2. IsLeast(f, m, k, l)
      BY <2>9, <3>1 DEF IsLeast
    <3> QED
      BY <2>3, <3>2
  <2> QED
    BY <2>12, <2>13
<1>2. n \in k..n
  OBVIOUS
<1> QED
  BY <1>1, <1>2

(* A pass swaps cell k and one that nothing behind it sorts before. *)
IsSwap(f, h, k, l) ==
  /\ DOMAIN h = DOMAIN f /\ h[k] = f[l] /\ h[l] = f[k]
  /\ \A i \in DOMAIN f : i # k /\ i # l => h[i] = f[i]

LEMMA PassSwaps ==
  ASSUME NEW n \in Nat, NEW list \in Unsorted(n), NEW k \in 1..n
  PROVE  /\ SortPass(list, k) \in Unsorted(n)
         /\ \E l : /\ IsLeast(list.first, n, k, l)
                   /\ IsSwap(list.first, SortPass(list, k).first, k, l)
<1> DEFINE f     == list.first
           rest  == {l \in k..list.count : \A m \in k..list.count :
                       ~<<list.first[m], list.first[l]>> \in Before}
           least == Min(rest)
           h     == [f EXCEPT ![k] = f[least], ![least] = f[k]]
<1>1. /\ list = [count |-> n, first |-> f] /\ f \in Seq(Names \cup {Wild, NULL})
      /\ n <= Len(f) /\ \A i \in 1..n : f[i] \in Names
  BY DEF Unsorted
<1>2. SortPass(list, k) = [count |-> n, first |-> h]
  <2>1. SortPass(list, k) = [list EXCEPT !.first = h]
    BY DEF SortPass
  <2> HIDE DEF h
  <2>2. [list EXCEPT !.first = h] = [count |-> n, first |-> h]
    BY <1>1
  <2> QED
    BY <2>1, <2>2
<1>3. rest # {}
  <2>1. PICK l : IsLeast(f, n, k, l)
    BY <1>1, LeastExists
  <2>2. l \in rest
    BY <1>1, <2>1 DEF IsLeast
  <2> QED
    BY <2>2
<1>4. rest \in SUBSET Nat /\ \A l \in rest : IsLeast(f, n, k, l)
  BY <1>1 DEF IsLeast
<1> HIDE DEF rest
<1>5. least \in rest
  BY <1>3, <1>4, MinNat
<1> HIDE DEF least
<1>6. IsLeast(f, n, k, least) /\ least \in k..n /\ least \in 1..n
  BY <1>4, <1>5 DEF IsLeast
<1> HIDE DEF f
<1>7. DOMAIN f = 1..Len(f) /\ Len(f) \in Nat /\ k \in DOMAIN f /\ least \in DOMAIN f
  BY <1>1, <1>6
<1>8. IsSwap(f, h, k, least)
  BY <1>7 DEF IsSwap
<1>9. /\ h \in Seq(Names \cup {Wild, NULL}) /\ Len(h) = Len(f)
  BY <1>1, <1>6, <1>7
<1> HIDE DEF h
<1>10. \A i \in 1..n : h[i] \in Names
  BY <1>1, <1>6, <1>7, <1>8 DEF IsSwap
<1>11. SortPass(list, k) \in Unsorted(n)
  BY <1>1, <1>2, <1>9, <1>10 DEF Unsorted
<1> QED
  BY <1>2, <1>6, <1>8, <1>11 DEF f

Where(f, n, v) == {i \in 1..n : f[i] = v}

LEMMA SwapCounts ==
  ASSUME NEW n \in Nat, NEW f, NEW h, NEW k \in 1..n, NEW l \in 1..n,
         1..n \subseteq DOMAIN f, IsSwap(f, h, k, l), NEW v
  PROVE  Cardinality(Where(h, n, v)) = Cardinality(Where(f, n, v))
<1> DEFINE S    == Where(f, n, v)
           T    == Where(h, n, v)
           swap == [i \in S |-> IF i = k THEN l ELSE IF i = l THEN k ELSE i]
<1>1. IsFiniteSet(S)
  <2>1. IsFiniteSet(1..n)
    BY FS_Interval
  <2> QED
    BY <2>1, FS_Subset DEF Where
<1>2. h[k] = f[l] /\ h[l] = f[k] /\ \A i \in 1..n : i # k /\ i # l => h[i] = f[i]
  BY DEF IsSwap
<1>3. swap \in [S -> T]
  BY <1>2 DEF Where
<1>4. \A i, j \in S : swap[i] = swap[j] => i = j
  OBVIOUS
<1>5. \A j \in T : \E i \in S : swap[i] = j
  <2> TAKE j \in T
  <2>1. CASE j = k
    <3>1. l \in S /\ swap[l] = j
      BY <1>2, <2>1 DEF Where
    <3> QED
      BY <3>1
  <2>2. CASE j = l
    <3>1. k \in S /\ swap[k] = j
      BY <1>2, <2>2 DEF Where
    <3> QED
      BY <3>1
  <2>3. CASE j # k /\ j # l
    <3>1. j \in S /\ swap[j] = j
      BY <1>2, <2>3 DEF Where
    <3> QED
      BY <3>1
  <2> QED
    BY <2>1, <2>2, <2>3
<1> HIDE DEF S, T, swap
<1>6. swap \in Bijection(S, T)
  BY <1>3, <1>4, <1>5 DEF Bijection, Injection, Surjection, IsInjective
<1> QED
  BY <1>1, <1>6, FS_Bijection DEF ExistsBijection, S, T

LEMMA PassesMade ==
  ASSUME NEW n \in Nat, NEW list \in Unsorted(n)
  PROVE  /\ SortPasses(list) \in [0..n -> Unsorted(n)] /\ SortPasses(list)[0] = list
         /\ \A k \in 1..n : SortPasses(list)[k] = SortPass(SortPasses(list)[k - 1], k)
<1> DEFINE S == Unsorted(n)
           g == [p \in (1..n) \X S |-> SortPass(p[2], p[1])]
           F == SortPasses(list)
           IsPasses(f) == f = [k \in 0..n |-> IF k = 0 THEN list ELSE SortPass(f[k - 1], k)]
<1>1. list.count = n
  BY DEF Unsorted
<1>2. /\ g \in [(1..n) \X S -> S]
      /\ \A k \in 1..n, l \in S : g[<<k, l>>] = SortPass(l, k)
  <2>1. \A p \in (1..n) \X S : p[1] \in 1..n /\ p[2] \in S
    OBVIOUS
  <2>2. \A k \in 1..n, l \in S : SortPass(l, k) \in S
    BY PassSwaps
  <2> HIDE DEF S
  <2> QED
    BY <2>1, <2>2
<1> HIDE DEF S, g
<1>3. PICK f : Repeats(f, S, list, n, g)
  BY <1>2, RepetitionExists DEF S
<1>4. /\ f \in [0..n -> S]
      /\ \A k \in 0..n : f[k] = IF k = 0 THEN list ELSE g[<<k, f[k - 1]>>]
  BY <1>3 DEF Repeats
<1>5. \A k \in 0..n : k # 0 => k \in 1..n /\ f[k - 1] \in S
  <2>1. \A k \in 0..n : k # 0 => k \in 1..n /\ k - 1 \in 0..n
    OBVIOUS
  <2> QED
    BY <1>4, <2>1
<1>6. \A k \in 0..n : f[k] = IF k = 0 THEN list ELSE SortPass(f[k - 1], k)
  BY <1>2, <1>4, <1>5
<1>7. f = [k \in 0..n |-> f[k]]
  BY <1>4
<1>8. IsPasses(f)
  BY <1>6, <1>7
<1>9. F = CHOOSE h : IsPasses(h)
  BY <1>1 DEF SortPasses
<1>10. IsPasses(F)
  BY <1>8, <1>9
<1> HIDE DEF F
<1>11. /\ F[0] = list
       /\ \A k \in 1..n : F[k] = SortPass(F[k - 1], k)
  BY <1>10
<1> HIDE DEF IsPasses
<1>12. \A k \in 0..n : F[k] \in S
  <2> DEFINE B == {k \in 0..n : F[k] \notin S}
  <2>1. ASSUME B # {} PROVE FALSE
    <3>1. B \in SUBSET Nat
      OBVIOUS
    <3>2. Min(B) \in B /\ \A y \in B : Min(B) <= y
      <4> HIDE DEF B
      <4> QED
        BY <2>1, <3>1, MinNat
    <3>3. PICK m \in B : \A y \in B : m <= y
      BY <3>2
    <3>4. m # 0
      BY <1>11, <3>3 DEF S
    <3>5. m \in 1..n /\ m - 1 \in 0..n /\ m - 1 \notin B
      BY <3>3, <3>4
    <3>6. F[m - 1] \in S
      BY <3>5
    <3>7. SortPass(F[m - 1], m) \in S
      BY <3>5, <3>6, PassSwaps DEF S
    <3> QED
      BY <1>11, <3>3, <3>5, <3>7
  <2> QED
    BY <2>1
<1>13. DOMAIN F = 0..n
  BY <1>10 DEF IsPasses
<1>14. F = [k \in 0..n |-> F[k]]
  BY <1>10, <1>13 DEF IsPasses
<1> QED
  BY <1>11, <1>12, <1>14 DEF F, S

(* After k passes the first k cells are as they should be, and the names    *)
(* are those there were.                                                    *)
SortedUpTo(f, h, n, k) ==
  /\ \A i \in 1..k : \A m \in i..n : <<h[m], h[i]>> \notin Before
  /\ \A v \in Names : Cardinality(Where(h, n, v)) = Cardinality(Where(f, n, v))

LEMMA PassSorts ==
  ASSUME NEW n \in Nat, NEW list \in Unsorted(n), NEW k \in 1..n, NEW f,
         SortedUpTo(f, list.first, n, k - 1)
  PROVE  SortedUpTo(f, SortPass(list, k).first, n, k)
<1> DEFINE g == list.first
           h == SortPass(list, k).first
<1>1. PICK l : IsLeast(g, n, k, l) /\ IsSwap(g, h, k, l)
  BY PassSwaps
<1>2. g \in Seq(Names \cup {Wild, NULL}) /\ n <= Len(g)
  BY DEF Unsorted
<1> HIDE DEF g, h
<1>3. 1..n \subseteq DOMAIN g
  BY <1>2
<1>4. l \in k..n /\ l \in 1..n /\ \A m \in k..n : <<g[m], g[l]>> \notin Before
  BY <1>1 DEF IsLeast
<1>5. /\ h[k] = g[l] /\ h[l] = g[k]
      /\ \A i \in 1..n : i # k /\ i # l => h[i] = g[i]
  BY <1>1, <1>3 DEF IsSwap
<1>6. /\ \A i \in 1..k - 1 : \A m \in i..n : <<g[m], g[i]>> \notin Before
      /\ \A v \in Names : Cardinality(Where(g, n, v)) = Cardinality(Where(f, n, v))
  BY DEF SortedUpTo, g
<1>7. ASSUME NEW i \in 1..k, NEW m \in i..n PROVE <<h[m], h[i]>> \notin Before
  <2>1. m \in 1..n /\ i \in 1..n
    OBVIOUS
  <2>2. PICK j \in 1..n : h[m] = g[j] /\ (m >= k => j >= k) /\ (m < k => j = m)
    <3>1. CASE m = k
      BY <1>4, <1>5, <3>1
    <3>2. CASE m = l
      BY <1>4, <1>5, <3>2
    <3>3. CASE m # k /\ m # l
      BY <1>4, <1>5, <2>1, <3>3
    <3> QED
      BY <3>1, <3>2, <3>3
  <2>3. CASE i = k
    <3>1. j \in k..n
      BY <2>2, <2>3
    <3> QED
      BY <1>4, <1>5, <2>2, <2>3, <3>1
  <2>4. CASE i # k
    <3>1. i \in 1..k - 1 /\ i # l /\ j \in i..n
      BY <1>4, <2>2, <2>4
    <3>2. h[i] = g[i]
      BY <1>5, <2>1, <2>4, <3>1
    <3> QED
      BY <1>6, <2>2, <3>1, <3>2
  <2> QED
    BY <2>3, <2>4
<1>8. ASSUME NEW v \in Names PROVE Cardinality(Where(h, n, v)) = Cardinality(Where(f, n, v))
  BY <1>1, <1>3, <1>4, <1>6, SwapCounts
<1> QED
  BY <1>7, <1>8 DEF SortedUpTo, h

LEMMA InvSorts == PairsInv => SortSorts
<1> SUFFICES ASSUME PairsInv PROVE SortSorts
  OBVIOUS
<1> DEFINE n == names.count
           f == names.first
           P == SortPasses(names)
           B == {k \in 0..n : ~SortedUpTo(f, P[k].first, n, k)}
<1>1. n \in Nat /\ names \in Unsorted(n)
  BY DEF PairsInv, Holding, Unsorted
<1>2. /\ P \in [0..n -> Unsorted(n)] /\ P[0] = names
      /\ \A k \in 1..n : P[k] = SortPass(P[k - 1], k)
  <2> HIDE DEF n
  <2> QED
    BY <1>1, PassesMade
<1> HIDE DEF P
<1>3. ASSUME B # {} PROVE FALSE
  <2>1. B \in SUBSET Nat
    OBVIOUS
  <2>2. Min(B) \in B /\ \A y \in B : Min(B) <= y
    <3> HIDE DEF B
    <3> QED
      BY <1>3, <2>1, MinNat
  <2>3. PICK k \in B : \A y \in B : k <= y
    BY <2>2
  <2> HIDE DEF n, f
  <2>4. SortedUpTo(f, f, n, 0)
    BY DEF SortedUpTo
  <2>5. k # 0
    BY <1>2, <2>3, <2>4 DEF f
  <2>6. k \in 1..n /\ k - 1 \in 0..n /\ k - 1 \notin B
    BY <1>1, <2>3, <2>5
  <2>7. SortedUpTo(f, P[k - 1].first, n, k - 1) /\ P[k - 1] \in Unsorted(n)
    BY <1>2, <2>6
  <2>8. SortedUpTo(f, P[k].first, n, k)
    BY <1>1, <1>2, <2>6, <2>7, PassSorts
  <2> QED
    BY <2>3, <2>8
<1>4. SortedUpTo(f, P[n].first, n, n)
  <2> HIDE DEF n, f
  <2> QED
    BY <1>1, <1>3
<1>5. Sort(names) = P[n]
  BY DEF Sort, P
<1> HIDE DEF P
<1>6. \A v \in Names : Cardinality({k \in 1..n : Sort(names).first[k] = v})
                        = Cardinality({k \in 1..n : f[k] = v})
  BY <1>4, <1>5 DEF SortedUpTo, Where
<1>7. \A k \in 1..n - 1 : ~<<Sort(names).first[k + 1], Sort(names).first[k]>> \in Before
  <2> HIDE DEF n, f
  <2> TAKE k \in 1..n - 1
  <2>1. k \in 1..n /\ k + 1 \in k..n
    BY <1>1
  <2> QED
    BY <1>4, <1>5, <2>1 DEF SortedUpTo
<1> QED
  BY <1>6, <1>7 DEF SortSorts

(* spxmlutils.cpp 20-102, 178-265: whatever is appended, taken, removed and *)
(* sorted, and however often arrays and buffers grow, the names and values  *)
(* of a tag stay paired, sorting loses nothing and sorts, and a string is   *)
(* what was appended with a zero behind it.                                 *)
THEOREM BuffersAlwaysSound == BuffersSpec => []BuffersSound
<1>1. BuffersInit => StringInv
  <2> SUFFICES ASSUME BuffersInit PROVE StringInv
    OBVIOUS
  <2> DEFINE n == 8
  <2>1. n \in Nat /\ n > 0 /\ buf = [k \in 1..n |-> Nul] /\ size = 0 /\ chars = <<>>
    BY DEF BuffersInit
  <2> HIDE DEF n
  <2>2. buf \in Seq(Chars \cup {Nul}) /\ Len(buf) = n /\ \A k \in 1..n : buf[k] = Nul
    BY <2>1
  <2> QED
    BY <2>1, <2>2 DEF StringInv, StringTerminated
<1>2. BuffersInit => PairsInv
  BY NewHolding DEF BuffersInit, PairsInv
<1>3. StringInv /\ PairsInv => BuffersSound
  BY InvPairs, InvSorts DEF BuffersSound, StringInv
<1> QED
  BY <1>1, <1>2, <1>3, StringStep, PairsStep, PTL DEF BuffersSpec
=============================================================================
