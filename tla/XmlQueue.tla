------------------------------ MODULE XmlQueue ------------------------------
(***************************************************************************)
(* SP_XmlQueue (spxmlutils.cpp), the ring that holds the events of the     *)
(* pull parser: it grows by half when it is full, and then the part from   *)
(* the head to the end of the ring and the part before the tail are copied *)
(* one after the other.                                                    *)
(***************************************************************************)
EXTENDS Integers, Sequences

CONSTANTS
  Items,        \* what is queued
  NoItem,       \* the null pointer
  FirstMax,     \* size of the ring of an empty queue, 8
  MaxItems      \* bound: how many items are in the queue at a time

ASSUME ItemsAssumption == NoItem \notin Items
ASSUME SizeAssumption == FirstMax \in Nat \ {0} /\ MaxItems \in Nat

VARIABLES
  entries,      \* mEntries, a function on 0..mMaxCount-1; NoItem where nothing was written
  head,         \* mHead
  tail,         \* mTail
  count,        \* mCount
  max,          \* mMaxCount
  popped        \* what the last pop returned

qvars == <<entries, head, tail, count, max, popped>>

QueueInit ==
  /\ entries = [i \in 0..FirstMax - 1 |-> NoItem]
  /\ head = 0 /\ tail = 0 /\ count = 0
  /\ max = FirstMax
  /\ popped = NoItem

Grown(m) == (m * 3) \div 2 + 1

(* Mutant: head and tail in one slot are taken for an empty ring.          *)
HeadLenUpTo == IF head <= tail THEN tail - head ELSE count - tail

(* How many entries are copied from the head on.  In a full queue head and *)
(* tail are the same slot.                                                 *)
HeadLen == IF head < tail THEN tail - head ELSE count - tail

TailLen == IF head < tail THEN 0 ELSE tail

(* The two copies into the new ring; the rest of it is not initialised.    *)
Moved ==
  [i \in 0..Grown(max) - 1 |->
     IF i < HeadLen THEN entries[head + i]
     ELSE IF i < HeadLen + TailLen THEN entries[i - HeadLen]
     ELSE NoItem]

Push(item) ==
  /\ count < MaxItems
  /\ IF count >= max
     THEN /\ max' = Grown(max)
          /\ head' = 0
          /\ entries' = [Moved EXCEPT ![HeadLen + TailLen] = item]
          /\ tail' = (HeadLen + TailLen + 1) % Grown(max)
     ELSE /\ entries' = [entries EXCEPT ![tail] = item]
          /\ tail' = (tail + 1) % max
          /\ UNCHANGED <<head, max>>
  /\ count' = count + 1
  /\ UNCHANGED popped

Pop ==
  IF count > 0
  THEN /\ popped' = entries[head]
       /\ head' = (head + 1) % max
       /\ count' = count - 1
       /\ UNCHANGED <<entries, tail, max>>
  ELSE popped' = NoItem /\ UNCHANGED <<entries, head, tail, count, max>>

QueueNext == (\E item \in Items : Push(item)) \/ Pop

QueueSpec == QueueInit /\ [][QueueNext]_qvars

-----------------------------------------------------------------------------
Slot(i) == IF head + i < max THEN head + i ELSE head + i - max

Queued == [i \in 1..count |-> entries[Slot(i - 1)]]

(* head, tail and count tell one story, and no queued slot is null: what   *)
(* push writes next is where reading will end.                             *)
RingConsistent ==
  /\ head \in 0..max - 1
  /\ tail \in 0..max - 1
  /\ count \in 0..max
  /\ tail = Slot(count)
  /\ \A i \in 0..count - 1 : entries[Slot(i)] \in Items

(* The ring is a queue: whatever is pushed and popped, and however often   *)
(* the ring has grown in between, the items come out as they went in       *)
(* (SP_XmlQueue push and pop, behind SP_XmlPullParser::getNext).           *)
Promise == INSTANCE Fifo WITH items <- Queued, taken <- popped

QueueIsFifo == Promise!Spec
=============================================================================
