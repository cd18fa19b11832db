-------------------------------- MODULE Fifo --------------------------------
(***************************************************************************)
(* What a queue of pull events promises: items come out in the order they  *)
(* went in, each once, and a null pointer comes out when there is none.    *)
(***************************************************************************)
EXTENDS Sequences

CONSTANTS
  Items,      \* what is queued
  NoItem      \* the null pointer

VARIABLES
  items,      \* queued and not yet taken
  taken       \* what the last pop returned

Init == items = <<>> /\ taken = NoItem

Push(item) == items' = Append(items, item) /\ UNCHANGED taken

Pop ==
  IF items = <<>> THEN taken' = NoItem /\ UNCHANGED items
  ELSE taken' = Head(items) /\ items' = Tail(items)

Next == (\E item \in Items : Push(item)) \/ Pop

Spec == Init /\ [][Next]_<<items, taken>>
=============================================================================
