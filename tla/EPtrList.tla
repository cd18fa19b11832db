------------------------------ MODULE EPtrList ------------------------------
(***************************************************************************)
(* ePtrList (eptrlist.h): a std::list of pointers with a current item and, *)
(* if autoDelete is on, ownership of what they point to.  An iterator is   *)
(* the address of its node, which a node keeps while it is in the list and *)
(* which a later node may get when it is gone.  What the standard library  *)
(* leaves undefined callers have to avoid: an empty list's first item, and *)
(* following cur where no node is.  No list is copied.                     *)
(***************************************************************************)
EXTENDS Integers, Sequences, FiniteSets, SequencesExt

CONSTANTS
  Objects,      \* what the pointers point to
  Less,         \* which pairs of them are in order, by their operator <
  Addresses     \* where nodes may be: bounds the length of the list

End == 0

ASSUME PtrListAssumption == End \notin Addresses

VARIABLES
  nodes,        \* the nodes of the list, in order: [id, t]
  cur,          \* the node cur is at, or End
  autoDelete,
  deleted,      \* objects deleted by the list
  taken,        \* objects the caller has back
  unseen,       \* history: addresses freed without a look at cur
  twice         \* history: objects that were in the list more than once

listOfPtrVars == <<nodes, cur, autoDelete, deleted, taken, unseen, twice>>

PtrListInit ==
  /\ nodes = <<>> /\ cur = End /\ autoDelete \in BOOLEAN
  /\ deleted = {} /\ taken = {} /\ unseen = {} /\ twice = {}

Ids(list) == {list[k].id : k \in DOMAIN list}
Held == {nodes[k].t : k \in DOMAIN nodes}
PlaceOf(id) == CHOOSE k \in DOMAIN nodes : nodes[k].id = id
PlacesOf(t) == {k \in DOMAIN nodes : nodes[k].t = t}
AtNode == cur \in Ids(nodes)

(* The node behind place k.                                                *)
Behind(list, k) == IF k < Len(list) THEN list[k + 1].id ELSE End
LastOf(list) == list[Len(list)].id

(* std::list::insert; no caller inserts what the list has deleted.         *)
PushAt(k, t) ==
  /\ \E id \in Addresses \ Ids(nodes) :
       /\ nodes' = InsertAt(nodes, k, [id |-> id, t |-> t])
       /\ unseen' = unseen \ {id}
  /\ taken' = taken \ {t}
  /\ twice' = twice \cup (Held \cap {t})

(* push_back and push_front make the new item current.                     *)
PushBack(t) ==
  /\ PushAt(Len(nodes) + 1, t) /\ cur' = LastOf(nodes')
  /\ UNCHANGED <<autoDelete, deleted>>

PushFront(t) ==
  /\ PushAt(1, t) /\ cur' = nodes'[1].id
  /\ UNCHANGED <<autoDelete, deleted>>

(* insert_in_order goes before the first item that is not less, in a list  *)
(* where no lesser one comes behind it, and cur stays where it is.         *)
InsertInOrder(t) ==
  LET less == {k \in DOMAIN nodes : <<nodes[k].t, t>> \in Less}
  IN /\ \A k \in less : 1..k \subseteq less
     /\ PushAt(Cardinality(less) + 1, t)
     /\ UNCHANGED <<cur, autoDelete, deleted>>

(* std::list::sort is stable: what is not in order otherwise stays in its   *)
(* order.                                                                  *)
SortNodes ==
  /\ \E places \in SetToSeqs(DOMAIN nodes) :
       LET sorted == [k \in DOMAIN nodes |-> nodes[places[k]]]
       IN /\ \A k, l \in DOMAIN nodes : k < l =>
               /\ <<sorted[l].t, sorted[k].t>> \notin Less
               /\ <<sorted[k].t, sorted[l].t>> \in Less \/ places[k] < places[l]
          /\ nodes' = sorted
  /\ UNCHANGED <<cur, autoDelete, deleted, taken, unseen, twice>>

(* Mutant: an iterator at the node erased is left there.                   *)
EraseStale(k, byList) ==
  /\ nodes' = RemoveAt(nodes, k)
  /\ cur' = cur
  /\ deleted' = IF byList /\ autoDelete THEN deleted \cup {nodes[k].t} ELSE deleted

(* erase of the k-th node; the list deletes its object if it owns it.      *)
Erase(k, byList) ==
  /\ nodes' = RemoveAt(nodes, k)
  /\ cur' = IF cur = nodes[k].id THEN Behind(nodes, k) ELSE cur
  /\ deleted' = IF byList /\ autoDelete THEN deleted \cup {nodes[k].t} ELSE deleted

PopBack ==
  /\ nodes # <<>> /\ Erase(Len(nodes), TRUE)
  /\ UNCHANGED <<autoDelete, taken, unseen, twice>>

PopFront ==
  /\ nodes # <<>> /\ Erase(1, TRUE)
  /\ UNCHANGED <<autoDelete, taken, unseen, twice>>

(* std::list::erase and remove, of all places but these.                   *)
KeepOnly(places) ==
  \E kept \in SetToSeqs(places) :
    /\ \A k, l \in DOMAIN kept : k < l => kept[k] < kept[l]
    /\ nodes' = [k \in DOMAIN kept |-> nodes[kept[k]]]

(* remove(t) erases the first node of t as erase does, and the others      *)
(* without a look at cur, which may just have moved to the next of them.   *)
RemoveItem(t) ==
  \E first \in PlacesOf(t) :
    /\ \A k \in PlacesOf(t) : first <= k
    /\ KeepOnly(DOMAIN nodes \ PlacesOf(t))
    /\ cur' = IF cur = nodes[first].id THEN Behind(nodes, first) ELSE cur
    /\ deleted' = IF autoDelete THEN deleted \cup {t} ELSE deleted
    /\ unseen' = unseen \cup {nodes[k].id : k \in PlacesOf(t) \ {first}}
    /\ UNCHANGED <<autoDelete, taken, twice>>

(* clear erases one node after the other, and the destructor deletes what  *)
(* it would.                                                               *)
Clear ==
  /\ nodes # <<>> /\ nodes' = <<>> /\ cur' = IF AtNode THEN End ELSE cur
  /\ deleted' = IF autoDelete THEN deleted \cup Held ELSE deleted
  /\ UNCHANGED <<autoDelete, taken, unseen, twice>>

(* take() gives the current item back.                                     *)
TakeCurrent ==
  /\ AtNode /\ Erase(PlaceOf(cur), FALSE)
  /\ taken' = taken \cup {nodes[PlaceOf(cur)].t}
  /\ UNCHANGED <<autoDelete, unseen, twice>>

(* take(t) gives t back, with every node of it, and does not look at cur.  *)
TakeNodes(t) ==
  /\ PlacesOf(t) # {} /\ KeepOnly(DOMAIN nodes \ PlacesOf(t))
  /\ taken' = taken \cup {t}
  /\ unseen' = unseen \cup {nodes[k].id : k \in PlacesOf(t)}
  /\ UNCHANGED <<cur, autoDelete, deleted, twice>>

SetCurrent(t) ==
  /\ \E k \in PlacesOf(t) : (\A l \in PlacesOf(t) : k <= l) /\ cur' = nodes[k].id
  /\ UNCHANGED <<nodes, autoDelete, deleted, taken, unseen, twice>>

ToFirst == nodes # <<>> /\ cur' = nodes[1].id
ToLast == nodes # <<>> /\ cur' = LastOf(nodes)
Forward == AtNode /\ cur' = Behind(nodes, PlaceOf(cur))

(* prev() stays at the first item, and goes from the end to the last.      *)
Back ==
  /\ nodes # <<>> /\ (AtNode \/ cur = End)
  /\ cur' = IF cur = End THEN LastOf(nodes)
            ELSE IF PlaceOf(cur) = 1 THEN cur ELSE nodes[PlaceOf(cur) - 1].id

MoveCurrent ==
  /\ ToFirst \/ ToLast \/ Forward \/ Back
  /\ UNCHANGED <<nodes, autoDelete, deleted, taken, unseen, twice>>

SetAutoDelete ==
  /\ autoDelete' = ~autoDelete
  /\ UNCHANGED <<nodes, cur, deleted, taken, unseen, twice>>

PtrListNext ==
  \/ \E t \in Objects \ deleted : PushBack(t) \/ PushFront(t) \/ InsertInOrder(t)
  \/ \E t \in Objects : RemoveItem(t) \/ TakeNodes(t) \/ SetCurrent(t)
  \/ PopBack \/ PopFront \/ Clear \/ TakeCurrent \/ SortNodes \/ MoveCurrent \/ SetAutoDelete
PtrListSpec == PtrListInit /\ [][PtrListNext]_listOfPtrVars
-----------------------------------------------------------------------------
(* Whatever is inserted, erased and taken, cur is at a node of the list or *)
(* at its end, or where take(t) or a further node of remove(t) freed the   *)
(* node it was at: by no other way does it go astray.                      *)
CurrentInList == cur \in Ids(nodes) \cup {End} \cup unseen

(* No pointer in the list, and none a caller took back from it, points to  *)
(* an object the list has deleted (autoDelete), unless that object was in  *)
(* the list more than once.                                                *)
NoneDeletedTwice == deleted \cap (Held \cup taken) \subseteq twice

(* The current position and the ownership of the list, together.           *)
ListSound == CurrentInList /\ NoneDeletedTwice
=============================================================================
