----------------------------- MODULE XmlBuffers -----------------------------
(***************************************************************************)
(* The containers of spxmlutils.cpp under the XML parser: SP_XmlArrayList  *)
(* of pointers, in the pair the attributes of a SP_XmlStartTagEvent are    *)
(* kept in, and SP_XmlStringBuffer.  Memory that malloc or realloc returns *)
(* holds `Wild` until it is written.                                       *)
(***************************************************************************)
EXTENDS Integers, Sequences, SequencesExt, FiniteSetsExt

CONSTANTS
  Names, Values,    \* what attributes are made of
  Chars,            \* what strings are made of
  Before,           \* tells which of two names sorts before which
  MaxAttrs,         \* bound: attributes added
  MaxChars          \* bound: characters appended

NULL == "NULL"
Wild == "wild"
Nul == "zero"

ASSUME BuffersAssumption ==
  /\ {NULL, Wild} \cap (Names \cup Values) = {} /\ Nul \notin Chars
  /\ \A n \in Names : <<n, n>> \notin Before
  /\ \A l, m, n \in Names :
       <<l, m>> \in Before /\ <<m, n>> \in Before => <<l, n>> \in Before
  /\ MaxAttrs \in Nat /\ MaxChars \in Nat

VARIABLES
  names, values,    \* mAttrNameList, mAttrValueList: lists as below
  attrs,            \* history: the attributes of the tag, in order
  buf, size,        \* mBuffer, of mMaxSize bytes, and mSize
  chars             \* history: what was appended and not taken yet

listVars == <<names, values, attrs>>
stringVars == <<buf, size, chars>>
bufferVars == <<names, values, attrs, buf, size, chars>>

(* A list: how many of the cells of its array are in use, and all of them. *)
NewList(n) == [count |-> 0, first |-> [k \in 1..(IF n <= 0 THEN 2 ELSE n) |-> Wild]]

ListAppend(list, v) ==
  LET max == Len(list.first)
      grown == IF list.count < max THEN list.first
               ELSE list.first \o [k \in 1..((max * 3) \div 2 + 1 - max) |-> NULL]
  IN IF v = NULL THEN list
     ELSE [count |-> list.count + 1, first |-> [grown EXCEPT ![list.count + 1] = v]]

ItemAt(list, index) == IF index = -1 THEN list.count - 1 ELSE index

GetItem(list, index) ==
  LET at == ItemAt(list, index)
  IN IF at \in 0..list.count - 1 THEN list.first[at + 1] ELSE NULL

(* Mutant: one cell too few is moved up.                                   *)
TakeItemShort(list, index) ==
  LET at == ItemAt(list, index)
      max == Len(list.first)
  IN IF at \notin 0..list.count - 1 THEN list
     ELSE [count |-> list.count - 1,
           first |-> [k \in 1..max |-> IF k > at /\ k < list.count - 1 THEN list.first[k + 1]
                                       ELSE list.first[k]]]

(* All cells behind the one taken move up, used or not.                    *)
TakeItem(list, index) ==
  LET at == ItemAt(list, index)
      max == Len(list.first)
  IN IF at \notin 0..list.count - 1 THEN list
     ELSE [count |-> list.count - 1,
           first |-> [k \in 1..max |-> IF k > at /\ k < max THEN list.first[k + 1]
                                       ELSE IF at + 1 = max /\ k = max THEN NULL
                                       ELSE list.first[k]]]

(* A pass of sort: the least name from cell k on, the first such, goes to k. *)
SortPass(list, k) ==
  LET rest == {l \in k..list.count : \A m \in k..list.count :
                 ~<<list.first[m], list.first[l]>> \in Before}
      least == Min(rest)
  IN [list EXCEPT !.first = [@ EXCEPT ![k] = list.first[least], ![least] = list.first[k]]]

(* The list after each pass. *)
SortPasses(list) ==
  LET after[k \in 0..list.count] == IF k = 0 THEN list ELSE SortPass(after[k - 1], k)
  IN after

Sort(list) == SortPasses(list)[list.count]

(* The first attribute of a name, or 0.                                    *)
IndexOf(name) ==
  Min({k \in 1..names.count : GetItem(names, k - 1) = name} \cup {names.count + 1}) - 1

GetAttrValue(name) ==
  IF IndexOf(name) = names.count THEN NULL ELSE GetItem(values, IndexOf(name))

BuffersInit ==
  /\ names = NewList(0) /\ values = NewList(0) /\ attrs = <<>>
  /\ buf = [k \in 1..8 |-> Nul] /\ size = 0 /\ chars = <<>>

AddAttr(name, value) ==
  /\ Len(attrs) < MaxAttrs
  /\ names' = ListAppend(names, name) /\ values' = ListAppend(values, value)
  /\ attrs' = Append(attrs, <<name, value>>)
  /\ UNCHANGED stringVars

RemoveAttr(name) ==
  LET k == IndexOf(name)
  IN /\ k < names.count
     /\ names' = TakeItem(names, k) /\ values' = TakeItem(values, k)
     /\ attrs' = RemoveAt(attrs, Min({l \in DOMAIN attrs : attrs[l][1] = name}))
     /\ UNCHANGED stringVars
-----------------------------------------------------------------------------
(* The buffer after realloc and memset, if n bytes and a zero do not fit.  *)
Room(n, by) ==
  IF n > Len(buf) - 1
    THEN [k \in 1..Len(buf) + by |-> IF k <= size THEN buf[k] ELSE Nul]
  ELSE buf

AppendChar(c) ==
  /\ Len(chars) < MaxChars
  /\ buf' = [Room(size + 1, (Len(buf) * 3) \div 2 + 1) EXCEPT ![size + 1] = c]
  /\ size' = size + 1 /\ chars' = Append(chars, c)
  /\ UNCHANGED listVars

AppendString(s) ==
  /\ s # <<>> /\ Len(chars) + Len(s) <= MaxChars
  /\ LET room == Room(size + Len(s), Len(s))
     IN buf' = [k \in DOMAIN room |-> IF k \in size + 1..size + Len(s) THEN s[k - size]
                                      ELSE room[k]]
  /\ size' = size + Len(s) /\ chars' = chars \o s
  /\ UNCHANGED listVars

TakeBuffer ==
  /\ size > 0
  /\ buf' = [k \in 1..8 |-> Nul] /\ size' = 0 /\ chars' = <<>>
  /\ UNCHANGED listVars

Clean ==
  /\ size > 0
  /\ buf' = [k \in DOMAIN buf |-> Nul] /\ size' = 0 /\ chars' = <<>>
  /\ UNCHANGED listVars

ListNext ==
  \/ \E n \in Names, v \in Values : AddAttr(n, v)
  \/ \E n \in Names : RemoveAttr(n)

StringNext ==
  \/ \E c \in Chars : AppendChar(c) \/ AppendString(<<c>>)
  \/ \E c, d \in Chars, n \in {7, 8, 10} : AppendString([k \in 1..n |-> IF k = n THEN d ELSE c])
  \/ TakeBuffer \/ Clean

BuffersSpec == BuffersInit /\ [][ListNext \/ StringNext]_bufferVars
-----------------------------------------------------------------------------
(* However attributes are added and removed, and however often the arrays  *)
(* grow, the two lists of a tag stay in step: attribute k is the k-th kept *)
(* and a name has the value of the first of that name (addAttr,            *)
(* removeAttr, getAttr, getAttrValue).                                     *)
AttributesPaired ==
  /\ names.count = Len(attrs) /\ values.count = Len(attrs)
  /\ \A k \in DOMAIN attrs : <<GetItem(names, k - 1), GetItem(values, k - 1)>> = attrs[k]
  /\ \A n \in Names :
       LET same == {k \in DOMAIN attrs : attrs[k][1] = n}
       IN GetAttrValue(n) = IF same = {} THEN NULL ELSE attrs[Min(same)][2]

(* Sorting keeps the items and never leaves one before a lesser one.       *)
SortSorts ==
  LET sorted == Sort(names)
      used(list) == SubSeq(list.first, 1, list.count)
  IN /\ \A v \in Names : Cardinality({k \in 1..names.count : sorted.first[k] = v})
                           = Cardinality({k \in 1..names.count : names.first[k] = v})
     /\ \A k \in 1..names.count - 1 : ~<<sorted.first[k + 1], sorted.first[k]>> \in Before

(* What is in the buffer is what was appended, with a zero behind it that  *)
(* getBuffer relies on, after any mix of appends, takes and cleans.        *)
StringTerminated ==
  /\ size < Len(buf)
  /\ \A k \in 1..Len(buf) : buf[k] = IF k <= size THEN chars[k] ELSE Nul

(* Whatever is appended, taken, removed and sorted, and however often the  *)
(* memory grows: attributes stay in pairs, sorting sorts, strings end.     *)
BuffersSound == AttributesPaired /\ SortSorts /\ StringTerminated
=============================================================================
