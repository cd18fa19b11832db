------------------------------- MODULE XmlDom -------------------------------
(***************************************************************************)
(* The document a SP_XmlDomParser builds (spdomparser.cpp, spxmlnode.cpp), *)
(* the ways to go through it (spdomiterator.cpp, spxmlhandle.cpp) and to   *)
(* write it out (SP_XmlDomBuffer, SP_CanonXmlBuffer), as a caller like     *)
(* epg.cpp or testdom.cpp uses them: it appends the source chunk by chunk, *)
(* then walks over the document with an iterator.  A node is a number, the *)
(* document itself is Doc; node[n] holds its event, parent and children.   *)
(***************************************************************************)
EXTENDS XmlParser, FiniteSets

CONSTANTS
  Chunks,         \* the pieces of source a caller may append, sequences of symbols
  MaxChunks,      \* bound: how many of them it appends
  NameOrder,      \* the attribute names in the order of strcmp, sequences of symbols
  WalkFrom        \* where the caller's iterator starts: "document" or "root"

ASSUME ChunksAssumption == Chunks \subseteq Seq(STRING) /\ MaxChunks \in Nat

VARIABLES
  parser,         \* mParser
  dom,            \* mDocument
  current,        \* mCurrent of the builder, a node or Null
  input,          \* history: all symbols appended
  appended,       \* history: how many chunks
  phase,          \* "append", then "walk", "done"; "fault" if the program was stopped
  walker,         \* mCurrent of the iterator, a node or Null
  visited         \* history: the nodes getNext returned

vars == <<parser, dom, current, input, appended, phase, walker, visited>>

Null == -1
Doc == 0

Nodes(d) == DOMAIN d.node

NewDom == [decl |-> Null, type |-> Null,
           node |-> [n \in {Doc} |-> [event |-> [type |-> "XmlDoc"], parent |-> Null, kids |-> <<>>]]]

TypeOf(d, n) == d.node[n].event.type

Kids(d, n) == d.node[n].kids

IsElement(d, n) == TypeOf(d, n) = "StartTag"

(* getRootElement                                                          *)
RootIndex(d) == SelectInSeq(Kids(d, Doc), LAMBDA n : IsElement(d, n))

Root(d) == IF RootIndex(d) = 0 THEN Null ELSE Kids(d, Doc)[RootIndex(d)]

Fresh(d) == 1 + CHOOSE n \in Nodes(d) : \A m \in Nodes(d) : n >= m

AddNode(d, event, parent) ==
  [d EXCEPT !.node = [n \in Nodes(d) \cup {Fresh(d)} |->
     IF n \in Nodes(d) THEN @[n] ELSE [event |-> event, parent |-> parent, kids |-> <<>>]]]

AddKid(d, n, kid) == [d EXCEPT !.node[n].kids = Append(@, kid)]

TakeKid(d, n, i) == [d EXCEPT !.node[n].kids = RemoveAt(@, i)]

Above(d, n) == \* n and its ancestors
  LET Up[m \in Nodes(d)] == {m} \cup (IF d.node[m].parent = Null THEN {} ELSE Up[d.node[m].parent])
  IN  Up[n]

(* delete: a node goes with all that is below it.                          *)
Delete(d, n) ==
  [d EXCEPT !.node = [m \in {k \in Nodes(d) : n \notin Above(d, k)} |-> @[m]]]

(* Mutant: the root that was there stays.                                  *)
SetRootElementToo(d, n) == [AddKid(d, Doc, n) EXCEPT !.node[n].parent = Doc]

SetRootElement(d, n) ==
  LET e == IF Root(d) = Null THEN d ELSE Delete(TakeKid(d, Doc, RootIndex(d)), Root(d))
  IN  [AddKid(e, Doc, n) EXCEPT !.node[n].parent = Doc]

SetDecl(d, n) == IF d.decl = Null THEN [d EXCEPT !.decl = n] ELSE [Delete(d, d.decl) EXCEPT !.decl = n]
SetType(d, n) == IF d.type = Null THEN [d EXCEPT !.type = n] ELSE [Delete(d, d.type) EXCEPT !.type = n]

-----------------------------------------------------------------------------
(* buildTree: one event.  b is the builder: the document and mCurrent.     *)
Build(b, event) ==
  LET d == b.dom
      n == Fresh(d)
  IN  CASE event.type = "DocDecl" -> [b EXCEPT !.dom = SetDecl(AddNode(d, event, Doc), n)]
        [] event.type = "DocType" -> [b EXCEPT !.dom = SetType(AddNode(d, event, Doc), n)]
        [] event.type = "StartTag" ->
             [dom |-> IF b.current = Null THEN SetRootElement(AddNode(d, event, Doc), n)
                      ELSE AddKid(AddNode(d, event, b.current), b.current, n),
              current |-> n]
        [] event.type = "EndTag" ->
             [b EXCEPT !.current = IF d.node[@].parent \in {Null, Doc} THEN Null ELSE d.node[@].parent]
        [] event.type \in {"CData", "Comment"} ->
             IF b.current = Null THEN b
             ELSE [b EXCEPT !.dom = AddKid(AddNode(d, event, b.current), b.current, n)]
        [] event.type = "PI" -> \* at the top it is appended without a parent
             IF b.current = Null THEN [b EXCEPT !.dom = AddKid(AddNode(d, event, Null), Doc, n)]
             ELSE [b EXCEPT !.dom = AddKid(AddNode(d, event, b.current), b.current, n)]
        [] OTHER -> b

BuildTree(b, events) == Run(Build, b, events)

(* A whole source in one go, as the test programs parse it.                *)
Parsed(ignore, text) == FeedAll(NewParser(ignore), text)
Document(ignore, text) ==
  BuildTree([dom |-> NewDom, current |-> Null], Parsed(ignore, text).queue).dom

-----------------------------------------------------------------------------
(* SP_XmlDomBuffer: a line for each node and a tab, here a blank, for each  *)
(* level, or nothing of the kind if the level is below 0.                  *)
Tabs(level) == IF level < 0 THEN <<>> ELSE [i \in 1..level |-> " "]
Ended(level) == IF level >= 0 THEN <<">", "\n">> ELSE <<">">>

Quoted(text) == <<"\"">> \o text \o <<"\"">>

DumpAttrs(d, n) ==
  FlattenSeq([i \in DOMAIN d.node[n].event.attrs |->
    <<" ">> \o d.node[n].event.attrs[i][1] \o <<"=">> \o
      Quoted(EncodeUtf8(d.node[n].event.attrs[i][2]))])

DumpDecl(d, level) ==
  IF d.decl = Null THEN <<>>
  ELSE LET e == d.node[d.decl].event
       IN  <<"<", "?", "xml", " ", "version", "=">> \o Quoted(IF e.version = <<>> THEN <<"1.0">> ELSE e.version)
           \o <<" ">> \o (IF e.encoding = <<>> THEN <<>> ELSE <<"encoding", "=">> \o Quoted(e.encoding) \o <<" ">>)
           \o (IF e.standalone = <<>> THEN <<>> ELSE
                 <<"standalone", "=">> \o Quoted(IF e.standalone = <<"no">> THEN <<"no">> ELSE <<"yes">>) \o <<" ">>)
           \o <<"?">> \o Ended(level)

DumpType(d, level) ==
  IF d.type = Null THEN <<>>
  ELSE LET e == d.node[d.type].event
           Part(word, text) == IF text = <<>> THEN <<>> ELSE word \o Quoted(text)
       IN  <<"<", "!", "DOCTYPE", " ">> \o e.name \o Part(<<" ", "PUBLIC", " ">>, e.public)
           \o Part(<<" ", "SYSTEM", " ">>, e.system) \o Part(<<" ">>, e.dtd) \o Ended(level)

(* Without indentation an element that has no children gets neither the    *)
(* slash of an empty tag nor an end tag.                                   *)
Dump(d, indent) ==
  LET Out[n \in Nodes(d), level \in -1..Cardinality(Nodes(d))] ==
        LET e == d.node[n].event
            below == IF level >= 0 THEN level + 1 ELSE -1
            Inside == FlattenSeq([i \in DOMAIN Kids(d, n) |-> Out[Kids(d, n)[i], below]])
            Text == Kids(d, n) # <<>> /\ TypeOf(d, Head(Kids(d, n))) = "CData"
            Space == IF level >= 0 \/ e.target # <<>> THEN <<" ">> ELSE <<>>
        IN  CASE e.type = "CData" -> EncodeUtf8(e.text)
              [] e.type = "Comment" ->
                   (IF level >= 0 THEN <<"\n">> ELSE <<>>) \o Tabs(level)
                     \o <<"<", "!", "-", "-">> \o e.text \o <<"-", "-">> \o Ended(level)
              [] e.type = "PI" ->
                   Tabs(level) \o <<"<", "?">> \o e.target \o Space \o e.data \o <<"?">> \o Ended(level)
              [] e.type = "StartTag" ->
                   Tabs(level) \o <<"<">> \o e.name \o DumpAttrs(d, n) \o
                   (IF Kids(d, n) = <<>> THEN (IF level >= 0 THEN <<"/">> ELSE <<>>) \o Ended(level)
                    ELSE (IF Text THEN <<">">> ELSE Ended(level)) \o Inside \o
                         (IF Text THEN <<>> ELSE Tabs(level)) \o <<"<", "/">> \o e.name \o Ended(level))
              [] OTHER -> <<>>
      top == IF indent THEN 0 ELSE -1
  IN  DumpDecl(d, top) \o DumpType(d, top)
        \o FlattenSeq([i \in DOMAIN Kids(d, Doc) |-> Out[Kids(d, Doc)[i], top]])

(* SP_CanonXmlBuffer: attributes sorted by name, with the value of the     *)
(* first attribute of that name; no comments, no prologue.                 *)
Place(name) == SelectInSeq(NameOrder, LAMBDA known : known = name)

CanonAttrs(d, n) ==
  LET attrs == d.node[n].event.attrs
      First(name) == attrs[SelectInSeq(attrs, LAMBDA a : a[1] = name)][2]
      names == SortSeq([i \in DOMAIN attrs |-> attrs[i][1]], LAMBDA x, y : Place(x) < Place(y))
  IN  FlattenSeq([i \in DOMAIN names |->
        <<" ">> \o names[i] \o <<"=">> \o Quoted(CanonEncode(First(names[i])))])

Canon(d) ==
  LET Out[n \in Nodes(d)] ==
        LET e == d.node[n].event
            Inside == FlattenSeq([i \in DOMAIN Kids(d, n) |-> Out[Kids(d, n)[i]]])
        IN  CASE e.type = "XmlDoc" -> Inside
              [] e.type = "CData" -> CanonEncode(e.text)
              [] e.type = "PI" ->
                   <<"<", "?">> \o e.target \o (IF e.target = <<>> THEN <<>> ELSE <<" ">>) \o e.data \o <<"?", ">">>
              [] e.type = "StartTag" ->
                   <<"<">> \o e.name \o CanonAttrs(d, n) \o <<">">> \o Inside \o <<"<", "/">> \o e.name \o <<">">>
              [] OTHER -> <<>>
  IN  Out[Doc]

-----------------------------------------------------------------------------
(* Mutant: the index counts all children.                                  *)
GetElementOfAll(d, n, wanted, index) ==
  IF n = Null \/ ~IsElement(d, n) \/ index >= Len(Kids(d, n)) THEN Null
  ELSE IF IsElement(d, Kids(d, n)[index + 1]) /\ Kids(d, n)[index + 1] \in wanted
  THEN Kids(d, n)[index + 1] ELSE Null

(* SP_XmlHandle: the index-th child element, among those of a name or all. *)
GetElement(d, n, wanted, index) ==
  LET kids == Kids(d, n)
      Find[i \in 1..Len(kids) + 1, left \in 0..index] ==
        IF i > Len(kids) THEN Null
        ELSE IF ~(IsElement(d, kids[i]) /\ kids[i] \in wanted) THEN Find[i + 1, left]
        ELSE IF left = 0 THEN kids[i]
        ELSE Find[i + 1, left - 1]
  IN  IF n = Null \/ ~IsElement(d, n) THEN Null ELSE Find[1, index]

GetChild(d, n, index) ==
  IF n = Null \/ ~IsElement(d, n) \/ index >= Len(Kids(d, n)) THEN Null ELSE Kids(d, n)[index + 1]

-----------------------------------------------------------------------------
(* SP_DomIterator::getNext: what it returns, and the node it is at then.   *)
FirstKid(d, n) == IF Kids(d, n) = <<>> THEN Null ELSE Head(Kids(d, n))

Sibling(d, n, parent) ==
  IF parent = Doc
  THEN IF n = d.decl THEN (IF d.type # Null THEN d.type ELSE Root(d))
       ELSE IF n = d.type THEN Root(d) ELSE Null
  ELSE LET at == SelectInSeq(Kids(d, parent), LAMBDA k : k = n)
       IN  IF at \in 1..Len(Kids(d, parent)) - 1 THEN Kids(d, parent)[at + 1] ELSE Null

(* Mutant: the walk comes to a parent a second time.                       *)
OnwardParent(d, start, from) ==
  LET parent == d.node[from].parent
  IN  IF parent = Null THEN Null
      ELSE IF Sibling(d, from, parent) # Null THEN Sibling(d, from, parent)
      ELSE IF parent = start THEN Null ELSE parent

(* The loop of getNext after a node without children.  The node it is at   *)
(* becomes null when the walk is back at its start, and the loop goes on;  *)
(* a null node is equal to a DocDecl or DocType the document does not have.*)
Onward(d, start, from) ==
  LET Climb[parent \in Nodes(d)] == [n \in Nodes(d) \cup {Null} |->
        IF Sibling(d, n, parent) # Null THEN Sibling(d, n, parent)
        ELSE IF d.node[parent].parent = Null THEN Null
        ELSE Climb[d.node[parent].parent][IF parent = start THEN Null ELSE parent]]
  IN  IF d.node[from].parent = Null THEN from ELSE Climb[d.node[from].parent][from]

NextOf(d, start, n) ==
  LET first == IF d.decl # Null THEN d.decl ELSE IF d.type # Null THEN d.type ELSE Root(d)
      ret == IF n = Doc THEN first ELSE n
      down == IF n = Doc THEN (IF first # Null /\ first = Root(d) THEN FirstKid(d, first) ELSE Null)
              ELSE IF IsElement(d, n) THEN FirstKid(d, n) ELSE Null
  IN  [ret |-> ret,
       at |-> IF down # Null THEN down ELSE IF ret = Null THEN Null ELSE Onward(d, start, ret)]
-----------------------------------------------------------------------------
Start(d) == IF WalkFrom = "document" THEN Doc ELSE Root(d)

Init ==
  /\ parser \in {Drain(NewParser(ignore)) : ignore \in BOOLEAN}
  /\ dom = NewDom
  /\ current = Null
  /\ input = <<>>
  /\ appended = 0
  /\ phase = "append"
  /\ walker = Null
  /\ visited = <<>>

(* SP_XmlDomParser::append: the readers take the chunk, then buildTree     *)
(* takes every event there is.                                             *)
AppendChunk(chunk) ==
  /\ phase = "append"
  /\ appended < MaxChunks
  /\ \E p \in {FeedAll(parser, chunk)} :
       /\ p.fault # "must"
       /\ parser' = [Drain(p) EXCEPT !.fault = "no"]
       /\ \E b \in {BuildTree([dom |-> dom, current |-> current], p.queue)} :
            dom' = b.dom /\ current' = b.current
  /\ input' = input \o chunk
  /\ appended' = appended + 1
  /\ UNCHANGED <<phase, walker, visited>>

(* The null name is copied, or the unset pointer points nowhere.           *)
Fault(chunk) ==
  /\ phase = "append"
  /\ appended < MaxChunks
  /\ FeedAll(parser, chunk).fault # "no"
  /\ phase' = "fault"
  /\ UNCHANGED <<parser, dom, current, input, appended, walker, visited>>

(* The source has ended, whatever was still open.                          *)
Iterate ==
  /\ phase = "append"
  /\ phase' = "walk"
  /\ walker' = Start(dom)
  /\ UNCHANGED <<parser, dom, current, input, appended, visited>>

(* Mutant: at its end the iterator starts again.                           *)
GetNextRewinds ==
  LET next == NextOf(dom, Start(dom), walker)
  IN  /\ phase = "walk"
      /\ IF walker = Null \/ next.ret = Null
         THEN walker' = Start(dom) /\ visited' = <<>>
         ELSE walker' = next.at /\ visited' = Append(visited, next.ret)
      /\ UNCHANGED <<parser, dom, current, input, appended, phase>>

GetNext ==
  LET next == NextOf(dom, Start(dom), walker)
  IN  /\ phase = "walk"
      /\ IF walker = Null \/ next.ret = Null
         THEN phase' = "done" /\ walker' = Null /\ UNCHANGED visited
         ELSE walker' = next.at /\ visited' = Append(visited, next.ret) /\ UNCHANGED phase
      /\ UNCHANGED <<parser, dom, current, input, appended>>

Next ==
  \/ \E chunk \in Chunks : AppendChunk(chunk) \/ Fault(chunk)
  \/ Iterate
  \/ GetNext

(* The caller's loop runs until getNext returns null; nothing says that it *)
(* ever stops appending.                                                   *)
Spec == Init /\ [][Next]_vars /\ WF_vars(GetNext)
=============================================================================
