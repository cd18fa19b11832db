---------------------------- MODULE XmlDocuments ----------------------------
(***************************************************************************)
(* What the XML library promises of a document, whatever was in the source *)
(* and wherever the source was cut: stated over XmlDom.                    *)
(***************************************************************************)
EXTENDS XmlDom

TypeOK ==
  /\ parser.reader \in {"PI", "STag", "ETag", "PCData", "CDataSection", "Comment", "DocType",
                        "LBracket", "Sign"}
  /\ parser.root \in {"None", "Start", "End"}
  /\ parser.queue = <<>>
  /\ parser.fault = "no"
  /\ Doc \in Nodes(dom)
  /\ {dom.decl, dom.type, current, walker} \subseteq Nodes(dom) \cup {Null}
  /\ phase \in {"append", "walk", "done", "fault"}
  /\ appended \in 0..MaxChunks
  /\ \A i \in DOMAIN visited : visited[i] \in Nodes(dom)

(* The document is complete and the walk over it has not begun.            *)
Finished == phase = "walk" /\ visited = <<>>

-----------------------------------------------------------------------------
OpenNames(d, n) == \* the names from the root down to n
  LET Names[m \in Nodes(d) \cup {Null}] ==
        IF m \in {Null, Doc} THEN <<>> ELSE Append(Names[d.node[m].parent], d.node[m].event.name)
  IN  Names[n]

(* The builder of the tree stands where the parser of the tags stands: the *)
(* elements from the root to mCurrent are the open start tags, and the     *)
(* level getLevel tells is their number (spxmlparser.cpp changeReader,     *)
(* spdomparser.cpp buildTree).                                             *)
BuilderFollowsParser ==
  parser.error = "" => /\ OpenNames(dom, current) = parser.tags
                       /\ parser.level = Len(parser.tags)

(* Every node hangs where its parent pointer says and nowhere else, but    *)
(* for the instructions outside the root element, which hang in the        *)
(* document and have no parent pointer; the document has one root element  *)
(* at most, and the element under construction is below it, also after a   *)
(* second root has replaced the first (spxmlnode.cpp setRootElement,       *)
(* addChild, spdomparser.cpp 130-138).                                     *)
TreeIsSound ==
  /\ \A n \in Nodes(dom) \ {Doc} :
       LET holders == {m \in Nodes(dom) : \E i \in DOMAIN Kids(dom, m) : Kids(dom, m)[i] = n}
       IN  IF n \in {dom.decl, dom.type} THEN holders = {} /\ dom.node[n].parent = Doc
           ELSE /\ Cardinality(holders) = 1
                /\ dom.node[n].parent \in holders \/ (holders = {Doc} /\ TypeOf(dom, n) = "PI")
  /\ Cardinality({i \in DOMAIN Kids(dom, Doc) : IsElement(dom, Kids(dom, Doc)[i])}) <= 1
  /\ current # Null => Root(dom) \in Above(dom, current)

(* Where the source is cut does not matter: the document is the one a      *)
(* single append of the whole source builds, and the error text quotes the *)
(* last symbols of that source, in order (spdomparser.cpp append,          *)
(* spxmlparser.cpp append and setError).                                   *)
CutsDoNotMatter ==
  /\ dom = Document(parser.ignore, input)
  /\ Segment(parser) =
       SubSeq(input, IF parser.index > SegmentLen THEN parser.index - SegmentLen + 1 ELSE 1, parser.index)

-----------------------------------------------------------------------------
(* The nodes below a node in document order, and itself before them; below *)
(* the document its DocDecl and DocType and all its children, which are    *)
(* the root element and the instructions before and behind it.             *)
InOrder(d, from) ==
  LET Pre[n \in Nodes(d)] == <<n>> \o FlattenSeq([i \in DOMAIN Kids(d, n) |-> Pre[Kids(d, n)[i]]])
      One(n) == IF n = Null THEN <<>> ELSE <<n>>
  IN  CASE from = Null -> <<>>
        [] from = Doc -> One(d.decl) \o One(d.type) \o Tail(Pre[Doc])
        [] OTHER -> Pre[from]

OutsideRoot(d, n) == TypeOf(d, n) = "PI" /\ d.node[n].parent = Null

(* getNext returns nodes of the tree it was given in document order, each  *)
(* once, and passes over none but the instructions outside the root        *)
(* element (spdomiterator.cpp 23-100).                                     *)
WalkIsDepthFirst ==
  LET Reached(n) == ~OutsideRoot(dom, n)
      order      == SelectSeq(InOrder(dom, Start(dom)), Reached)
  IN  IsPrefix(visited, order) /\ (phase = "done" => visited = order)

(* A loop over getNext comes to an end, in whatever tree.                  *)
WalkEnds == phase = "walk" ~> phase = "done"

(* SP_XmlHandle: getElement and getChild by name count among the children  *)
(* they are meant for, and only those.                                     *)
HandlesCountRightly ==
  Finished => \A n \in Nodes(dom) :
    LET Elements == SelectSeq(Kids(dom, n), LAMBDA k : IsElement(dom, k))
        Nth(s, i) == IF i < Len(s) THEN s[i + 1] ELSE Null
    IN  IsElement(dom, n) =>
          \A i \in 0..2 :
            /\ GetElement(dom, n, Nodes(dom), i) = Nth(Elements, i)
            /\ \A k \in Nodes(dom) : IsElement(dom, k) =>
                 LET Same(m) == dom.node[m].event.name = dom.node[k].event.name
                     named == {m \in Nodes(dom) : IsElement(dom, m) /\ Same(m)}
                 IN  GetElement(dom, n, named, i) = Nth(SelectSeq(Elements, Same), i)

-----------------------------------------------------------------------------
Shape(d) == \* the document without the numbers of its nodes
  LET Of[n \in Nodes(d)] == <<d.node[n].event, [i \in DOMAIN Kids(d, n) |-> Of[Kids(d, n)[i]]]>>
  IN  <<IF d.decl = Null THEN <<>> ELSE Of[d.decl], Of[Doc]>>

Just(text) == \* every lead byte has the byte it announces
  \A i \in DOMAIN text :
    /\ text[i] = Lead => i < Len(text) /\ text[i + 1] = Tail2
    /\ text[i] = Tail2 => i > 1 /\ text[i - 1] = Lead

(* Names without a quote in them, which the readers would take; NameOrder  *)
(* has the attribute names.                                                *)
ProperNames(d) ==
  \A n \in Nodes(d) : IsElement(d, n) =>
    /\ \A i \in DOMAIN d.node[n].event.name : d.node[n].event.name[i] \notin {"'", "\""}
    /\ \A i \in DOMAIN d.node[n].event.attrs :
         /\ d.node[n].event.attrs[i][1] \in Range(NameOrder)
         /\ Just(d.node[n].event.attrs[i][2])

(* What indentation and the comment reader do not change: no comment, no   *)
(* DOCTYPE, text only on its own in an element, and not blank.             *)
Plain(d) ==
  /\ ProperNames(d)
  /\ d.type = Null
  /\ d.decl # Null => d.node[d.decl].event.version # <<>>
  /\ \A n \in Nodes(d) :
       /\ TypeOf(d, n) # "Comment"
       /\ TypeOf(d, n) = "PI" => d.node[n].event.target # <<>>
       /\ TypeOf(d, n) = "CData" =>
            /\ Just(d.node[n].event.text)
            /\ ~IsSpaces(d.node[n].event.text)
            /\ Kids(d, d.node[n].parent) = <<n>>

ReadsBack(d, indent) ==
  Plain(d) /\ parser.encoding # "gbk" => Shape(Document(TRUE, Dump(d, indent))) = Shape(d)

NoneEmpty(d) == \A n \in Nodes(d) : IsElement(d, n) => Kids(d, n) # <<>>

(* Writing a plain document out with indentation and reading it again      *)
(* gives the document back, and so does writing it without, if no element  *)
(* is empty: the entities, the quotes and the end tags agree on both       *)
(* sides.  The canonical form of what is read back from the canonical form is      *)
(* itself, and reading it meets no error (SP_XmlDomBuffer, spcanonxml.cpp, *)
(* used by testxmlconf.cpp to compare documents, and the readers).         *)
WritesReadBack ==
  /\ Finished => ReadsBack(dom, TRUE)
  /\ Finished /\ NoneEmpty(dom) => ReadsBack(dom, FALSE)
  /\ Finished /\ ProperNames(dom) =>
       /\ Parsed(FALSE, Canon(dom)).error = ""
       /\ Canon(Document(FALSE, Canon(dom))) = Canon(dom)
=============================================================================
