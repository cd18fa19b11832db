----------------------------- MODULE XmlParser ------------------------------
(***************************************************************************)
(* SP_XmlPullParser, its readers (spxmlreader.cpp) and the parser of the   *)
(* inside of a tag (spxmlstag.cpp) as operators on a parser record: what   *)
(* append does with every symbol, and what getNext hands out.  The readers *)
(* come from a pool and are reset when they are given back, so one buffer  *)
(* stands for all of them; a reader that is fed before the parser changes  *)
(* to it starts with what it was fed.                                      *)
(***************************************************************************)
EXTENDS XmlCodec

CONSTANT SegmentLen     \* sizeof( mErrorSegment )

ASSUME SegmentLenAssumption == SegmentLen \in Nat \ {0}

NoName == <<"no name">> \* SP_XmlStartTagEvent::mName that was never set

(* The events.                                                             *)
StartDocument == [type |-> "StartDocument"]
EndDocument == [type |-> "EndDocument"]
DocDecl(version, encoding, standalone) ==
  [type |-> "DocDecl", version |-> version, encoding |-> encoding, standalone |-> standalone]
DocType(name, public, system, dtd) ==
  [type |-> "DocType", name |-> name, public |-> public, system |-> system, dtd |-> dtd]
PI(target, data) == [type |-> "PI", target |-> target, data |-> data]
StartTag(name, attrs) == [type |-> "StartTag", name |-> name, attrs |-> attrs]
EndTag(text) == [type |-> "EndTag", text |-> text]
CData(text) == [type |-> "CData", text |-> text]
Comment(text) == [type |-> "Comment", text |-> text]

NewParser(ignore) ==
  [reader |-> "LBracket", buffer |-> <<>>, quote |-> "", bracket |-> FALSE,
   tags |-> <<>>, root |-> "None", queue |-> <<StartDocument>>,
   level |-> 0, encoding |-> "utf-8", ignore |-> ignore, error |-> "",
   ring |-> [i \in 0..SegmentLen - 1 |-> ""], index |-> 0, row |-> 0, col |-> 0,
   fault |-> "no"]     \* "may": decode used the unset pointer; "must": a null name was copied

SetError(p, what) == [p EXCEPT !.error = what]

Without(text, ends) == \* text up to the first symbol of ends
  LET at == SelectInSeq(text, LAMBDA s : s \in ends)
  IN  IF at = 0 THEN text ELSE SubSeq(text, 1, at - 1)

Unpadded(text) == \* text without its leading blanks
  LET at == SelectInSeq(text, LAMBDA s : s \notin Spaces)
  IN  IF at = 0 THEN <<>> ELSE SubSeq(text, at, Len(text))

-----------------------------------------------------------------------------
(* SP_XmlSTagParser: the name, then attribute names, equal marks, values.  *)
NewTag(encoding) ==
  [state |-> "Name", buffer |-> <<>>, quote |-> "", name |-> NoName, attr |-> <<>>,
   attrs |-> <<>>, error |-> "", encoding |-> encoding, wild |-> FALSE]

To(t, state) == [t EXCEPT !.state = state, !.buffer = <<>>, !.quote = ""]

Keep(t, c) == [t EXCEPT !.buffer = Append(@, c)]

AddAttrName(t) == [t EXCEPT !.attr = @ \o t.buffer]

AddAttrValue(t, value) ==
  [t EXCEPT !.attrs = Append(@, <<t.attr, Decode(t.encoding, value)>>), !.attr = <<>>,
            !.wild = @ \/ Wild(value)]

TagName(t, c) ==
  IF c \notin Spaces THEN Keep(t, c)
  ELSE IF t.buffer = <<>> THEN t
  ELSE To([t EXCEPT !.name = t.buffer], "AttrName")

AttrName(t, c) ==
  IF t.quote = "\""
  THEN IF c = "\"" THEN To(AddAttrName(t), "Equal") ELSE Keep(t, c)
  ELSE IF c \in Spaces
  THEN IF t.buffer = <<>> THEN t ELSE To(AddAttrName(t), "Equal")
  ELSE IF c = "\"" /\ t.buffer = <<>> THEN [t EXCEPT !.quote = c]
  ELSE IF c = "=" THEN To(AddAttrName(t), "Value")
  ELSE Keep(t, c)

EqualMark(t, c) ==
  IF c \in Spaces THEN t
  ELSE IF c = "=" THEN To(t, "Value")
  ELSE AttrName(To(AddAttrValue(t, <<>>), "AttrName"), c)

AttrValue(t, c) ==
  IF t.quote = ""
  THEN IF c \in Spaces THEN t
       ELSE IF c \in {"\"", "'"} THEN [t EXCEPT !.quote = c]
       ELSE [t EXCEPT !.error = "unknown attribute value start"]
  ELSE IF c = t.quote THEN To(AddAttrValue(t, t.buffer), "AttrName")
  ELSE Keep(t, c)

TagRead(t, c) ==
  IF t.error # "" THEN t
  ELSE CASE t.state = "Name" -> TagName(t, c)
         [] t.state = "AttrName" -> AttrName(t, c)
         [] t.state = "Equal" -> EqualMark(t, c)
         [] t.state = "Value" -> AttrValue(t, c)

ParseTag(encoding, text) == Run(TagRead, NewTag(encoding), Append(text, " "))

-----------------------------------------------------------------------------
(* getEvent of each reader: the events it makes of its buffer, none or one,*)
(* and the error it reports.                                               *)
Made(event) == [events |-> <<event>>, error |-> "", wild |-> FALSE]
Nothing == [events |-> <<>>, error |-> "", wild |-> FALSE]

AttrOf(t, name) == \* getAttrValue; an absent attribute is set as ""
  LET at == SelectInSeq(t.attrs, LAMBDA a : a[1] = <<name>>)
  IN  IF at = 0 THEN <<>> ELSE t.attrs[at][2]

DocDeclOf(t) ==
  IF t.error # "" THEN [Nothing EXCEPT !.error = t.error]
  ELSE Made(DocDecl(AttrOf(t, "version"), AttrOf(t, "encoding"), AttrOf(t, "standalone")))

PIEvent(encoding, buffer) ==
  LET body == Unpadded(buffer)
      target == Without(body, {"?"} \cup Spaces)
      rest == Unpadded(SubSeq(body, Len(target) + 1, Len(body)))
  IN  IF buffer = <<>> THEN Nothing
      ELSE IF target = <<"xml">> THEN DocDeclOf(ParseTag(encoding, buffer))
      ELSE Made(PI(target, Without(rest, {"?"})))

StartTagOf(t) ==
  IF t.error # "" THEN [Nothing EXCEPT !.error = t.error]
  ELSE [Made(StartTag(t.name, t.attrs)) EXCEPT !.wild = t.wild]

(* The loop that trims the end tag stops at the first symbol, blank or not. *)
EndTagEvent(buffer) ==
  LET last == SelectLastInSeq(buffer, LAMBDA s : s \notin Spaces)
  IN  Made(EndTag(SubSeq(buffer, 1, IF last = 0 /\ buffer # <<>> THEN 1 ELSE last)))

PCDataEvent(encoding, ignore, buffer) ==
  IF buffer = <<>> \/ (ignore /\ IsSpaces(buffer)) THEN Nothing
  ELSE [Made(CData(Decode(encoding, buffer))) EXCEPT !.wild = Wild(buffer)]

CDataSectionEvent(ignore, buffer) ==
  LET data == IF buffer # <<>> /\ Head(buffer) = "CDATA[" THEN Tail(buffer) ELSE buffer
      text == SubSeq(data, 1, Len(data) - 2)
  IN  IF Len(data) <= 2 \/ (ignore /\ IsSpaces(text)) THEN Nothing
      ELSE Made(CData(text))

CommentEvent(buffer) == Made(Comment(SubSeq(buffer, 1, Len(buffer) - 2)))

(* The words are read in pairs, PUBLIC and the word after it; a word at    *)
(* the very end is not among them, its value never having begun.           *)
DocTypeOf(t) ==
  LET Word(i) == IF i \in DOMAIN t.attrs THEN t.attrs[i][1] ELSE <<>>
      Odd(Is(_)) == {i \in DOMAIN t.attrs : i % 2 = 1 /\ Is(Word(i))}
      Latest(at, off) == IF at = {} THEN <<>> ELSE Word(off + CHOOSE i \in at : \A j \in at : i >= j)
      After(word) == Latest(Odd(LAMBDA w : w = <<word>>), 1)
  IN  IF t.error # "" THEN Nothing
      ELSE Made(DocType(After("DOCTYPE"), After("PUBLIC"), After("SYSTEM"),
                        Latest(Odd(LAMBDA w : \E i \in DOMAIN w : w[i] = ".dtd"), 0)))

GetEvent(p) ==
  CASE p.reader = "PI" -> PIEvent(p.encoding, p.buffer)
    [] p.reader = "STag" -> StartTagOf(ParseTag(p.encoding, p.buffer))
    [] p.reader = "ETag" -> EndTagEvent(p.buffer)
    [] p.reader = "PCData" -> PCDataEvent(p.encoding, p.ignore, p.buffer)
    [] p.reader = "CDataSection" -> CDataSectionEvent(p.ignore, p.buffer)
    [] p.reader = "Comment" -> CommentEvent(p.buffer)
    [] p.reader = "DocType" -> DocTypeOf(ParseTag(p.encoding, <<"DOCTYPE", " ">> \o p.buffer))
    [] OTHER -> Nothing
-----------------------------------------------------------------------------
(* changeReader: the event of the reader that is left is checked against   *)
(* the open tags and queued, the reader goes back to the pool, the next    *)
(* one takes over with what it was fed.                                    *)
Enqueue(p, event) == [p EXCEPT !.queue = Append(@, event)]

CloseRoot(p) ==
  IF p.tags = <<>> /\ p.root = "Start"
  THEN [Enqueue(p, EndDocument) EXCEPT !.root = "End"] ELSE p

OpenTag(p, event) ==
  [Enqueue(p, event) EXCEPT !.fault = IF event.name = NoName THEN "must" ELSE @,
                            !.tags = Append(@, event.name),
                            !.root = IF @ = "None" THEN "Start" ELSE @]

(* Mutant: the name of the start tag is looked at and stays on the stack.  *)
CloseTagPeek(p, event) ==
  IF p.tags = <<>> \/ Last(p.tags) # event.text THEN SetError(p, "mismatched tag")
  ELSE CloseRoot(Enqueue(p, event))

CloseTag(p, event) ==
  IF p.tags = <<>> THEN SetError(p, "mismatched tag")
  ELSE IF Last(p.tags) # event.text
  THEN SetError([p EXCEPT !.tags = Front(@)], "mismatched tag")
  ELSE CloseRoot(Enqueue([p EXCEPT !.tags = Front(@)], event))

Accept(p, event) ==
  CASE event.type = "StartTag" -> OpenTag(p, event)
    [] event.type = "EndTag" -> CloseTag(p, event)
    [] event.type = "DocDecl" ->
         CloseRoot(Enqueue([p EXCEPT !.encoding = IF event.encoding = <<>> THEN "utf-8"
                                                  ELSE Head(event.encoding)], event))
    [] OTHER -> CloseRoot(Enqueue(p, event))

TakeError(p, got) ==
  [p EXCEPT !.error = IF got.error = "" THEN @ ELSE got.error,
            !.fault = IF got.wild THEN "may" ELSE @]

TakeEvent(p, got) ==
  IF got.events = <<>> THEN TakeError(p, got) ELSE Accept(TakeError(p, got), got.events[1])

ChangeReader(p, reader, fed) ==
  [TakeEvent(p, GetEvent(p)) EXCEPT !.reader = reader, !.buffer = fed, !.quote = "", !.bracket = FALSE]

(* The readers, one symbol at a time.                                      *)
Hold(p, c) == [p EXCEPT !.buffer = Append(@, c)]

Ends(buffer, mark) == \* with two of mark
  Len(buffer) >= 2 /\ SubSeq(buffer, Len(buffer) - 1, Len(buffer)) = <<mark, mark>>

ReadPI(p, c) == IF c = ">" THEN ChangeReader(p, "PCData", <<>>) ELSE Hold(p, c)

Slashless(name) == SelectSeq(name, LAMBDA s : s # "/")

(* A "/" ends the start tag: the end tag reader is fed the name, and takes *)
(* offence at a "/" in it.                                                 *)
ReadSTag(p, c) ==
  LET name == Without(Unpadded(p.buffer), Spaces)
      Toggle(q) == IF p.quote = "" THEN (IF c \in {"'", "\""} THEN c ELSE "")
                   ELSE IF c = q THEN "" ELSE q
  IN  IF p.quote = "" /\ c = ">" THEN ChangeReader(p, "PCData", <<>>)
      ELSE IF p.quote = "" /\ c = "/"
      THEN ChangeReader(IF \E i \in DOMAIN name : name[i] = "/"
                        THEN SetError(p, "illegal name char") ELSE p,
                        "ETag", Slashless(name))
      ELSE IF p.quote = "" /\ c = "<" THEN SetError(p, "illegal char")
      ELSE [Hold(p, c) EXCEPT !.quote = Toggle(@)]

ReadETag(p, c) ==
  IF c = ">" THEN ChangeReader(p, "PCData", <<>>)
  ELSE IF c = "/" THEN SetError(p, "illegal name char")
  ELSE Hold(p, c)

(* The bracket reader is handed the "<" before the parser changes to it.   *)
ReadPCData(p, c) ==
  IF c = "<" THEN [ChangeReader(p, "LBracket", <<>>) EXCEPT !.bracket = TRUE] ELSE Hold(p, c)

ReadCDataSection(p, c) ==
  IF c = ">" /\ Len(p.buffer) > 2 /\ Ends(p.buffer, "]") THEN ChangeReader(p, "PCData", <<>>)
  ELSE Hold(p, c)

ReadComment(p, c) ==
  IF c = ">" /\ Ends(p.buffer, "-") THEN ChangeReader(p, "PCData", <<>>) ELSE Hold(p, c)

ReadDocType(p, c) ==
  LET subset == \E i \in DOMAIN p.buffer : p.buffer[i] = "["
  IN  IF c = ">" /\ (subset => Last(p.buffer) = "]") THEN ChangeReader(p, "PCData", <<>>)
      ELSE Hold(p, c)

AfterBracket == [c \in {"?", "/", "!"} |->
                   CASE c = "?" -> "PI" [] c = "/" -> "ETag" [] c = "!" -> "Sign"]

(* Whatever is a name character is read by the start tag reader before the *)
(* parser changes to it: a ">" there has already changed the reader.       *)
ReadLBracket(p, c) ==
  IF ~p.bracket THEN [p EXCEPT !.bracket = (c = "<")]
  ELSE CASE c \in DOMAIN AfterBracket -> ChangeReader(p, AfterBracket[c], <<>>)
         [] c \notin DOMAIN AfterBracket /\ IsNameChar(p.encoding, c) ->
              IF c = ">" THEN ChangeReader(ChangeReader(p, "PCData", <<>>), "STag", <<>>)
              ELSE [ChangeReader(IF c = "<" THEN SetError(p, "illegal char") ELSE p,
                                 "STag", IF c = "<" THEN <<>> ELSE <<c>>)
                      EXCEPT !.quote = IF c \in {"'", "\""} THEN c ELSE ""]
         [] OTHER -> SetError(p, "not well-formed")

AfterSign == [c \in {"[", "-", "DOCTYPE"} |->
                CASE c = "[" -> "CDataSection" [] c = "-" -> "Comment" [] c = "DOCTYPE" -> "DocType"]

ReadSign(p, c) ==
  CASE c \in DOMAIN AfterSign -> ChangeReader(p, AfterSign[c], IF c = "DOCTYPE" THEN <<c>> ELSE <<>>)
    [] OTHER -> SetError(p, "not well-formed")

Read(p, c) ==
  CASE p.reader = "PI" -> ReadPI(p, c)
    [] p.reader = "STag" -> ReadSTag(p, c)
    [] p.reader = "ETag" -> ReadETag(p, c)
    [] p.reader = "PCData" -> ReadPCData(p, c)
    [] p.reader = "CDataSection" -> ReadCDataSection(p, c)
    [] p.reader = "Comment" -> ReadComment(p, c)
    [] p.reader = "DocType" -> ReadDocType(p, c)
    [] p.reader = "LBracket" -> ReadLBracket(p, c)
    [] p.reader = "Sign" -> ReadSign(p, c)

(* append: symbol after symbol, until there is an error.                   *)
Feed(p, c) ==
  IF p.error # "" \/ p.fault = "must" THEN p
  ELSE [Read([p EXCEPT !.ring[p.index % SegmentLen] = c, !.index = @ + 1], c)
          EXCEPT !.row = IF c = "\n" THEN @ + 1 ELSE @, !.col = IF c = "\n" THEN 0 ELSE @ + 1]

(* Mutant: each call starts with an empty buffer.                          *)
FeedAllAfresh(p, text) == Run(Feed, [p EXCEPT !.buffer = <<>>], text)

FeedAll(p, text) == Run(Feed, p, text)

(* getNext, as long as there is something to get.                          *)
LevelAfter(level, event) ==
  CASE event.type = "StartTag" -> level + 1 [] event.type = "EndTag" -> level - 1 [] OTHER -> level

(* Mutant: one event is taken per call.                                    *)
DrainFirst(p) ==
  IF p.queue = <<>> THEN p
  ELSE [p EXCEPT !.queue = Tail(@), !.level = LevelAfter(@, Head(p.queue))]

Drain(p) == [p EXCEPT !.queue = <<>>, !.level = Run(LevelAfter, @, p.queue)]

(* What setError shows of the input: the last SegmentLen symbols read, the *)
(* oldest first, out of the ring they were written to.                     *)
Segment(p) ==
  LET offset == p.index % SegmentLen
      Slots(from, to) == [i \in 1..to - from |-> p.ring[from + i - 1]]
  IN  IF p.index < SegmentLen THEN Slots(0, p.index)
      ELSE Slots(offset, SegmentLen) \o Slots(0, offset)
=============================================================================
