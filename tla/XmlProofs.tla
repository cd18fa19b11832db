----------------------------- MODULE XmlProofs ------------------------------
(***************************************************************************)
(* What TLAPS proves of the XML library.                                   *)
(***************************************************************************)
EXTENDS XmlDocuments, Lemmas, FiniteSetTheorems

(* A sequence of anything.                                                  *)
IsSeq(s) == Len(s) \in Nat /\ s = [i \in 1..Len(s) |-> s[i]]

LEMMA IsSeqOf ==
  ASSUME NEW s, IsSeq(s)
  PROVE  s \in Seq({s[i] : i \in 1..Len(s)})
BY DEF IsSeq

LEMMA SeqIs ==
  ASSUME NEW S, NEW s \in Seq(S)
  PROVE  IsSeq(s)
BY DEF IsSeq

(* Two sequences are sequences over one set.                                *)
LEMMA OneSet ==
  ASSUME NEW s, IsSeq(s), NEW t, IsSeq(t)
  PROVE  \E S : s \in Seq(S) /\ t \in Seq(S)
<1> DEFINE A == {s[i] : i \in 1..Len(s)}
           B == {t[i] : i \in 1..Len(t)}
           S == A \cup B
<1>1. s \in Seq(A) /\ t \in Seq(B)
  BY IsSeqOf
<1> HIDE DEF A, B
<1>2. s \in Seq(S) /\ t \in Seq(S)
  BY <1>1
<1> QED
  BY <1>2

LEMMA Joined ==
  ASSUME NEW s, IsSeq(s), NEW t, IsSeq(t), NEW e
  PROVE  /\ IsSeq(s \o t) /\ IsSeq(Append(s, e))
         /\ s \o Append(t, e) = Append(s \o t, e)
         /\ s \o <<>> = s /\ <<>> \o s = s
<1>1. PICK S : s \in Seq(S) /\ t \in Seq(S)
  BY OneSet
<1> DEFINE T == S \cup {e}
<1>2. s \in Seq(T) /\ t \in Seq(T) /\ e \in T
  BY <1>1
<1> HIDE DEF T
<1>3. s \o t \in Seq(T) /\ Append(s, e) \in Seq(T) /\ Append(t, e) \in Seq(T)
  BY <1>2
<1>4. s \o Append(t, e) = Append(s \o t, e)
  BY <1>2, <1>3
<1>5. s \o <<>> = s /\ <<>> \o s = s
  BY <1>2
<1> QED
  BY <1>3, <1>4, <1>5, SeqIs
-----------------------------------------------------------------------------
ParserFields ==
  {"reader", "buffer", "quote", "bracket", "tags", "root", "queue", "level", "encoding",
   "ignore", "error", "ring", "index", "row", "col", "fault"}

Roots == {"None", "Start", "End"}

IsParser(p) == p = [f \in ParserFields |-> p[f]] /\ IsSeq(p.queue) /\ p.root \in Roots

(* Two parsers that read on alike; w has the events q before those of p.    *)
Alike(p, w, q) ==
  /\ IsParser(p) /\ IsParser(w) /\ IsSeq(q)
  /\ w.reader = p.reader /\ w.buffer = p.buffer /\ w.quote = p.quote /\ w.bracket = p.bracket
  /\ w.tags = p.tags /\ w.root = p.root /\ w.encoding = p.encoding /\ w.ignore = p.ignore
  /\ w.error = p.error
  /\ w.queue = q \o p.queue
  /\ w.fault = "must" <=> p.fault = "must"

(* Readers do not count symbols, and take no events out.                    *)
Counts(p, o) ==
  /\ o.ring = p.ring /\ o.index = p.index /\ o.row = p.row /\ o.col = p.col /\ o.level = p.level
  /\ o.ignore = p.ignore

LEMMA SetErrorAlike ==
  ASSUME NEW p, NEW w, NEW q, Alike(p, w, q), NEW what
  PROVE  Alike(SetError(p, what), SetError(w, what), q) /\ Counts(p, SetError(p, what))
BY DEF Alike, Counts, SetError, IsParser, ParserFields

LEMMA HoldAlike ==
  ASSUME NEW p, NEW w, NEW q, Alike(p, w, q), NEW c
  PROVE  Alike(Hold(p, c), Hold(w, c), q) /\ Counts(p, Hold(p, c))
BY DEF Alike, Counts, Hold, IsParser, ParserFields

LEMMA EnqueueAlike ==
  ASSUME NEW p, NEW w, NEW q, Alike(p, w, q), NEW e
  PROVE  Alike(Enqueue(p, e), Enqueue(w, e), q) /\ Counts(p, Enqueue(p, e))
<1>1. IsSeq(p.queue) /\ IsSeq(w.queue) /\ IsSeq(q) /\ w.queue = q \o p.queue
  BY DEF Alike, IsParser
<1>2. /\ IsSeq(Append(p.queue, e)) /\ IsSeq(Append(w.queue, e))
      /\ q \o Append(p.queue, e) = Append(w.queue, e)
  BY <1>1, Joined
<1> QED
  BY <1>2 DEF Alike, Counts, Enqueue, IsParser, ParserFields

LEMMA CloseRootAlike ==
  ASSUME NEW p, NEW w, NEW q, Alike(p, w, q)
  PROVE  Alike(CloseRoot(p), CloseRoot(w), q) /\ Counts(p, CloseRoot(p))
<1>1. w.tags = p.tags /\ w.root = p.root
  BY DEF Alike
<1> DEFINE P == Enqueue(p, EndDocument)
           W == Enqueue(w, EndDocument)
<1>2. Alike(P, W, q) /\ Counts(p, P)
  BY EnqueueAlike
<1>3. CASE p.tags = <<>> /\ p.root = "Start"
  <2>1. CloseRoot(p) = [P EXCEPT !.root = "End"] /\ CloseRoot(w) = [W EXCEPT !.root = "End"]
    BY <1>1, <1>3 DEF CloseRoot
  <2> HIDE DEF P, W
  <2>2. /\ Alike([P EXCEPT !.root = "End"], [W EXCEPT !.root = "End"], q)
        /\ Counts(p, [P EXCEPT !.root = "End"])
    <3>1. "End" \in Roots
      BY DEF Roots
    <3> QED
      BY <1>2, <3>1 DEF Alike, Counts, IsParser, ParserFields
  <2> QED
    BY <2>1, <2>2
<1>4. CASE ~(p.tags = <<>> /\ p.root = "Start")
  <2>1. CloseRoot(p) = p /\ CloseRoot(w) = w
    BY <1>1, <1>4 DEF CloseRoot
  <2> QED
    BY <2>1 DEF Counts
<1> QED
  BY <1>3, <1>4

LEMMA CountsOn ==
  ASSUME NEW p, NEW o, NEW r, Counts(p, o), Counts(o, r)
  PROVE  Counts(p, r)
BY DEF Counts

LEMMA OpenTagAlike ==
  ASSUME NEW p, NEW w, NEW q, Alike(p, w, q), NEW event
  PROVE  Alike(OpenTag(p, event), OpenTag(w, event), q) /\ Counts(p, OpenTag(p, event))
<1> DEFINE P == Enqueue(p, event)
           W == Enqueue(w, event)
<1>1. Alike(P, W, q) /\ Counts(p, P)
  BY EnqueueAlike
<1> DEFINE fp == IF event.name = NoName THEN "must" ELSE P.fault
           fw == IF event.name = NoName THEN "must" ELSE W.fault
           t == Append(P.tags, event.name)
           r == IF P.root = "None" THEN "Start" ELSE P.root
<1>2. P.tags = W.tags /\ P.root = W.root /\ (fw = "must" <=> fp = "must") /\ r \in Roots
  <2> HIDE DEF P, W
  <2>1. r \in Roots
    BY <1>1 DEF Alike, IsParser, Roots
  <2> QED
    BY <1>1, <2>1 DEF Alike
<1>3. OpenTag(p, event) = [P EXCEPT !.fault = fp, !.tags = t, !.root = r]
  BY DEF OpenTag
<1>4. OpenTag(w, event) = [W EXCEPT !.fault = fw, !.tags = t, !.root = r]
  BY <1>2 DEF OpenTag
<1> HIDE DEF P, W, fp, fw, t, r
<1>5. /\ Alike([P EXCEPT !.fault = fp, !.tags = t, !.root = r],
               [W EXCEPT !.fault = fw, !.tags = t, !.root = r], q)
      /\ Counts(P, [P EXCEPT !.fault = fp, !.tags = t, !.root = r])
  BY <1>1, <1>2 DEF Alike, Counts, IsParser, ParserFields
<1> QED
  BY <1>1, <1>3, <1>4, <1>5, CountsOn

LEMMA CloseTagAlike ==
  ASSUME NEW p, NEW w, NEW q, Alike(p, w, q), NEW event
  PROVE  Alike(CloseTag(p, event), CloseTag(w, event), q) /\ Counts(p, CloseTag(p, event))
<1> DEFINE P == [p EXCEPT !.tags = Front(@)]
           W == [w EXCEPT !.tags = Front(@)]
<1>1. w.tags = p.tags
  BY DEF Alike
<1>2. Alike(P, W, q) /\ Counts(p, P)
  BY DEF Alike, Counts, IsParser, ParserFields
<1>3. CASE p.tags = <<>>
  <2>1. /\ CloseTag(p, event) = SetError(p, "mismatched tag")
        /\ CloseTag(w, event) = SetError(w, "mismatched tag")
    BY <1>1, <1>3 DEF CloseTag
  <2> QED
    BY <2>1, SetErrorAlike
<1>4. CASE p.tags # <<>> /\ Last(p.tags) # event.text
  <2>1. /\ CloseTag(p, event) = SetError(P, "mismatched tag")
        /\ CloseTag(w, event) = SetError(W, "mismatched tag")
    BY <1>1, <1>4 DEF CloseTag
  <2> HIDE DEF P, W
  <2> QED
    BY <1>2, <2>1, SetErrorAlike, CountsOn
<1>5. CASE p.tags # <<>> /\ Last(p.tags) = event.text
  <2>1. /\ CloseTag(p, event) = CloseRoot(Enqueue(P, event))
        /\ CloseTag(w, event) = CloseRoot(Enqueue(W, event))
    BY <1>1, <1>5 DEF CloseTag
  <2> HIDE DEF P, W
  <2>2. Alike(Enqueue(P, event), Enqueue(W, event), q) /\ Counts(P, Enqueue(P, event))
    BY <1>2, EnqueueAlike
  <2> QED
    BY <1>2, <2>1, <2>2, CloseRootAlike, CountsOn
<1> QED
  BY <1>3, <1>4, <1>5

LEMMA AcceptAlike ==
  ASSUME NEW p, NEW w, NEW q, Alike(p, w, q), NEW event
  PROVE  Alike(Accept(p, event), Accept(w, event), q) /\ Counts(p, Accept(p, event))
<1> DEFINE e == IF event.encoding = <<>> THEN "utf-8" ELSE Head(event.encoding)
           P == [p EXCEPT !.encoding = e]
           W == [w EXCEPT !.encoding = e]
<1>1. CASE event.type = "StartTag"
  BY <1>1, OpenTagAlike DEF Accept
<1>2. CASE event.type = "EndTag"
  BY <1>2, CloseTagAlike DEF Accept
<1>3. CASE event.type = "DocDecl"
  <2>1. /\ Accept(p, event) = CloseRoot(Enqueue(P, event))
        /\ Accept(w, event) = CloseRoot(Enqueue(W, event))
    BY <1>3 DEF Accept
  <2>2. Alike(P, W, q) /\ Counts(p, P)
    <3> HIDE DEF e
    <3> QED
      BY DEF Alike, Counts, IsParser, ParserFields
  <2> HIDE DEF P, W
  <2>3. Alike(Enqueue(P, event), Enqueue(W, event), q) /\ Counts(P, Enqueue(P, event))
    BY <2>2, EnqueueAlike
  <2> QED
    BY <2>1, <2>2, <2>3, CloseRootAlike, CountsOn
<1>4. CASE event.type \notin {"StartTag", "EndTag", "DocDecl"}
  <2>1. /\ Accept(p, event) = CloseRoot(Enqueue(p, event))
        /\ Accept(w, event) = CloseRoot(Enqueue(w, event))
    BY <1>4 DEF Accept
  <2>2. Alike(Enqueue(p, event), Enqueue(w, event), q) /\ Counts(p, Enqueue(p, event))
    BY EnqueueAlike
  <2> QED
    BY <2>1, <2>2, CloseRootAlike, CountsOn
<1> QED
  BY <1>1, <1>2, <1>3, <1>4

LEMMA TakeErrorAlike ==
  ASSUME NEW p, NEW w, NEW q, Alike(p, w, q), NEW got
  PROVE  Alike(TakeError(p, got), TakeError(w, got), q) /\ Counts(p, TakeError(p, got))
<1> DEFINE e == IF got.error = "" THEN p.error ELSE got.error
           fp == IF got.wild THEN "may" ELSE p.fault
           fw == IF got.wild THEN "may" ELSE w.fault
<1>1. w.error = p.error /\ (fw = "must" <=> fp = "must")
  BY DEF Alike
<1>2. TakeError(p, got) = [p EXCEPT !.error = e, !.fault = fp]
  BY DEF TakeError
<1>3. TakeError(w, got) = [w EXCEPT !.error = e, !.fault = fw]
  BY <1>1 DEF TakeError
<1> HIDE DEF e, fp, fw
<1>4. /\ Alike([p EXCEPT !.error = e, !.fault = fp], [w EXCEPT !.error = e, !.fault = fw], q)
      /\ Counts(p, [p EXCEPT !.error = e, !.fault = fp])
  BY <1>1 DEF Alike, Counts, IsParser, ParserFields
<1> QED
  BY <1>2, <1>3, <1>4

LEMMA TakeEventAlike ==
  ASSUME NEW p, NEW w, NEW q, Alike(p, w, q), NEW got
  PROVE  Alike(TakeEvent(p, got), TakeEvent(w, got), q) /\ Counts(p, TakeEvent(p, got))
<1>1. Alike(TakeError(p, got), TakeError(w, got), q) /\ Counts(p, TakeError(p, got))
  BY TakeErrorAlike
<1>2. CASE got.events = <<>>
  BY <1>1, <1>2 DEF TakeEvent
<1>3. CASE got.events # <<>>
  <2> DEFINE e == got.events[1]
             P == TakeError(p, got)
             W == TakeError(w, got)
  <2>1. TakeEvent(p, got) = Accept(P, e) /\ TakeEvent(w, got) = Accept(W, e)
    BY <1>3 DEF TakeEvent
  <2> HIDE DEF P, W, e
  <2>2. Alike(Accept(P, e), Accept(W, e), q) /\ Counts(P, Accept(P, e))
    BY <1>1, AcceptAlike DEF P, W
  <2> QED
    BY <1>1, <2>1, <2>2, CountsOn DEF P, W
<1> QED
  BY <1>2, <1>3

LEMMA GetEventAlike ==
  ASSUME NEW p, NEW w, NEW q, Alike(p, w, q)
  PROVE  GetEvent(w) = GetEvent(p)
<1>1. /\ w.reader = p.reader /\ w.buffer = p.buffer /\ w.encoding = p.encoding
      /\ w.ignore = p.ignore
  BY DEF Alike
<1> QED
  BY <1>1, Zenon DEF GetEvent

(* A reader takes over with what it was fed.                                *)
LEMMA TakenOver ==
  ASSUME NEW p, NEW w, NEW q, Alike(p, w, q), NEW r, NEW b, NEW u, NEW k
  PROVE  /\ Alike([p EXCEPT !.reader = r, !.buffer = b, !.quote = u, !.bracket = k],
                  [w EXCEPT !.reader = r, !.buffer = b, !.quote = u, !.bracket = k], q)
         /\ Counts(p, [p EXCEPT !.reader = r, !.buffer = b, !.quote = u, !.bracket = k])
BY DEF Alike, Counts, IsParser, ParserFields

LEMMA ChangeReaderAlike ==
  ASSUME NEW p, NEW w, NEW q, Alike(p, w, q), NEW reader, NEW fed
  PROVE  /\ Alike(ChangeReader(p, reader, fed), ChangeReader(w, reader, fed), q)
         /\ Counts(p, ChangeReader(p, reader, fed))
<1> DEFINE P == TakeEvent(p, GetEvent(p))
           W == TakeEvent(w, GetEvent(p))
<1>1. Alike(P, W, q) /\ Counts(p, P)
  BY TakeEventAlike
<1>2. ChangeReader(p, reader, fed)
        = [P EXCEPT !.reader = reader, !.buffer = fed, !.quote = "", !.bracket = FALSE]
  BY DEF ChangeReader
<1>3. ChangeReader(w, reader, fed)
        = [W EXCEPT !.reader = reader, !.buffer = fed, !.quote = "", !.bracket = FALSE]
  BY GetEventAlike DEF ChangeReader
<1> HIDE DEF P, W
<1> DEFINE P1 == [P EXCEPT !.reader = reader, !.buffer = fed, !.quote = "", !.bracket = FALSE]
           W1 == [W EXCEPT !.reader = reader, !.buffer = fed, !.quote = "", !.bracket = FALSE]
<1>4. Alike(P1, W1, q) /\ Counts(P, P1)
  BY <1>1, TakenOver
<1> HIDE DEF P1, W1
<1>5. Counts(p, P1)
  BY <1>1, <1>4, CountsOn
<1> QED
  BY <1>2, <1>3, <1>4, <1>5 DEF P1, W1

LEMMA Requoted ==
  ASSUME NEW p, NEW w, NEW q, Alike(p, w, q), NEW u
  PROVE  Alike([p EXCEPT !.quote = u], [w EXCEPT !.quote = u], q) /\ Counts(p, [p EXCEPT !.quote = u])
BY DEF Alike, Counts, IsParser, ParserFields

LEMMA Rebracketed ==
  ASSUME NEW p, NEW w, NEW q, Alike(p, w, q), NEW k
  PROVE  /\ Alike([p EXCEPT !.bracket = k], [w EXCEPT !.bracket = k], q)
         /\ Counts(p, [p EXCEPT !.bracket = k])
BY DEF Alike, Counts, IsParser, ParserFields

(* What one symbol does.                                                    *)
Agrees(p, w, q, o, x) == Alike(o, x, q) /\ Counts(p, o)

LEMMA SimpleReads ==
  ASSUME NEW p, NEW w, NEW q, Alike(p, w, q), NEW c
  PROVE  /\ Agrees(p, w, q, ReadPI(p, c), ReadPI(w, c))
         /\ Agrees(p, w, q, ReadETag(p, c), ReadETag(w, c))
         /\ Agrees(p, w, q, ReadCDataSection(p, c), ReadCDataSection(w, c))
         /\ Agrees(p, w, q, ReadComment(p, c), ReadComment(w, c))
         /\ Agrees(p, w, q, ReadDocType(p, c), ReadDocType(w, c))
         /\ Agrees(p, w, q, ReadSign(p, c), ReadSign(w, c))
<1>1. w.buffer = p.buffer
  BY DEF Alike
<1>2. \A reader, fed : Agrees(p, w, q, ChangeReader(p, reader, fed), ChangeReader(w, reader, fed))
  BY ChangeReaderAlike, Zenon DEF Agrees
<1>3. Agrees(p, w, q, Hold(p, c), Hold(w, c))
  BY HoldAlike, Zenon DEF Agrees
<1>4. \A what : Agrees(p, w, q, SetError(p, what), SetError(w, what))
  BY SetErrorAlike, Zenon DEF Agrees
<1>5. Agrees(p, w, q, ReadPI(p, c), ReadPI(w, c))
  BY <1>2, <1>3, Zenon DEF ReadPI
<1>6. Agrees(p, w, q, ReadETag(p, c), ReadETag(w, c))
  BY <1>2, <1>3, <1>4, Zenon DEF ReadETag
<1>7. Agrees(p, w, q, ReadCDataSection(p, c), ReadCDataSection(w, c))
  BY <1>1, <1>2, <1>3 DEF ReadCDataSection
<1>8. Agrees(p, w, q, ReadComment(p, c), ReadComment(w, c))
  BY <1>1, <1>2, <1>3 DEF ReadComment
<1>9. Agrees(p, w, q, ReadDocType(p, c), ReadDocType(w, c))
  <2> DEFINE closes == c = ">" /\ ((\E i \in DOMAIN p.buffer : p.buffer[i] = "[") => Last(p.buffer) = "]")
  <2>1. CASE closes
    <3>1. /\ ReadDocType(p, c) = ChangeReader(p, "PCData", <<>>)
          /\ ReadDocType(w, c) = ChangeReader(w, "PCData", <<>>)
      BY <1>1, <2>1 DEF ReadDocType
    <3> QED
      BY <1>2, <3>1
  <2>2. CASE ~closes
    <3>1. ReadDocType(p, c) = Hold(p, c) /\ ReadDocType(w, c) = Hold(w, c)
      BY <1>1, <2>2 DEF ReadDocType
    <3> QED
      BY <1>3, <3>1
  <2> QED
    BY <2>1, <2>2
<1>10. Agrees(p, w, q, ReadSign(p, c), ReadSign(w, c))
  <2> DEFINE s == AfterSign[c]
             b == IF c = "DOCTYPE" THEN <<c>> ELSE <<>>
  <2>1. CASE c \in DOMAIN AfterSign
    <3>1. ReadSign(p, c) = ChangeReader(p, s, b) /\ ReadSign(w, c) = ChangeReader(w, s, b)
      BY <2>1, Zenon DEF ReadSign
    <3> HIDE DEF s, b
    <3> QED
      BY <1>2, <3>1
  <2>2. CASE c \notin DOMAIN AfterSign
    <3>1. /\ ReadSign(p, c) = SetError(p, "not well-formed")
          /\ ReadSign(w, c) = SetError(w, "not well-formed")
      BY <2>2, Zenon DEF ReadSign
    <3> QED
      BY <1>4, <3>1
  <2> QED
    BY <2>1, <2>2
<1> QED
  BY <1>5, <1>6, <1>7, <1>8, <1>9, <1>10

LEMMA ReadSTagAlike ==
  ASSUME NEW p, NEW w, NEW q, Alike(p, w, q), NEW c
  PROVE  Agrees(p, w, q, ReadSTag(p, c), ReadSTag(w, c))
<1> DEFINE name == Without(Unpadded(p.buffer), Spaces)
           slash == \E i \in DOMAIN name : name[i] = "/"
           u == IF p.quote = "" THEN (IF c \in {"'", "\""} THEN c ELSE "")
                ELSE IF c = p.quote THEN "" ELSE p.quote
<1>1. w.buffer = p.buffer /\ w.quote = p.quote
  BY DEF Alike
<1>2. Agrees(p, w, q, Hold(p, c), Hold(w, c)) /\ Hold(p, c).quote = p.quote /\ Hold(w, c).quote = p.quote
  <2>1. Hold(p, c).quote = p.quote /\ Hold(w, c).quote = w.quote
    BY DEF Hold, Alike, IsParser, ParserFields
  <2> QED
    BY <1>1, <2>1, HoldAlike DEF Agrees
<1>3. CASE p.quote = "" /\ c = ">"
  <2>1. /\ ReadSTag(p, c) = ChangeReader(p, "PCData", <<>>)
        /\ ReadSTag(w, c) = ChangeReader(w, "PCData", <<>>)
    BY <1>1, <1>3 DEF ReadSTag
  <2> QED
    BY <2>1, ChangeReaderAlike DEF Agrees
<1>4. CASE p.quote = "" /\ c = "/" /\ slash
  <2> DEFINE P == SetError(p, "illegal name char")
             W == SetError(w, "illegal name char")
             n == Slashless(name)
  <2>1. /\ ReadSTag(p, c) = ChangeReader(P, "ETag", n)
        /\ ReadSTag(w, c) = ChangeReader(W, "ETag", n)
    BY <1>1, <1>4 DEF ReadSTag
  <2>2. Alike(P, W, q) /\ Counts(p, P)
    BY SetErrorAlike
  <2> HIDE DEF P, W, n
  <2>3. Alike(ChangeReader(P, "ETag", n), ChangeReader(W, "ETag", n), q) /\ Counts(P, ChangeReader(P, "ETag", n))
    BY <2>2, ChangeReaderAlike
  <2> QED
    BY <2>1, <2>2, <2>3, CountsOn DEF Agrees
<1>5. CASE p.quote = "" /\ c = "/" /\ ~slash
  <2> DEFINE n == Slashless(name)
  <2>1. ReadSTag(p, c) = ChangeReader(p, "ETag", n) /\ ReadSTag(w, c) = ChangeReader(w, "ETag", n)
    BY <1>1, <1>5 DEF ReadSTag
  <2> HIDE DEF n
  <2> QED
    BY <2>1, ChangeReaderAlike DEF Agrees
<1>6. CASE p.quote = "" /\ c = "<"
  <2>1. /\ ReadSTag(p, c) = SetError(p, "illegal char")
        /\ ReadSTag(w, c) = SetError(w, "illegal char")
    BY <1>1, <1>6 DEF ReadSTag
  <2> QED
    BY <2>1, SetErrorAlike DEF Agrees
<1>7. CASE ~(p.quote = "" /\ c \in {">", "/", "<"})
  <2> DEFINE P == Hold(p, c)
             W == Hold(w, c)
  <2>1. ReadSTag(p, c) = [P EXCEPT !.quote = u]
    BY <1>2, <1>7 DEF ReadSTag
  <2>2. ReadSTag(w, c) = [W EXCEPT !.quote = u]
    BY <1>1, <1>2, <1>7 DEF ReadSTag
  <2>3. Alike(P, W, q) /\ Counts(p, P)
    BY <1>2 DEF Agrees
  <2> HIDE DEF P, W, u
  <2>4. Alike([P EXCEPT !.quote = u], [W EXCEPT !.quote = u], q) /\ Counts(P, [P EXCEPT !.quote = u])
    BY <2>3, Requoted
  <2>5. Counts(p, [P EXCEPT !.quote = u])
    BY <2>3, <2>4, CountsOn
  <2> QED
    BY <2>1, <2>2, <2>4, <2>5 DEF Agrees
<1> QED
  BY <1>3, <1>4, <1>5, <1>6, <1>7

LEMMA ReadPCDataAlike ==
  ASSUME NEW p, NEW w, NEW q, Alike(p, w, q), NEW c
  PROVE  Agrees(p, w, q, ReadPCData(p, c), ReadPCData(w, c))
<1>1. CASE c = "<"
  <2> DEFINE P == ChangeReader(p, "LBracket", <<>>)
             W == ChangeReader(w, "LBracket", <<>>)
  <2>1. ReadPCData(p, c) = [P EXCEPT !.bracket = TRUE] /\ ReadPCData(w, c) = [W EXCEPT !.bracket = TRUE]
    BY <1>1 DEF ReadPCData
  <2>2. Alike(P, W, q) /\ Counts(p, P)
    BY ChangeReaderAlike
  <2> HIDE DEF P, W
  <2>3. /\ Alike([P EXCEPT !.bracket = TRUE], [W EXCEPT !.bracket = TRUE], q)
        /\ Counts(P, [P EXCEPT !.bracket = TRUE])
    BY <2>2, Rebracketed
  <2>4. Counts(p, [P EXCEPT !.bracket = TRUE])
    BY <2>2, <2>3, CountsOn
  <2> QED
    BY <2>1, <2>3, <2>4 DEF Agrees
<1>2. CASE c # "<"
  <2>1. ReadPCData(p, c) = Hold(p, c) /\ ReadPCData(w, c) = Hold(w, c)
    BY <1>2 DEF ReadPCData
  <2> QED
    BY <2>1, HoldAlike DEF Agrees
<1> QED
  BY <1>1, <1>2

LEMMA ReadLBracketAlike ==
  ASSUME NEW p, NEW w, NEW q, Alike(p, w, q), NEW c
  PROVE  Agrees(p, w, q, ReadLBracket(p, c), ReadLBracket(w, c))
<1>1. w.bracket = p.bracket /\ w.encoding = p.encoding
  BY DEF Alike
<1>2. CASE ~p.bracket
  <2> DEFINE k == (c = "<")
  <2>1. ReadLBracket(p, c) = [p EXCEPT !.bracket = k] /\ ReadLBracket(w, c) = [w EXCEPT !.bracket = k]
    BY <1>1, <1>2 DEF ReadLBracket
  <2> HIDE DEF k
  <2>2. /\ Alike([p EXCEPT !.bracket = k], [w EXCEPT !.bracket = k], q)
        /\ Counts(p, [p EXCEPT !.bracket = k])
    BY Rebracketed
  <2> QED
    BY <2>1, <2>2, Zenon DEF Agrees
<1>3. CASE p.bracket /\ c \in DOMAIN AfterBracket
  <2> DEFINE r == AfterBracket[c]
  <2>1. ReadLBracket(p, c) = ChangeReader(p, r, <<>>) /\ ReadLBracket(w, c) = ChangeReader(w, r, <<>>)
    BY <1>1, <1>3, Zenon DEF ReadLBracket
  <2> HIDE DEF r
  <2> QED
    BY <2>1, ChangeReaderAlike DEF Agrees
<1>4. CASE p.bracket /\ c \notin DOMAIN AfterBracket /\ IsNameChar(p.encoding, c) /\ c = ">"
  <2> DEFINE P == ChangeReader(p, "PCData", <<>>)
             W == ChangeReader(w, "PCData", <<>>)
  <2>1. ReadLBracket(p, c) = ChangeReader(P, "STag", <<>>) /\ ReadLBracket(w, c) = ChangeReader(W, "STag", <<>>)
    BY <1>1, <1>4, Zenon DEF ReadLBracket
  <2>2. Alike(P, W, q) /\ Counts(p, P)
    BY ChangeReaderAlike
  <2> HIDE DEF P, W
  <2>3. /\ Alike(ChangeReader(P, "STag", <<>>), ChangeReader(W, "STag", <<>>), q)
        /\ Counts(P, ChangeReader(P, "STag", <<>>))
    BY <2>2, ChangeReaderAlike
  <2> QED
    BY <2>1, <2>2, <2>3, CountsOn DEF Agrees
<1>5. CASE p.bracket /\ c \notin DOMAIN AfterBracket /\ IsNameChar(p.encoding, c) /\ c # ">"
  <2> DEFINE P == IF c = "<" THEN SetError(p, "illegal char") ELSE p
             W == IF c = "<" THEN SetError(w, "illegal char") ELSE w
             b == IF c = "<" THEN <<>> ELSE <<c>>
             u == IF c \in {"'", "\""} THEN c ELSE ""
             P1 == ChangeReader(P, "STag", b)
             W1 == ChangeReader(W, "STag", b)
  <2>1. ReadLBracket(p, c) = [P1 EXCEPT !.quote = u]
    BY <1>5, Zenon DEF ReadLBracket
  <2>2. ReadLBracket(w, c) = [W1 EXCEPT !.quote = u]
    BY <1>1, <1>5, Zenon DEF ReadLBracket
  <2>3. Alike(P, W, q) /\ Counts(p, P)
    <3>1. CASE c = "<"
      BY <3>1, SetErrorAlike
    <3>2. CASE c # "<"
      BY <3>2 DEF Counts
    <3> QED
      BY <3>1, <3>2
  <2> HIDE DEF P, W, b, u
  <2>4. Alike(P1, W1, q) /\ Counts(P, P1)
    BY <2>3, ChangeReaderAlike
  <2> HIDE DEF P1, W1
  <2>5. Alike([P1 EXCEPT !.quote = u], [W1 EXCEPT !.quote = u], q) /\ Counts(P1, [P1 EXCEPT !.quote = u])
    BY <2>4, Requoted
  <2>6. Counts(p, P1)
    BY <2>3, <2>4, CountsOn
  <2>7. Counts(p, [P1 EXCEPT !.quote = u])
    BY <2>5, <2>6, CountsOn
  <2> QED
    BY <2>1, <2>2, <2>5, <2>7 DEF Agrees
<1>6. CASE p.bracket /\ c \notin DOMAIN AfterBracket /\ ~IsNameChar(p.encoding, c)
  <2>1. /\ ReadLBracket(p, c) = SetError(p, "not well-formed")
        /\ ReadLBracket(w, c) = SetError(w, "not well-formed")
    BY <1>1, <1>6, Zenon DEF ReadLBracket
  <2> QED
    BY <2>1, SetErrorAlike DEF Agrees
<1> QED
  BY <1>2, <1>3, <1>4, <1>5, <1>6

Readers == {"PI", "STag", "ETag", "PCData", "CDataSection", "Comment", "DocType", "LBracket", "Sign"}

LEMMA ReadAlike ==
  ASSUME NEW p, NEW w, NEW q, Alike(p, w, q), NEW c, p.reader \in Readers
  PROVE  Agrees(p, w, q, Read(p, c), Read(w, c))
<1>1. w.reader = p.reader
  BY DEF Alike
<1>2. CASE p.reader = "PI"
  BY <1>1, <1>2, SimpleReads, Zenon DEF Read
<1>3. CASE p.reader = "STag"
  BY <1>1, <1>3, ReadSTagAlike, Zenon DEF Read
<1>4. CASE p.reader = "ETag"
  BY <1>1, <1>4, SimpleReads, Zenon DEF Read
<1>5. CASE p.reader = "PCData"
  BY <1>1, <1>5, ReadPCDataAlike, Zenon DEF Read
<1>6. CASE p.reader = "CDataSection"
  BY <1>1, <1>6, SimpleReads, Zenon DEF Read
<1>7. CASE p.reader = "Comment"
  BY <1>1, <1>7, SimpleReads, Zenon DEF Read
<1>8. CASE p.reader = "DocType"
  BY <1>1, <1>8, SimpleReads, Zenon DEF Read
<1>9. CASE p.reader = "LBracket"
  BY <1>1, <1>9, ReadLBracketAlike, Zenon DEF Read
<1>10. CASE p.reader = "Sign"
  BY <1>1, <1>10, SimpleReads, Zenon DEF Read
<1> QED
  BY <1>2, <1>3, <1>4, <1>5, <1>6, <1>7, <1>8, <1>9, <1>10 DEF Readers

LEMMA ChangedReader ==
  ASSUME NEW p, IsParser(p), NEW reader, NEW fed
  PROVE  IsParser(ChangeReader(p, reader, fed)) /\ ChangeReader(p, reader, fed).reader = reader
<1>1. IsSeq(<<>>) /\ <<>> \o p.queue = p.queue
  <2>1. IsSeq(<<>>)
    BY DEF IsSeq
  <2> QED
    BY <2>1, Joined DEF IsParser
<1>2. Alike(p, p, <<>>)
  BY <1>1 DEF Alike
<1> DEFINE P == TakeEvent(p, GetEvent(p))
<1>3. IsParser(P)
  <2>1. Alike(P, P, <<>>)
    BY <1>2, TakeEventAlike
  <2> HIDE DEF P
  <2> QED
    BY <2>1 DEF Alike
<1>4. ChangeReader(p, reader, fed)
        = [P EXCEPT !.reader = reader, !.buffer = fed, !.quote = "", !.bracket = FALSE]
  BY DEF ChangeReader
<1> HIDE DEF P
<1> QED
  BY <1>3, <1>4 DEF IsParser, ParserFields

LEMMA KeptReader ==
  ASSUME NEW p, IsParser(p), NEW x
  PROVE  /\ Hold(p, x).reader = p.reader /\ SetError(p, x).reader = p.reader
         /\ [p EXCEPT !.bracket = x].reader = p.reader /\ [p EXCEPT !.quote = x].reader = p.reader
BY DEF Hold, SetError, IsParser, ParserFields

LEMMA NextReader ==
  ASSUME NEW p, IsParser(p), NEW c, p.reader \in Readers
  PROVE  Read(p, c).reader \in Readers
<1>1. \A reader \in Readers : \A fed : ChangeReader(p, reader, fed).reader \in Readers
  BY ChangedReader
<1>2. \A x : Hold(p, x).reader \in Readers /\ SetError(p, x).reader \in Readers
             /\ [p EXCEPT !.bracket = x].reader \in Readers
  BY KeptReader
<1>3. "PCData" \in Readers /\ "ETag" \in Readers /\ "LBracket" \in Readers /\ "STag" \in Readers
  BY DEF Readers
<1>4. \A what : IsParser(SetError(p, what))
  BY DEF SetError, IsParser, ParserFields
<1>5. CASE p.reader = "PI"
  BY <1>1, <1>2, <1>3, <1>5, Zenon DEF Read, ReadPI
<1>6. CASE p.reader = "STag"
  <2>1. Read(p, c) = ReadSTag(p, c)
    BY <1>6, Zenon DEF Read
  <2>2. \A u : [Hold(p, c) EXCEPT !.quote = u].reader \in Readers
    <3>1. IsParser(Hold(p, c))
      BY DEF Hold, IsParser, ParserFields
    <3> QED
      BY <1>2, <3>1, KeptReader
  <2> DEFINE name == Without(Unpadded(p.buffer), Spaces)
             P == IF \E i \in DOMAIN name : name[i] = "/" THEN SetError(p, "illegal name char") ELSE p
             n == Slashless(name)
  <2>3. ChangeReader(P, "ETag", n).reader \in Readers
    <3>1. IsParser(P)
      BY <1>4
    <3> HIDE DEF P, n
    <3> QED
      BY <1>3, <3>1, ChangedReader
  <2>4. CASE p.quote = "" /\ c = "/"
    <3>1. ReadSTag(p, c) = ChangeReader(P, "ETag", n)
      BY <2>4 DEF ReadSTag
    <3> QED
      BY <2>1, <2>3, <3>1, Zenon
  <2>5. CASE ~(p.quote = "" /\ c = "/")
    BY <1>1, <1>2, <1>3, <2>1, <2>2, <2>5, Zenon DEF ReadSTag
  <2> QED
    BY <2>4, <2>5
<1>7. CASE p.reader = "ETag"
  BY <1>1, <1>2, <1>3, <1>7, Zenon DEF Read, ReadETag
<1>8. CASE p.reader = "PCData"
  <2>1. Read(p, c) = ReadPCData(p, c)
    BY <1>8, Zenon DEF Read
  <2>2. [ChangeReader(p, "LBracket", <<>>) EXCEPT !.bracket = TRUE].reader \in Readers
    BY <1>1, <1>3, ChangedReader, KeptReader
  <2> QED
    BY <1>2, <2>1, <2>2, Zenon DEF ReadPCData
<1>9. CASE p.reader = "CDataSection"
  BY <1>1, <1>2, <1>3, <1>9, Zenon DEF Read, ReadCDataSection
<1>10. CASE p.reader = "Comment"
  BY <1>1, <1>2, <1>3, <1>10, Zenon DEF Read, ReadComment
<1>11. CASE p.reader = "DocType"
  BY <1>1, <1>2, <1>3, <1>11, Zenon DEF Read, ReadDocType
<1>12. CASE p.reader = "LBracket"
  <2>1. Read(p, c) = ReadLBracket(p, c)
    BY <1>12, Zenon DEF Read
  <2>2. c \in DOMAIN AfterBracket => AfterBracket[c] \in Readers
    BY DEF AfterBracket, Readers
  <2>3. ChangeReader(ChangeReader(p, "PCData", <<>>), "STag", <<>>).reader \in Readers
    BY <1>3, ChangedReader
  <2>4. \A what, u, b :
          /\ [ChangeReader(SetError(p, what), "STag", b) EXCEPT !.quote = u].reader \in Readers
          /\ [ChangeReader(p, "STag", b) EXCEPT !.quote = u].reader \in Readers
    <3> TAKE what, u, b
    <3>1. IsParser(SetError(p, what))
      BY <1>4
    <3>2. /\ IsParser(ChangeReader(SetError(p, what), "STag", b)) /\ IsParser(ChangeReader(p, "STag", b))
          /\ ChangeReader(SetError(p, what), "STag", b).reader = "STag"
          /\ ChangeReader(p, "STag", b).reader = "STag"
      BY <3>1, ChangedReader
    <3> QED
      BY <1>3, <3>2, KeptReader
  <2>5. CASE ~p.bracket
    BY <1>2, <2>1, <2>5, Zenon DEF ReadLBracket
  <2>6. CASE p.bracket /\ c \in DOMAIN AfterBracket
    BY <1>1, <2>1, <2>2, <2>6, Zenon DEF ReadLBracket
  <2>7. CASE p.bracket /\ c \notin DOMAIN AfterBracket /\ IsNameChar(p.encoding, c)
    BY <2>1, <2>3, <2>4, <2>7, Zenon DEF ReadLBracket
  <2>8. CASE p.bracket /\ c \notin DOMAIN AfterBracket /\ ~IsNameChar(p.encoding, c)
    BY <1>2, <2>1, <2>8, Zenon DEF ReadLBracket
  <2> QED
    BY <2>5, <2>6, <2>7, <2>8
<1>13. CASE p.reader = "Sign"
  <2>1. Read(p, c) = ReadSign(p, c)
    BY <1>13, Zenon DEF Read
  <2>2. c \in DOMAIN AfterSign => AfterSign[c] \in Readers
    BY DEF AfterSign, Readers
  <2> QED
    BY <1>1, <1>2, <2>1, <2>2, Zenon DEF ReadSign
<1> QED
  BY <1>5, <1>6, <1>7, <1>8, <1>9, <1>10, <1>11, <1>12, <1>13 DEF Readers
-----------------------------------------------------------------------------
(* What holds at first and from each number to the next holds up to n.      *)
LEMMA UpTo ==
  ASSUME NEW n \in Nat, NEW S, 0 \in S, \A i \in 0..(n - 1) : i \in S => i + 1 \in S
  PROVE  \A i \in 0..n : i \in S
<1> DEFINE T == {i \in 0..n : i \notin S}
<1>1. T \in SUBSET Nat
  OBVIOUS
<1>2. ASSUME T # {} PROVE FALSE
  <2>1. Min(T) \in T /\ \A y \in T : Min(T) <= y
    <3> HIDE DEF T
    <3> QED
      BY <1>1, <1>2, MinNat
  <2>2. PICK m \in T : \A y \in T : m <= y
    BY <2>1
  <2>3. m # 0 /\ m \in 1..n
    BY <2>2
  <2>4. m - 1 \in 0..(n - 1) /\ m - 1 \in 0..n
    BY <2>3
  <2>5. m - 1 \in S
    BY <2>2, <2>4
  <2>6. (m - 1) + 1 \in S
    BY <2>4, <2>5
  <2> QED
    BY <2>2, <2>3, <2>6
<1> QED
  BY <1>2

(* The loops of the library: the parser takes symbol after symbol, the      *)
(* builder event after event, and so does the level.                        *)
Feeding == "feed"
Building == "build"
Levelling == "level"
Does(loop, x, e) ==
  IF loop = Feeding THEN Feed(x, e) ELSE IF loop = Building THEN Build(x, e) ELSE LevelAfter(x, e)

(* What a loop makes of p, step by step.                                    *)
Fed(loop, p, text, f) ==
  f = [i \in 0..Len(text) |-> IF i = 0 THEN p ELSE Does(loop, f[i - 1], text[i])]

LEMMA FedExists ==
  ASSUME NEW loop, NEW p, NEW text, Len(text) \in Nat
  PROVE  \E f : Fed(loop, p, text, f)
<1> DEFINE n == Len(text)
           Part(f, m) == f = [i \in 0..m |-> IF i = 0 THEN p ELSE Does(loop, f[i - 1], text[i])]
           S == {m \in 0..n : \E f : Part(f, m)}
<1>1. 0 \in S
  <2> DEFINE f == [i \in 0..0 |-> p]
  <2>1. Part(f, 0)
    OBVIOUS
  <2>2. 0 \in 0..n
    OBVIOUS
  <2> HIDE DEF f
  <2> QED
    BY <2>1, <2>2
<1>2. ASSUME NEW m \in 0..(n - 1), m \in S PROVE m + 1 \in S
  <2>1. PICK f : Part(f, m)
    BY <1>2
  <2> DEFINE h == [i \in 0..(m + 1) |-> IF i = m + 1 THEN Does(loop, f[m], text[m + 1]) ELSE f[i]]
  <2>2. \A i \in 0..(m + 1) : i # m + 1 => i \in 0..m /\ h[i] = f[i]
    OBVIOUS
  <2>3. h[m + 1] = Does(loop, f[m], text[m + 1])
    OBVIOUS
  <2>4. DOMAIN h = 0..(m + 1) /\ h = [i \in 0..(m + 1) |-> h[i]]
    OBVIOUS
  <2> HIDE DEF h
  <2>5. ASSUME NEW i \in 0..(m + 1)
        PROVE  h[i] = IF i = 0 THEN p ELSE Does(loop, h[i - 1], text[i])
    <3>1. CASE i = m + 1
      <4>1. i # 0 /\ i - 1 = m /\ m \in 0..(m + 1) /\ m # m + 1
        BY <3>1
      <4> QED
        BY <2>2, <2>3, <3>1, <4>1
    <3>2. CASE i # m + 1 /\ i # 0
      <4>1. i \in 0..m /\ i - 1 \in 0..m /\ i - 1 \in 0..(m + 1) /\ i - 1 # m + 1
        BY <3>2
      <4>2. f[i] = Does(loop, f[i - 1], text[i])
        BY <2>1, <3>2, <4>1
      <4> QED
        BY <2>2, <3>2, <4>1, <4>2
    <3>3. CASE i # m + 1 /\ i = 0
      <4>1. f[0] = p
        BY <2>1
      <4> QED
        BY <2>2, <3>3, <4>1
    <3> QED
      BY <3>1, <3>2, <3>3
  <2>6. Part(h, m + 1)
    BY <2>4, <2>5
  <2>7. m + 1 \in 0..n
    OBVIOUS
  <2> QED
    BY <2>6, <2>7
<1>3. n \in S
  <2> HIDE DEF S
  <2>1. \A i \in 0..n : i \in S
    BY <1>1, <1>2, UpTo
  <2>2. n \in 0..n
    OBVIOUS
  <2> QED
    BY <2>1, <2>2
<1> QED
  BY <1>3 DEF Fed

LEMMA FedStep ==
  ASSUME NEW loop, NEW p, NEW text, Len(text) \in Nat, NEW f, Fed(loop, p, text, f)
  PROVE  /\ f[0] = p
         /\ \A i \in 0..(Len(text) - 1) : f[i + 1] = Does(loop, f[i], text[i + 1])
<1> DEFINE n == Len(text)
<1>1. \A i \in 0..n : f[i] = IF i = 0 THEN p ELSE Does(loop, f[i - 1], text[i])
  BY DEF Fed
<1> HIDE DEF n
<1>2. n \in Nat
  BY DEF n
<1>3. f[0] = p
  BY <1>1, <1>2
<1>4. ASSUME NEW i \in 0..(n - 1) PROVE f[i + 1] = Does(loop, f[i], text[i + 1])
  <2>1. i + 1 \in 0..n /\ i + 1 # 0 /\ (i + 1) - 1 = i
    BY <1>2
  <2> QED
    BY <1>1, <2>1
<1> QED
  BY <1>3, <1>4 DEF n

LEMMA FedUnique ==
  ASSUME NEW loop, NEW p, NEW text, Len(text) \in Nat, NEW f, Fed(loop, p, text, f), NEW g, Fed(loop, p, text, g)
  PROVE  f = g
<1> DEFINE n == Len(text)
           S == {i \in 0..n : f[i] = g[i]}
<1>1. f[0] = p /\ \A i \in 0..(n - 1) : f[i + 1] = Does(loop, f[i], text[i + 1])
  BY FedStep
<1>2. g[0] = p /\ \A i \in 0..(n - 1) : g[i + 1] = Does(loop, g[i], text[i + 1])
  BY FedStep
<1>3. 0 \in S
  BY <1>1, <1>2
<1>4. ASSUME NEW i \in 0..(n - 1), i \in S PROVE i + 1 \in S
  BY <1>1, <1>2, <1>4
<1>5. \A i \in 0..n : i \in S
  <2> HIDE DEF S
  <2> QED
    BY <1>3, <1>4, UpTo
<1>6. f = [i \in 0..n |-> f[i]] /\ g = [i \in 0..n |-> g[i]]
  BY DEF Fed
<1> QED
  BY <1>5, <1>6

(* Where a loop ends.                                                       *)
Result(loop, p, text) == (CHOOSE f : Fed(loop, p, text, f))[Len(text)]

LEMMA ResultIs ==
  ASSUME NEW loop, NEW p, NEW text, Len(text) \in Nat, NEW f, Fed(loop, p, text, f)
  PROVE  Result(loop, p, text) = f[Len(text)]
<1> DEFINE g == CHOOSE h : Fed(loop, p, text, h)
<1>1. Fed(loop, p, text, g)
  BY FedExists
<1>2. Result(loop, p, text) = g[Len(text)]
  BY DEF Result
<1> HIDE DEF g
<1>3. g = f
  BY <1>1, FedUnique
<1> QED
  BY <1>2, <1>3

LEMMA FeedAllIs ==
  ASSUME NEW p, NEW text, Len(text) \in Nat
  PROVE  FeedAll(p, text) = Result(Feeding, p, text)
<1> DEFINE Values(f) == f = [i \in 0..Len(text) |-> IF i = 0 THEN p ELSE Feed(f[i - 1], text[i])]
           g == CHOOSE h : Values(h)
<1>1. PICK f : Fed(Feeding, p, text, f)
  BY FedExists
<1>2. Values(f)
  BY <1>1 DEF Fed, Does, Feeding, Building
<1>3. Values(g)
  <2> HIDE DEF Values
  <2> QED
    BY <1>2
<1>4. FeedAll(p, text) = g[Len(text)]
  BY Zenon DEF FeedAll, Run
<1> HIDE DEF g
<1>5. Fed(Feeding, p, text, g)
  BY <1>3 DEF Fed, Does, Feeding, Building
<1> QED
  BY <1>4, <1>5, ResultIs

LEMMA BuildTreeIs ==
  ASSUME NEW b, NEW events, Len(events) \in Nat
  PROVE  BuildTree(b, events) = Result(Building, b, events)
<1> DEFINE Values(f) == f = [i \in 0..Len(events) |-> IF i = 0 THEN b ELSE Build(f[i - 1], events[i])]
           g == CHOOSE h : Values(h)
<1>1. PICK f : Fed(Building, b, events, f)
  BY FedExists
<1>2. Values(f)
  BY <1>1 DEF Fed, Does, Feeding, Building
<1>3. Values(g)
  <2> HIDE DEF Values
  <2> QED
    BY <1>2
<1>4. BuildTree(b, events) = g[Len(events)]
  BY Zenon DEF BuildTree, Run
<1> HIDE DEF g
<1>5. Fed(Building, b, events, g)
  BY <1>3 DEF Fed, Does, Feeding, Building
<1> QED
  BY <1>4, <1>5, ResultIs

(* A text in two pieces is the same as in one.                               *)
LEMMA FedOn ==
  ASSUME NEW loop, NEW p, NEW a, IsSeq(a), NEW b, IsSeq(b)
  PROVE  Result(loop, p, a \o b) = Result(loop, Result(loop, p, a), b)
<1> DEFINE t == a \o b
           k == Len(a)
           n == Len(b)
<1>1. PICK S : a \in Seq(S) /\ b \in Seq(S)
  BY OneSet
<1>2. /\ k \in Nat /\ n \in Nat /\ Len(t) = k + n
      /\ \A i \in 1..k : t[i] = a[i]
      /\ \A i \in 1..n : t[k + i] = b[i]
  <2>1. k \in Nat /\ n \in Nat /\ Len(t) = k + n
    BY <1>1
  <2>2. \A i \in 1..k : t[i] = a[i]
    BY <1>1, SMTT(30)
  <2>3. \A i \in 1..n : t[k + i] = b[i]
    BY <1>1, SMTT(30)
  <2> QED
    BY <2>1, <2>2, <2>3
<1> HIDE DEF t
<1>t. Len(t) \in Nat
  BY <1>2
<1>3. PICK f : Fed(loop, p, a, f)
  BY <1>2, FedExists
<1>4. PICK g : Fed(loop, f[k], b, g)
  BY <1>2, FedExists
<1>5. PICK h : Fed(loop, p, t, h)
  BY <1>t, FedExists
<1>6. /\ f[0] = p /\ \A i \in 0..(k - 1) : f[i + 1] = Does(loop, f[i], a[i + 1])
  BY <1>2, <1>3, FedStep
<1>7. /\ g[0] = f[k] /\ \A i \in 0..(n - 1) : g[i + 1] = Does(loop, g[i], b[i + 1])
  BY <1>2, <1>4, FedStep
<1>8. /\ h[0] = p /\ \A i \in 0..((k + n) - 1) : h[i + 1] = Does(loop, h[i], t[i + 1])
  <2>1. h[0] = p /\ \A i \in 0..(Len(t) - 1) : h[i + 1] = Does(loop, h[i], t[i + 1])
    BY <1>t, <1>5, FedStep
  <2> QED
    BY <1>2, <2>1
<1> HIDE DEF k, n
<1>9. \A i \in 0..k : h[i] = f[i]
  <2> DEFINE T == {i \in 0..k : h[i] = f[i]}
  <2>1. 0 \in T
    BY <1>2, <1>6, <1>8
  <2>2. ASSUME NEW i \in 0..(k - 1), i \in T PROVE i + 1 \in T
    <3>1. i \in 0..((k + n) - 1) /\ i + 1 \in 1..k /\ i + 1 \in 0..k
      BY <1>2
    <3> QED
      BY <1>2, <1>6, <1>8, <2>2, <3>1
  <2>3. \A i \in 0..k : i \in T
    <3> HIDE DEF T
    <3> QED
      BY <1>2, <2>1, <2>2, UpTo
  <2> QED
    BY <2>3
<1>10. \A i \in 0..n : h[k + i] = g[i]
  <2> DEFINE T == {i \in 0..n : h[k + i] = g[i]}
  <2>1. 0 \in T
    <3>1. k \in 0..k /\ k + 0 = k /\ 0 \in 0..n
      BY <1>2
    <3> QED
      BY <1>7, <1>9, <3>1
  <2>2. ASSUME NEW i \in 0..(n - 1), i \in T PROVE i + 1 \in T
    <3>1. k + i \in 0..((k + n) - 1) /\ i + 1 \in 1..n /\ i + 1 \in 0..n /\ (k + i) + 1 = k + (i + 1)
      BY <1>2
    <3>2. h[(k + i) + 1] = Does(loop, h[k + i], t[(k + i) + 1])
      BY <1>8, <3>1
    <3>3. t[k + (i + 1)] = b[i + 1]
      BY <1>2, <3>1
    <3> QED
      BY <1>7, <2>2, <3>1, <3>2, <3>3
  <2>3. \A i \in 0..n : i \in T
    <3> HIDE DEF T
    <3> QED
      BY <1>2, <2>1, <2>2, UpTo
  <2> QED
    BY <2>3
<1>11. Result(loop, p, a) = f[k] /\ Result(loop, f[k], b) = g[n] /\ Result(loop, p, t) = h[k + n]
  <2>1. Result(loop, p, a) = f[k]
    BY <1>2, <1>3, ResultIs DEF k
  <2>2. Result(loop, f[k], b) = g[n]
    BY <1>2, <1>4, ResultIs DEF n
  <2>3. Result(loop, p, t) = h[Len(t)]
    BY <1>t, <1>5, ResultIs
  <2> QED
    BY <1>2, <2>1, <2>2, <2>3
<1>12. n \in 0..n
  BY <1>2
<1> QED
  BY <1>10, <1>11, <1>12 DEF t

LEMMA FedNothing ==
  ASSUME NEW loop, NEW p
  PROVE  Result(loop, p, <<>>) = p
<1> DEFINE text == <<>>
<1>1. Len(text) = 0
  OBVIOUS
<1> HIDE DEF text
<1>2. Len(text) \in Nat
  BY <1>1
<1>3. PICK f : Fed(loop, p, text, f)
  BY <1>2, FedExists
<1>4. /\ f[0] = p
      /\ \A i \in 0..(Len(text) - 1) : f[i + 1] = Does(loop, f[i], text[i + 1])
  BY <1>2, <1>3, FedStep
<1>5. Result(loop, p, text) = f[Len(text)]
  BY <1>2, <1>3, ResultIs
<1> QED
  BY <1>1, <1>4, <1>5 DEF text

LEMMA FedOne ==
  ASSUME NEW loop, NEW p, NEW e
  PROVE  Result(loop, p, <<e>>) = Does(loop, p, e)
<1> DEFINE text == <<e>>
<1>1. Len(text) = 1 /\ text[0 + 1] = e
  OBVIOUS
<1> HIDE DEF text
<1>2. Len(text) \in Nat
  BY <1>1
<1>3. PICK f : Fed(loop, p, text, f)
  BY <1>2, FedExists
<1>4. /\ f[0] = p
      /\ \A i \in 0..(Len(text) - 1) : f[i + 1] = Does(loop, f[i], text[i + 1])
  BY <1>2, <1>3, FedStep
<1>5. Result(loop, p, text) = f[Len(text)]
  BY <1>2, <1>3, ResultIs
<1>6. f[0 + 1] = Does(loop, p, e)
  BY <1>1, <1>4
<1> QED
  BY <1>1, <1>5, <1>6 DEF text

(* The loop of append.                                                      *)
LEMMA FeedSteps ==
  ASSUME NEW p, NEW text, Len(text) \in Nat, NEW f, Fed(Feeding, p, text, f)
  PROVE  /\ f[0] = p
         /\ \A i \in 0..(Len(text) - 1) : f[i + 1] = Feed(f[i], text[i + 1])
         /\ FeedAll(p, text) = f[Len(text)]
<1>1. f[0] = p /\ \A i \in 0..(Len(text) - 1) : f[i + 1] = Does(Feeding, f[i], text[i + 1])
  BY FedStep
<1>2. FeedAll(p, text) = f[Len(text)]
  BY FeedAllIs, ResultIs
<1> QED
  BY <1>1, <1>2 DEF Does, Feeding

(* Both loops go on where they were: append cut in two, and buildTree.      *)
LEMMA FeedOn ==
  ASSUME NEW p, NEW a, IsSeq(a), NEW b, IsSeq(b)
  PROVE  FeedAll(p, a \o b) = FeedAll(FeedAll(p, a), b)
<1>1. Len(a) \in Nat /\ Len(b) \in Nat /\ Len(a \o b) \in Nat
  BY Joined DEF IsSeq
<1>2. Result(Feeding, p, a \o b) = Result(Feeding, Result(Feeding, p, a), b)
  BY FedOn
<1> QED
  BY <1>1, <1>2, FeedAllIs

LEMMA BuildOn ==
  ASSUME NEW b, NEW q, IsSeq(q), NEW r, IsSeq(r)
  PROVE  BuildTree(b, q \o r) = BuildTree(BuildTree(b, q), r)
<1>1. Len(q) \in Nat /\ Len(r) \in Nat /\ Len(q \o r) \in Nat
  BY Joined DEF IsSeq
<1>2. Result(Building, b, q \o r) = Result(Building, Result(Building, b, q), r)
  BY FedOn
<1> QED
  BY <1>1, <1>2, BuildTreeIs

-----------------------------------------------------------------------------
Ready(p) == p.error = "" /\ p.fault # "must"

Counted(p, c) == [p EXCEPT !.ring = [@ EXCEPT ![p.index % SegmentLen] = c], !.index = @ + 1]

Placed(p, r, x) == [p EXCEPT !.row = r, !.col = x]

LEMMA RingAlike ==
  ASSUME NEW p, NEW w, NEW q, Alike(p, w, q), NEW r, NEW s, NEW x, NEW y
  PROVE  Alike([p EXCEPT !.ring = r, !.index = x], [w EXCEPT !.ring = s, !.index = y], q)
BY DEF Alike, IsParser, ParserFields

LEMMA CountedAlike ==
  ASSUME NEW p, NEW w, NEW q, Alike(p, w, q), NEW c
  PROVE  Alike(Counted(p, c), Counted(w, c), q) /\ Counted(p, c).reader = p.reader
<1> DEFINE r == [p.ring EXCEPT ![p.index % SegmentLen] = c]
           s == [w.ring EXCEPT ![w.index % SegmentLen] = c]
           x == p.index + 1
           y == w.index + 1
<1>1. Counted(p, c) = [p EXCEPT !.ring = r, !.index = x] /\ Counted(w, c) = [w EXCEPT !.ring = s, !.index = y]
  BY DEF Counted
<1>2. Alike(Counted(p, c), Counted(w, c), q)
  <2> HIDE DEF r, s, x, y
  <2>1. Alike([p EXCEPT !.ring = r, !.index = x], [w EXCEPT !.ring = s, !.index = y], q)
    BY RingAlike
  <2> QED
    BY <1>1, <2>1
<1>3. Counted(p, c).reader = p.reader
  BY DEF Counted, Alike, IsParser, ParserFields
<1> QED
  BY <1>2, <1>3

LEMMA PlacedAlike ==
  ASSUME NEW p, NEW w, NEW q, Alike(p, w, q), NEW r, NEW s, NEW x, NEW y
  PROVE  Alike(Placed(p, r, x), Placed(w, s, y), q)
BY DEF Alike, IsParser, ParserFields, Placed

LEMMA FeedIs ==
  ASSUME NEW p, Ready(p), NEW c
  PROVE  \E r, x : Feed(p, c) = Placed(Read(Counted(p, c), c), r, x)
<1> DEFINE o == Counted(p, c)
           r == IF c = "\n" THEN Read(o, c).row + 1 ELSE Read(o, c).row
           x == IF c = "\n" THEN 0 ELSE Read(o, c).col + 1
<1>1. Feed(p, c) = Placed(Read(o, c), r, x)
  BY DEF Feed, Ready, Counted, Placed
<1> QED
  BY <1>1

LEMMA FeedAlike ==
  ASSUME NEW p, NEW w, NEW q, Alike(p, w, q), NEW c, p.reader \in Readers
  PROVE  Alike(Feed(p, c), Feed(w, c), q) /\ Feed(p, c).reader \in Readers
<1>1. IsParser(p) /\ IsParser(w) /\ w.reader = p.reader /\ (Ready(w) <=> Ready(p))
  BY DEF Alike, Ready
<1>2. CASE ~Ready(p)
  <2>1. Feed(p, c) = p /\ Feed(w, c) = w
    BY <1>1, <1>2 DEF Feed, Ready
  <2> QED
    BY <2>1
<1>3. CASE Ready(p)
  <2> DEFINE o == Counted(p, c)
             u == Counted(w, c)
  <2>1. PICK r, x : Feed(p, c) = Placed(Read(o, c), r, x)
    BY <1>1, <1>3, FeedIs
  <2>2. PICK s, y : Feed(w, c) = Placed(Read(u, c), s, y)
    BY <1>1, <1>3, FeedIs
  <2>3. Alike(o, u, q) /\ o.reader = p.reader
    BY CountedAlike
  <2> HIDE DEF o, u
  <2>4. Alike(Read(o, c), Read(u, c), q)
    BY <2>3, ReadAlike DEF Agrees
  <2>5. Read(o, c).reader \in Readers
    BY <2>3, NextReader DEF Alike
  <2>6. Alike(Feed(p, c), Feed(w, c), q)
    BY <2>1, <2>2, <2>4, PlacedAlike
  <2>7. Feed(p, c).reader = Read(o, c).reader
    BY <2>1, <2>4 DEF Alike, IsParser, ParserFields, Placed
  <2> QED
    BY <2>5, <2>6, <2>7
<1> QED
  BY <1>2, <1>3

(* The symbols read are counted and kept in the ring.                       *)
LEMMA FeedCounts ==
  ASSUME NEW p, IsParser(p), p.reader \in Readers, NEW c
  PROVE  /\ ~Ready(p) => Feed(p, c) = p
         /\ Ready(p) =>
              /\ Feed(p, c).index = p.index + 1
              /\ Feed(p, c).ring = [p.ring EXCEPT ![p.index % SegmentLen] = c]
         /\ Feed(p, c).ignore = p.ignore /\ Feed(p, c).level = p.level
<1>1. CASE ~Ready(p)
  BY <1>1 DEF Feed, Ready
<1>2. CASE Ready(p)
  <2> DEFINE o == Counted(p, c)
  <2>1. PICK r, x : Feed(p, c) = Placed(Read(o, c), r, x)
    BY <1>2, FeedIs
  <2>2. /\ IsParser(o) /\ o.reader = p.reader /\ o.index = p.index + 1 /\ o.ignore = p.ignore
        /\ o.level = p.level
        /\ o.ring = [p.ring EXCEPT ![p.index % SegmentLen] = c]
    BY DEF Counted, IsParser, ParserFields
  <2> HIDE DEF o
  <2>3. Alike(o, o, <<>>)
    <3>1. IsSeq(<<>>)
      BY DEF IsSeq
    <3>2. <<>> \o o.queue = o.queue
      BY <2>2, <3>1, Joined DEF IsParser
    <3> QED
      BY <2>2, <3>1, <3>2 DEF Alike
  <2>4. Counts(o, Read(o, c)) /\ Alike(Read(o, c), Read(o, c), <<>>)
    BY <2>2, <2>3, ReadAlike DEF Agrees
  <2>5. /\ Feed(p, c).index = Read(o, c).index /\ Feed(p, c).ring = Read(o, c).ring
        /\ Feed(p, c).ignore = Read(o, c).ignore /\ Feed(p, c).level = Read(o, c).level
    BY <2>1, <2>4 DEF Alike, IsParser, ParserFields, Placed
  <2> QED
    BY <1>2, <2>2, <2>4, <2>5 DEF Counts
<1> QED
  BY <1>1, <1>2

LEMMA FeedAllAlike ==
  ASSUME NEW p, NEW w, NEW q, Alike(p, w, q), p.reader \in Readers, NEW text, IsSeq(text)
  PROVE  /\ Alike(FeedAll(p, text), FeedAll(w, text), q)
         /\ FeedAll(p, text).reader \in Readers /\ FeedAll(p, text).ignore = p.ignore
         /\ FeedAll(p, text).level = p.level
<1>1. Len(text) \in Nat
  BY DEF IsSeq
<1>2. PICK f : Fed(Feeding, p, text, f)
  BY <1>1, FedExists
<1>3. PICK g : Fed(Feeding, w, text, g)
  BY <1>1, FedExists
<1>4. f[0] = p /\ \A i \in 0..(Len(text) - 1) : f[i + 1] = Feed(f[i], text[i + 1])
  <2>1. /\ f[0] = p
        /\ \A i \in 0..(Len(text) - 1) : f[i + 1] = Feed(f[i], text[i + 1])
        /\ FeedAll(p, text) = f[Len(text)]
    BY <1>1, <1>2, FeedSteps
  <2> QED
    BY <2>1
<1>5. g[0] = w /\ \A i \in 0..(Len(text) - 1) : g[i + 1] = Feed(g[i], text[i + 1])
  <2>1. /\ g[0] = w
        /\ \A i \in 0..(Len(text) - 1) : g[i + 1] = Feed(g[i], text[i + 1])
        /\ FeedAll(w, text) = g[Len(text)]
    BY <1>1, <1>3, FeedSteps
  <2> QED
    BY <2>1
<1> DEFINE n == Len(text)
<1> DEFINE Good(i) == /\ Alike(f[i], g[i], q) /\ f[i].reader \in Readers
                      /\ f[i].ignore = p.ignore /\ f[i].level = p.level
           S == {i \in 0..n : Good(i)}
<1>6. 0 \in S
  BY <1>1, <1>4, <1>5
<1>7. ASSUME NEW i \in 0..(n - 1), i \in S PROVE i + 1 \in S
  <2>1. Good(i)
    BY <1>7
  <2>2. /\ Alike(Feed(f[i], text[i + 1]), Feed(g[i], text[i + 1]), q)
        /\ Feed(f[i], text[i + 1]).reader \in Readers
    BY <2>1, FeedAlike
  <2>3. Feed(f[i], text[i + 1]).ignore = p.ignore /\ Feed(f[i], text[i + 1]).level = p.level
    <3>1. IsParser(f[i])
      BY <2>1 DEF Alike
    <3> QED
      BY <2>1, <3>1, FeedCounts
  <2>4. f[i + 1] = Feed(f[i], text[i + 1]) /\ g[i + 1] = Feed(g[i], text[i + 1])
    BY <1>4, <1>5
  <2>5. i + 1 \in 0..n
    BY <1>1
  <2>6. Good(i + 1)
    BY <2>2, <2>3, <2>4
  <2> QED
    BY <2>5, <2>6
<1>8. \A i \in 0..n : i \in S
  <2> HIDE DEF S
  <2> QED
    BY <1>1, <1>6, <1>7, UpTo
<1>9. n \in 0..n
  BY <1>1
<1>10. Good(n)
  BY <1>8, <1>9
<1>11. FeedAll(p, text) = f[n] /\ FeedAll(w, text) = g[n]
  <2>1. FeedAll(p, text) = f[n]
    BY <1>1, <1>2, FeedSteps
  <2>2. FeedAll(w, text) = g[n]
    BY <1>1, <1>3, FeedSteps
  <2> QED
    BY <2>1, <2>2
<1> QED
  BY <1>10, <1>11
-----------------------------------------------------------------------------
(* The ring holds the last symbols read; while reading goes on, of all that *)
(* was appended.                                                            *)
RingHolds(p, t) ==
  /\ p.index \in Nat /\ p.index <= Len(t)
  /\ Ready(p) => p.index = Len(t)
  /\ p.ring = [i \in 0..(SegmentLen - 1) |-> p.ring[i]]
  /\ \A k \in 1..p.index :
       k > p.index - SegmentLen => p.ring[(k - 1) % SegmentLen] = t[k]

(* Places in the ring of symbols less than a round apart differ.            *)
LEMMA OtherPlace ==
  ASSUME NEW m \in Nat \ {0}, NEW a \in Nat, NEW b \in Nat, b < a, a - b < m
  PROVE  b % m # a % m
<1> DEFINE q == a \div m
           s == b \div m
           r == a % m
<1>1. q \in Nat /\ r \in 0..(m - 1) /\ a = (m * q) + r
  BY Division
<1>2. ASSUME b % m = a % m PROVE FALSE
  <2>1. s \in Nat /\ b = (m * s) + r
    BY <1>2, Division
  <2> HIDE DEF q, s, r
  <2>2. a - b = m * (q - s)
    BY <1>1, <2>1
  <2>3. CASE q - s <= 0
    <3>1. m * (q - s) <= 0
      BY <1>1, <2>1, <2>3, Z3
    <3> QED
      BY <2>2, <3>1
  <2>4. CASE q - s >= 1
    <3>1. m * (q - s) >= m
      BY <1>1, <2>1, <2>4, Z3
    <3> QED
      BY <2>2, <3>1
  <2> QED
    BY <1>1, <2>1, <2>3, <2>4
<1> QED
  BY <1>2

LEMMA RingFed ==
  ASSUME NEW p, IsParser(p), p.reader \in Readers, NEW c, NEW t, IsSeq(t), RingHolds(p, t)
  PROVE  RingHolds(Feed(p, c), Append(t, c))
<1> DEFINE T == Append(t, c)
           P == Feed(p, c)
           x == p.index
<1>1. /\ Len(t) \in Nat /\ Len(T) = Len(t) + 1 /\ T[Len(t) + 1] = c
      /\ \A k \in 1..Len(t) : T[k] = t[k]
  BY IsSeqOf DEF IsSeq
<1> HIDE DEF T
<1>2. /\ x \in Nat /\ x <= Len(t) /\ p.ring = [i \in 0..(SegmentLen - 1) |-> p.ring[i]]
      /\ \A k \in 1..x : k > x - SegmentLen => p.ring[(k - 1) % SegmentLen] = t[k]
  BY DEF RingHolds
<1>3. CASE ~Ready(p)
  <2>1. P = p
    BY <1>3, FeedCounts
  <2>2. \A k \in 1..x : k > x - SegmentLen => p.ring[(k - 1) % SegmentLen] = T[k]
    BY <1>1, <1>2
  <2>3. x <= Len(T)
    BY <1>1, <1>2
  <2> HIDE DEF P
  <2>4. RingHolds(p, T)
    BY <1>2, <1>3, <2>2, <2>3 DEF RingHolds
  <2> QED
    BY <2>1, <2>4 DEF T, P
<1>4. CASE Ready(p)
  <2>1. x = Len(t)
    BY <1>4 DEF RingHolds
  <2> DEFINE j == x % SegmentLen
  <2>2. P.index = x + 1 /\ P.ring = [p.ring EXCEPT ![j] = c]
    BY <1>4, FeedCounts
  <2> HIDE DEF P, j
  <2>3. SegmentLen \in Nat \ {0}
    BY SegmentLenAssumption
  <2>4. j \in 0..(SegmentLen - 1)
    BY <1>2, <2>3, Division DEF j
  <2>5. P.ring = [i \in 0..(SegmentLen - 1) |-> P.ring[i]]
    BY <1>2, <2>2
  <2>6. P.ring[j] = c /\ \A i \in 0..(SegmentLen - 1) : i # j => P.ring[i] = p.ring[i]
    BY <1>2, <2>2, <2>4
  <2>7. ASSUME NEW k \in 1..(x + 1), k > (x + 1) - SegmentLen
        PROVE  P.ring[(k - 1) % SegmentLen] = T[k]
    <3>1. CASE k = x + 1
      <4>1. k - 1 = x
        BY <1>2, <3>1
      <4> QED
        BY <1>1, <2>1, <2>6, <3>1, <4>1 DEF j
    <3>2. CASE k # x + 1
      <4>1. k \in 1..x /\ k > x - SegmentLen /\ k - 1 \in Nat /\ k - 1 < x /\ x - (k - 1) < SegmentLen
        BY <1>2, <2>3, <2>7, <3>2
      <4> DEFINE b == k - 1
                 i == b % SegmentLen
      <4>2. b \in Nat /\ b < x /\ x - b < SegmentLen
        BY <4>1
      <4> HIDE DEF b
      <4>3. i # j
        BY <1>2, <2>3, <4>2, OtherPlace DEF j
      <4>4. i \in 0..(SegmentLen - 1)
        BY <2>3, <4>2, Division
      <4>5. p.ring[i] = t[k]
        BY <1>2, <4>1 DEF b
      <4> HIDE DEF i
      <4>6. P.ring[i] = t[k]
        BY <2>6, <4>3, <4>4, <4>5
      <4>7. t[k] = T[k]
        BY <1>1, <2>1, <4>1
      <4> QED
        BY <4>6, <4>7 DEF i, b
    <3> QED
      BY <3>1, <3>2
  <2>8. x + 1 \in Nat /\ x + 1 = Len(T)
    BY <1>1, <1>2, <2>1
  <2>9. x + 1 <= Len(T)
    BY <2>8
  <2>10. RingHolds(P, T)
    BY <2>2, <2>5, <2>7, <2>8, <2>9 DEF RingHolds
  <2> QED
    BY <2>10 DEF P, T
<1> QED
  BY <1>3, <1>4

LEMMA OneMore ==
  ASSUME NEW T, IsSeq(T), NEW n \in Nat, n < Len(T)
  PROVE  /\ SubSeq(T, 1, n + 1) = Append(SubSeq(T, 1, n), T[n + 1])
         /\ IsSeq(SubSeq(T, 1, n))
<1> DEFINE S == {T[i] : i \in 1..Len(T)}
<1>1. T \in Seq(S)
  BY IsSeqOf
<1>2. Len(T) \in Nat /\ n + 1 \in 1..Len(T)
  BY DEF IsSeq
<1>3. T[n + 1] \in S
  BY <1>2
<1> HIDE DEF S
<1> DEFINE a == SubSeq(T, 1, n)
           b == SubSeq(T, 1, n + 1)
<1>4. /\ a \in Seq(S) /\ Len(a) = n /\ \A i \in 1..n : a[i] = T[i]
      /\ b \in Seq(S) /\ Len(b) = n + 1 /\ \A i \in 1..(n + 1) : b[i] = T[i]
  BY <1>1, <1>2
<1> HIDE DEF a, b
<1> DEFINE c == Append(a, T[n + 1])
<1>5. /\ c \in Seq(S) /\ Len(c) = n + 1 /\ c[n + 1] = T[n + 1]
      /\ \A i \in 1..n : c[i] = T[i]
  BY <1>3, <1>4
<1> HIDE DEF c
<1>6. \A i \in 1..(n + 1) : b[i] = c[i]
  BY <1>4, <1>5
<1>7. b = c
  BY <1>4, <1>5, <1>6
<1>8. IsSeq(a)
  BY <1>4, SeqIs
<1> QED
  BY <1>7, <1>8 DEF a, b, c

(* A reader goes on in Readers, as a parser.                                *)
LEMMA FeedParser ==
  ASSUME NEW p, IsParser(p), p.reader \in Readers, NEW c
  PROVE  IsParser(Feed(p, c)) /\ Feed(p, c).reader \in Readers
<1>1. IsSeq(<<>>)
  BY DEF IsSeq
<1>2. <<>> \o p.queue = p.queue
  BY <1>1, Joined DEF IsParser
<1>3. Alike(p, p, <<>>)
  BY <1>1, <1>2 DEF Alike
<1>4. Alike(Feed(p, c), Feed(p, c), <<>>) /\ Feed(p, c).reader \in Readers
  BY <1>3, FeedAlike
<1> QED
  BY <1>4 DEF Alike

LEMMA RingFedAll ==
  ASSUME NEW p, IsParser(p), p.reader \in Readers, NEW t, IsSeq(t), NEW text, IsSeq(text),
         RingHolds(p, t)
  PROVE  RingHolds(FeedAll(p, text), t \o text)
<1> DEFINE T == t \o text
           m == Len(t)
           n == Len(text)
<1>1. PICK S : t \in Seq(S) /\ text \in Seq(S)
  BY OneSet
<1>2. /\ T \in Seq(S) /\ m \in Nat /\ n \in Nat /\ Len(T) = m + n
      /\ \A i \in 1..n : T[m + i] = text[i]
      /\ SubSeq(T, 1, m) = t /\ SubSeq(T, 1, m + n) = T
  <2>1. T \in Seq(S) /\ m \in Nat /\ n \in Nat /\ Len(T) = m + n /\ \A i \in 1..n : T[m + i] = text[i]
    BY <1>1
  <2>2. \A i \in 1..m : T[i] = t[i]
    BY <1>1
  <2> HIDE DEF T
  <2>3. SubSeq(T, 1, m) = t
    BY <1>1, <2>1, <2>2
  <2>4. SubSeq(T, 1, m + n) = T
    BY <2>1
  <2> QED
    BY <2>1, <2>3, <2>4
<1> HIDE DEF T
<1>3. IsSeq(T)
  BY <1>2, SeqIs
<1>4. PICK f : Fed(Feeding, p, text, f)
  BY <1>2, FedExists
<1>5. f[0] = p
  BY <1>2, <1>4, FeedSteps
<1>6. \A i \in 0..(Len(text) - 1) : f[i + 1] = Feed(f[i], text[i + 1])
  <2>1. /\ f[0] = p
        /\ \A i \in 0..(Len(text) - 1) : f[i + 1] = Feed(f[i], text[i + 1])
        /\ FeedAll(p, text) = f[Len(text)]
    BY <1>2, <1>4, FeedSteps
  <2> QED
    BY <2>1
<1>7. FeedAll(p, text) = f[Len(text)]
  BY <1>2, <1>4, FeedSteps
<1> HIDE DEF m, n
<1>8. \A i \in 0..(n - 1) : f[i + 1] = Feed(f[i], text[i + 1])
  BY <1>6 DEF n
<1> DEFINE Good(i) == /\ IsParser(f[i]) /\ f[i].reader \in Readers
                      /\ RingHolds(f[i], SubSeq(T, 1, m + i))
           Z == {i \in 0..n : Good(i)}
<1>9. 0 \in Z
  <2>1. m + 0 = m /\ 0 \in 0..n
    BY <1>2
  <2>2. SubSeq(T, 1, m + 0) = t
    BY <1>2, <2>1
  <2>3. Good(0)
    BY <1>5, <2>2
  <2> QED
    BY <2>1, <2>3
<1>10. ASSUME NEW i \in 0..(n - 1), i \in Z PROVE i + 1 \in Z
  <2>1. Good(i)
    BY <1>10
  <2> DEFINE c == text[i + 1]
             s == SubSeq(T, 1, m + i)
  <2>2. /\ m + i \in Nat /\ m + i < Len(T) /\ i + 1 \in 1..n /\ (m + i) + 1 = m + (i + 1)
        /\ i + 1 \in 0..n
    BY <1>2
  <2>3. IsSeq(s) /\ SubSeq(T, 1, (m + i) + 1) = Append(s, T[(m + i) + 1])
    BY <1>3, <2>2, OneMore
  <2>4. SubSeq(T, 1, m + (i + 1)) = Append(s, c)
    BY <1>2, <2>2, <2>3
  <2> HIDE DEF s, c
  <2>5. IsParser(Feed(f[i], c)) /\ Feed(f[i], c).reader \in Readers
    BY <2>1, FeedParser
  <2>6. RingHolds(Feed(f[i], c), Append(s, c))
    BY <2>1, <2>3, RingFed DEF s
  <2>7. f[i + 1] = Feed(f[i], c)
    BY <1>8 DEF c
  <2>8. Good(i + 1)
    BY <2>4, <2>5, <2>6, <2>7
  <2> QED
    BY <2>2, <2>8
<1>11. \A i \in 0..n : i \in Z
  <2> HIDE DEF Z
  <2> QED
    BY <1>2, <1>9, <1>10, UpTo
<1>12. n \in 0..n
  BY <1>2
<1>13. Good(n)
  BY <1>11, <1>12
<1>14. FeedAll(p, text) = f[n]
  BY <1>7 DEF n
<1> QED
  BY <1>2, <1>13, <1>14 DEF T

(* Where in the ring the i-th of the last m symbols is.                     *)
LEMMA Turned ==
  ASSUME NEW m \in Nat \ {0}, NEW x \in Nat, x >= m, NEW i \in 1..m
  PROVE  /\ (x % m) + i <= m => ((x - m + i) - 1) % m = (x % m) + i - 1
         /\ (x % m) + i > m => ((x - m + i) - 1) % m = (x % m) + i - 1 - m
<1> DEFINE q == x \div m
           r == x % m
           a == (x - m + i) - 1
<1>1. q \in Nat /\ r \in 0..(m - 1) /\ x = (m * q) + r
  BY Division
<1> HIDE DEF q, r
<1>2. a \in Int
  BY <1>1
<1>3. CASE r + i <= m
  <2>1. r + i - 1 \in 0..(m - 1)
    BY <1>1, <1>3
  <2>2. a = (m * (q - 1)) + (r + i - 1)
    BY <1>1, Z3
  <2>3. q - 1 \in Int
    BY <1>1
  <2> DEFINE k == q - 1
             s == r + i - 1
  <2>4. k \in Int /\ s \in 0..(m - 1) /\ a = (m * k) + s
    BY <2>1, <2>2, <2>3
  <2> HIDE DEF a, k, s
  <2>5. a % m = s
    BY <1>2, <2>4, RemainderUnique, SMTT(30)
  <2> QED
    BY <1>1, <1>3, <2>5 DEF a, s, r
<1>4. CASE r + i > m
  <2>1. r + i - 1 - m \in 0..(m - 1)
    BY <1>1, <1>4
  <2>2. a = (m * q) + (r + i - 1 - m)
    BY <1>1, Z3
  <2> DEFINE s == r + i - 1 - m
  <2> HIDE DEF a, s
  <2>3. q \in Int /\ s \in 0..(m - 1) /\ a = (m * q) + s
    BY <1>1, <2>1, <2>2 DEF a, s
  <2>4. a % m = s
    BY <1>2, <2>3, RemainderUnique, SMTT(30)
  <2> QED
    BY <1>1, <1>4, <2>4 DEF a, s, r
<1> QED
  BY <1>1, <1>3, <1>4

LEMMA SegmentIs ==
  ASSUME NEW p, NEW t, IsSeq(t), RingHolds(p, t)
  PROVE  Segment(p) =
           SubSeq(t, IF p.index > SegmentLen THEN p.index - SegmentLen + 1 ELSE 1, p.index)
<1> DEFINE x == p.index
           m == SegmentLen
           ring == p.ring
           S == {t[i] : i \in 1..Len(t)}
           Slots(from, to) == [i \in 1..to - from |-> ring[from + i - 1]]
<1>1. m \in Nat \ {0}
  BY SegmentLenAssumption
<1>2. /\ x \in Nat /\ x <= Len(t)
      /\ \A k \in 1..x : k > x - m => ring[(k - 1) % m] = t[k]
  BY DEF RingHolds
<1>3. t \in Seq(S) /\ Len(t) \in Nat
  BY IsSeqOf DEF IsSeq
<1>4. Segment(p) = IF x < m THEN Slots(0, x) ELSE Slots(x % m, m) \o Slots(0, x % m)
  BY DEF Segment
<1> HIDE DEF x, m, ring, S
<1>5. CASE x < m
  <2>1. \A i \in 1..x : ring[0 + i - 1] = t[i]
    <3> TAKE i \in 1..x
    <3>1. i > x - m /\ 0 + i - 1 = i - 1 /\ i - 1 \in 0..(m - 1)
      BY <1>1, <1>2, <1>5
    <3>2. (i - 1) % m = i - 1
      BY <1>1, <3>1, Z3
    <3> QED
      BY <1>2, <3>1, <3>2
  <2>2. x - 0 = x
    BY <1>2
  <2>3. Slots(0, x) = [i \in 1..x |-> t[i]]
    BY <2>1, <2>2
  <2>4. SubSeq(t, 1, x) = [i \in 1..x |-> t[i]]
    BY <1>2, <1>3
  <2>5. ~(x > m)
    BY <1>1, <1>2, <1>5
  <2> QED
    BY <1>4, <1>5, <2>3, <2>4, <2>5 DEF x, m
<1>6. CASE x >= m
  <2> DEFINE r == x % m
             a == Slots(r, m)
             b == Slots(0, r)
             c == SubSeq(t, (x - m) + 1, x)
  <2>1. r \in 0..(m - 1)
    BY <1>1, <1>2, Division
  <2> HIDE DEF r
  <2>2. \A i \in 1..m : (x - m) + i \in 1..x /\ ring[((x - m + i) - 1) % m] = t[(x - m) + i]
    <3> TAKE i \in 1..m
    <3>1. (x - m) + i \in 1..x /\ (x - m) + i > x - m
      BY <1>1, <1>2, <1>6
    <3> QED
      BY <1>2, <3>1
  <2>3. \A i \in 1..(m - r) : r + i - 1 = ((x - m + i) - 1) % m
    <3> TAKE i \in 1..(m - r)
    <3>1. i \in 1..m /\ r + i <= m
      BY <1>1, <2>1
    <3> QED
      BY <1>1, <1>2, <1>6, <3>1, Turned DEF r
  <2>4. \A i \in 1..r : i - 1 = ((x - m + ((m - r) + i)) - 1) % m
    <3> TAKE i \in 1..r
    <3> DEFINE j == (m - r) + i
    <3>1. j \in 1..m /\ r + j > m /\ r + j - 1 - m = i - 1
      BY <1>1, <2>1
    <3> HIDE DEF j
    <3>2. ((x - m + j) - 1) % m = r + j - 1 - m
      BY <1>1, <1>2, <1>6, <3>1, Turned DEF r
    <3> QED
      BY <3>1, <3>2 DEF j
  <2>5. \A i \in 1..(m - r) : ring[r + i - 1] = t[(x - m) + i]
    <3> TAKE i \in 1..(m - r)
    <3>1. i \in 1..m
      BY <1>1, <2>1
    <3> QED
      BY <2>2, <2>3, <3>1
  <2>6. \A i \in 1..r : ring[0 + i - 1] = t[(x - m) + ((m - r) + i)]
    <3> TAKE i \in 1..r
    <3>1. (m - r) + i \in 1..m /\ 0 + i - 1 = i - 1
      BY <1>1, <2>1
    <3>2. ring[((x - m + ((m - r) + i)) - 1) % m] = t[(x - m) + ((m - r) + i)]
      BY <2>2, <3>1
    <3> QED
      BY <2>4, <3>1, <3>2
  <2>7. /\ a \in Seq(S) /\ Len(a) = m - r /\ \A i \in 1..(m - r) : a[i] = t[(x - m) + i]
    <3>1. m - r \in Nat
      BY <1>1, <2>1
    <3>2. a = [i \in 1..(m - r) |-> t[(x - m) + i]]
      BY <2>5
    <3> HIDE DEF a
    <3>3. \A i \in 1..(m - r) : t[(x - m) + i] \in S
      <4> TAKE i \in 1..(m - r)
      <4>1. (x - m) + i \in 1..Len(t)
        BY <1>1, <1>2, <1>3, <1>6, <2>1
      <4> QED
        BY <4>1 DEF S
    <3> QED
      BY <3>1, <3>2, <3>3
  <2>8. /\ b \in Seq(S) /\ Len(b) = r /\ \A i \in 1..r : b[i] = t[(x - m) + ((m - r) + i)]
    <3>1. r \in Nat /\ r - 0 = r
      BY <2>1
    <3>2. b = [i \in 1..r |-> t[(x - m) + ((m - r) + i)]]
      BY <2>6, <3>1
    <3> HIDE DEF b
    <3>3. \A i \in 1..r : t[(x - m) + ((m - r) + i)] \in S
      <4> TAKE i \in 1..r
      <4>1. (x - m) + ((m - r) + i) \in 1..Len(t)
        BY <1>1, <1>2, <1>3, <1>6, <2>1
      <4> QED
        BY <4>1 DEF S
    <3> QED
      BY <3>1, <3>2, <3>3
  <2>9. c \in Seq(S) /\ Len(c) = m /\ \A i \in 1..m : c[i] = t[(x - m) + i]
    <3>1. (x - m) + 1 \in 1..(x + 1) /\ x - ((x - m) + 1) + 1 = m
      BY <1>1, <1>2, <1>6
    <3> DEFINE l == (x - m) + 1
    <3> HIDE DEF l
    <3>2. /\ SubSeq(t, l, x) \in Seq(S) /\ Len(SubSeq(t, l, x)) = x - l + 1
          /\ \A i \in 1..(x - l + 1) : SubSeq(t, l, x)[i] = t[l + i - 1]
      <4>1. l \in Nat /\ l >= 1 /\ l <= x + 1
        BY <1>2, <3>1 DEF l
      <4> QED
        BY <1>2, <1>3, <4>1
    <3>3. \A i \in 1..m : l + i - 1 = (x - m) + i
      BY <1>1, <1>2 DEF l
    <3> QED
      BY <3>1, <3>2, <3>3 DEF l
  <2>10. \A i \in 1..r : (m - r) + i \in 1..m
    BY <1>1, <2>1
  <2> HIDE DEF a, b, c
  <2> DEFINE d == a \o b
  <2>11. /\ d \in Seq(S) /\ Len(d) = m
         /\ \A i \in 1..(m - r) : d[i] = a[i]
         /\ \A i \in 1..r : d[(m - r) + i] = b[i]
    <3>1. /\ a \in Seq(S) /\ b \in Seq(S) /\ Len(a) = m - r /\ Len(b) = r
          /\ m \in Nat /\ r \in Nat
      BY <1>1, <2>1, <2>7, <2>8
    <3>2. d \in Seq(S) /\ Len(d) = m
      BY <3>1, SMTT(30)
    <3>3. \A i \in 1..(m - r) : d[i] = a[i]
      BY <3>1, SMTT(30)
    <3>4. \A i \in 1..r : d[(m - r) + i] = b[i]
      BY <3>1, SMTT(30)
    <3> QED
      BY <3>2, <3>3, <3>4
  <2> HIDE DEF d
  <2>12. \A i \in 1..m : d[i] = c[i]
    <3> TAKE i \in 1..m
    <3>1. CASE i <= m - r
      <4>1. i \in 1..(m - r)
        BY <1>1, <2>1, <3>1
      <4> QED
        BY <2>7, <2>9, <2>11, <4>1
    <3>2. CASE i > m - r
      <4> DEFINE j == i - (m - r)
      <4>1. j \in 1..r /\ (m - r) + j = i
        BY <1>1, <2>1, <3>2
      <4> HIDE DEF j
      <4>2. d[i] = b[j] /\ b[j] = t[(x - m) + i]
        BY <2>8, <2>11, <4>1
      <4> QED
        BY <2>9, <4>2
    <3> QED
      BY <1>1, <2>1, <3>1, <3>2
  <2>13. d = c
    BY <2>9, <2>11, <2>12
  <2>14. (IF x > m THEN x - m + 1 ELSE 1) = (x - m) + 1
    BY <1>1, <1>2, <1>6
  <2>15. ~(x < m)
    BY <1>1, <1>2, <1>6
  <2>16. Segment(p) = d
    BY <1>4, <2>15, Zenon DEF a, b, d, r
  <2> QED
    BY <2>13, <2>14, <2>16 DEF c, x, m
<1> QED
  BY <1>1, <1>2, <1>5, <1>6
-----------------------------------------------------------------------------
IsBuilder(b) == b = [dom |-> b.dom, current |-> b.current]

LEMMA BuildBuilder ==
  ASSUME NEW b, IsBuilder(b), NEW e
  PROVE  IsBuilder(Build(b, e))
<1>1. \A x : IsBuilder([b EXCEPT !.dom = x]) /\ IsBuilder([b EXCEPT !.current = x])
  BY DEF IsBuilder
<1>2. \A x, y : IsBuilder([dom |-> x, current |-> y])
  BY DEF IsBuilder
<1>3. CASE e.type = "DocDecl"
  BY <1>1, <1>3, Zenon DEF Build
<1>4. CASE e.type = "DocType"
  BY <1>1, <1>4, Zenon DEF Build
<1>5. CASE e.type = "StartTag"
  BY <1>2, <1>5, Zenon DEF Build
<1>6. CASE e.type = "EndTag"
  BY <1>1, <1>6, Zenon DEF Build
<1>7. CASE e.type \in {"CData", "Comment"}
  BY <1>1, <1>7, Zenon DEF Build
<1>8. CASE e.type = "PI"
  BY <1>1, <1>8, Zenon DEF Build
<1>9. CASE e.type \notin {"DocDecl", "DocType", "StartTag", "EndTag", "CData", "Comment", "PI"}
  BY <1>9, Zenon DEF Build
<1> QED
  BY <1>3, <1>4, <1>5, <1>6, <1>7, <1>8, <1>9

LEMMA BuildTreeBuilder ==
  ASSUME NEW b, IsBuilder(b), NEW events, Len(events) \in Nat
  PROVE  IsBuilder(BuildTree(b, events))
<1>1. PICK f : Fed(Building, b, events, f)
  BY FedExists
<1>2. /\ f[0] = b
      /\ \A i \in 0..(Len(events) - 1) : f[i + 1] = Does(Building, f[i], events[i + 1])
  BY <1>1, FedStep
<1> DEFINE n == Len(events)
           S == {i \in 0..n : IsBuilder(f[i])}
<1>3. 0 \in S
  BY <1>2
<1>4. ASSUME NEW i \in 0..(n - 1), i \in S PROVE i + 1 \in S
  <2>1. f[i + 1] = Build(f[i], events[i + 1])
    BY <1>2 DEF Does, Feeding, Building
  <2>2. IsBuilder(f[i + 1])
    BY <1>4, <2>1, BuildBuilder
  <2> QED
    BY <2>2
<1>5. \A i \in 0..n : i \in S
  <2> HIDE DEF S
  <2> QED
    BY <1>3, <1>4, UpTo
<1>6. BuildTree(b, events) = f[n]
  BY <1>1, BuildTreeIs, ResultIs
<1>7. n \in 0..n
  OBVIOUS
<1> QED
  BY <1>5, <1>6, <1>7

-----------------------------------------------------------------------------
(* The parser and the builder stand where one append of all the input would *)
(* have brought them, but for the events that were taken since.             *)
NewBuilder == [dom |-> NewDom, current |-> Null]

AsInOne(p, t, d, c) ==
  LET P == Parsed(p.ignore, t)
  IN  /\ Alike(p, P, P.queue)
      /\ [dom |-> d, current |-> c] = BuildTree(NewBuilder, P.queue)

XmlInv ==
  /\ parser.reader \in Readers
  /\ parser.queue = <<>>
  /\ parser.fault = "no"
  /\ IsSeq(input)
  /\ AsInOne(parser, input, dom, current)
  /\ RingHolds(parser, input)

LEMMA XmlInit == Init => XmlInv
<1> SUFFICES ASSUME Init PROVE XmlInv
  OBVIOUS
<1>1. PICK ignore \in BOOLEAN : parser = Drain(NewParser(ignore))
  BY DEF Init
<1> DEFINE P == NewParser(ignore)
<1>2. input = <<>> /\ dom = NewDom /\ current = Null
  BY DEF Init
<1>3. /\ IsParser(P) /\ P.queue = <<StartDocument>> /\ P.reader = "LBracket" /\ P.fault = "no"
      /\ P.index = 0 /\ P.ignore = ignore
      /\ P.ring = [i \in 0..(SegmentLen - 1) |-> P.ring[i]]
  <2>1. IsSeq(<<StartDocument>>)
    BY DEF IsSeq
  <2>2. P.ring = [i \in 0..(SegmentLen - 1) |-> P.ring[i]]
    BY SegmentLenAssumption DEF NewParser
  <2> QED
    BY <2>1, <2>2 DEF NewParser, IsParser, ParserFields, Roots
<1>4. Parsed(ignore, <<>>) = P
  <2>1. Len(<<>>) \in Nat
    OBVIOUS
  <2>2. Result(Feeding, P, <<>>) = P
    BY FedNothing
  <2> HIDE DEF P
  <2>3. FeedAll(P, <<>>) = Result(Feeding, P, <<>>)
    BY <2>1, FeedAllIs
  <2> QED
    BY <2>2, <2>3 DEF Parsed, P
<1> HIDE DEF P
<1> DEFINE l == Run(LevelAfter, P.level, P.queue)
<1>5. parser = [P EXCEPT !.queue = <<>>, !.level = l]
  BY <1>1 DEF Drain, P
<1> HIDE DEF l
<1>6. IsSeq(<<>>) /\ IsSeq(P.queue) /\ P.queue \o <<>> = P.queue
  <2>1. IsSeq(<<>>)
    BY DEF IsSeq
  <2>2. IsSeq(P.queue)
    BY <1>3 DEF IsParser
  <2> QED
    BY <2>1, <2>2, Joined
<1>7. /\ Alike(parser, P, P.queue) /\ parser.queue = <<>> /\ parser.fault = "no"
      /\ parser.reader = "LBracket" /\ parser.index = 0 /\ parser.ring = P.ring
      /\ parser.ignore = ignore
  BY <1>3, <1>5, <1>6 DEF Alike, IsParser, ParserFields
<1>8. BuildTree(NewBuilder, <<StartDocument>>) = NewBuilder
  <2>1. Len(<<StartDocument>>) \in Nat
    OBVIOUS
  <2>2. Result(Building, NewBuilder, <<StartDocument>>) = Does(Building, NewBuilder, StartDocument)
    BY FedOne
  <2>3. BuildTree(NewBuilder, <<StartDocument>>) = Result(Building, NewBuilder, <<StartDocument>>)
    BY <2>1, BuildTreeIs
  <2>4. Does(Building, NewBuilder, StartDocument) = Build(NewBuilder, StartDocument)
    BY DEF Does, Building, Feeding
  <2>5. StartDocument.type = "StartDocument"
    BY DEF StartDocument
  <2>6. Build(NewBuilder, StartDocument) = NewBuilder
    <3> DEFINE e == StartDocument
    <3>1. e.type \notin {"DocDecl", "DocType", "StartTag", "EndTag", "CData", "Comment", "PI"}
      BY <2>5
    <3> HIDE DEF e
    <3>2. Build(NewBuilder, e) = NewBuilder
      BY <3>1, Zenon DEF Build
    <3> QED
      BY <3>2 DEF e
  <2> QED
    BY <2>2, <2>3, <2>4, <2>6
<1>9. AsInOne(parser, input, dom, current)
  BY <1>2, <1>3, <1>4, <1>7, <1>8 DEF AsInOne, NewBuilder
<1>10. RingHolds(parser, input)
  <2>1. Len(input) = 0
    BY <1>2
  <2>2. \A k \in 1..0 : FALSE
    OBVIOUS
  <2> QED
    BY <1>3, <1>7, <2>1, <2>2 DEF RingHolds
<1> QED
  BY <1>2, <1>6, <1>7, <1>9, <1>10 DEF XmlInv, Readers

LEMMA XmlAppend ==
  ASSUME XmlInv, NEW chunk \in Chunks, AppendChunk(chunk)
  PROVE  XmlInv'
<1> DEFINE p == FeedAll(parser, chunk)
           P == Parsed(parser.ignore, input)
           W == Parsed(parser.ignore, input \o chunk)
           b == BuildTree([dom |-> dom, current |-> current], p.queue)
<1>1. /\ p.fault # "must"
      /\ parser' = [Drain(p) EXCEPT !.fault = "no"]
      /\ dom' = b.dom /\ current' = b.current
      /\ input' = input \o chunk
  BY DEF AppendChunk
<1>2. /\ parser.reader \in Readers /\ parser.queue = <<>> /\ parser.fault = "no" /\ IsSeq(input)
      /\ Alike(parser, P, P.queue)
      /\ [dom |-> dom, current |-> current] = BuildTree(NewBuilder, P.queue)
      /\ RingHolds(parser, input)
  BY DEF XmlInv, AsInOne
<1>3. IsSeq(chunk)
  BY ChunksAssumption, SeqIs
<1>4. IsSeq(input \o chunk)
  BY <1>2, <1>3, Joined
<1>5. W = FeedAll(P, chunk)
  BY <1>2, <1>3, FeedOn DEF Parsed
<1>6. RingHolds(p, input \o chunk)
  BY <1>2, <1>3, RingFedAll DEF Alike
<1> HIDE DEF P
<1>7. Alike(p, W, P.queue) /\ p.reader \in Readers /\ p.ignore = parser.ignore
  BY <1>2, <1>3, <1>5, FeedAllAlike
<1> HIDE DEF p, W
<1>8. IsSeq(p.queue) /\ IsSeq(P.queue) /\ IsSeq(W.queue) /\ W.queue = P.queue \o p.queue
  BY <1>7 DEF Alike, IsParser
<1>9. BuildTree(NewBuilder, W.queue) = b
  <2>1. BuildTree(NewBuilder, P.queue \o p.queue) = BuildTree(BuildTree(NewBuilder, P.queue), p.queue)
    BY <1>8, BuildOn
  <2> QED
    BY <1>2, <1>8, <2>1
<1>10. IsBuilder(b)
  <2> DEFINE o == [dom |-> dom, current |-> current]
  <2>1. IsBuilder(o)
    BY DEF IsBuilder
  <2> HIDE DEF o
  <2>2. IsBuilder(BuildTree(o, p.queue))
    BY <1>8, <2>1, BuildTreeBuilder DEF IsSeq
  <2> QED
    BY <2>2 DEF o
<1> HIDE DEF b
<1>11. [dom |-> dom', current |-> current'] = b
  BY <1>1, <1>10 DEF IsBuilder
<1> DEFINE l == Run(LevelAfter, p.level, p.queue)
<1>12. parser' = [p EXCEPT !.queue = <<>>, !.level = l, !.fault = "no"]
  <2>1. Drain(p) = [p EXCEPT !.queue = <<>>, !.level = l]
    BY DEF Drain
  <2> HIDE DEF l
  <2> QED
    BY <1>1, <2>1
<1> HIDE DEF l
<1>13. IsParser(p)
  BY <1>7 DEF Alike
<1>14. IsSeq(<<>>) /\ W.queue \o <<>> = W.queue
  <2>1. IsSeq(<<>>)
    BY DEF IsSeq
  <2> QED
    BY <1>8, <2>1, Joined
<1>15. /\ IsParser(parser') /\ parser'.queue = <<>> /\ parser'.fault = "no"
       /\ parser'.reader = p.reader /\ parser'.buffer = p.buffer /\ parser'.quote = p.quote
       /\ parser'.bracket = p.bracket /\ parser'.tags = p.tags /\ parser'.root = p.root
       /\ parser'.encoding = p.encoding /\ parser'.ignore = p.ignore /\ parser'.error = p.error
       /\ parser'.ring = p.ring /\ parser'.index = p.index
  BY <1>12, <1>13, <1>14 DEF IsParser, ParserFields
<1>16. Alike(parser', W, W.queue)
  BY <1>1, <1>7, <1>8, <1>14, <1>15 DEF Alike
<1>17. AsInOne(parser, input, dom, current)'
  <2>1. Parsed(parser'.ignore, input') = W
    BY <1>1, <1>7, <1>15 DEF W
  <2> QED
    BY <1>9, <1>11, <1>16, <2>1 DEF AsInOne
<1>18. RingHolds(parser, input)'
  <2>1. Ready(parser') => Ready(p)
    BY <1>1, <1>15 DEF Ready
  <2> QED
    BY <1>1, <1>6, <1>15, <2>1 DEF RingHolds
<1> QED
  BY <1>1, <1>4, <1>7, <1>15, <1>17, <1>18 DEF XmlInv

LEMMA XmlNext == XmlInv /\ [Next]_vars => XmlInv'
<1> SUFFICES ASSUME XmlInv, [Next]_vars PROVE XmlInv'
  OBVIOUS
<1>1. CASE UNCHANGED <<parser, dom, current, input>>
  BY <1>1 DEF XmlInv, AsInOne, RingHolds, Ready
<1>2. CASE \E chunk \in Chunks : AppendChunk(chunk)
  BY <1>2, XmlAppend
<1>3. CASE \E chunk \in Chunks : Fault(chunk)
  BY <1>1, <1>3 DEF Fault
<1>4. CASE Iterate
  BY <1>1, <1>4 DEF Iterate
<1>5. CASE GetNext
  BY <1>1, <1>5 DEF GetNext
<1>6. CASE UNCHANGED vars
  BY <1>1, <1>6 DEF vars
<1> QED
  BY <1>2, <1>3, <1>4, <1>5, <1>6 DEF Next

LEMMA XmlAlways == Spec => []XmlInv
BY XmlInit, XmlNext, PTL DEF Spec

(* Wherever a caller cuts the source it appends, the document is the one a  *)
(* single append of the whole source builds, and an error message quotes    *)
(* the last symbols of that source in order (SP_XmlDomParser::append,       *)
(* SP_XmlPullParser::append and setError): for every set of chunks, any     *)
(* number of appends, and every length of the ring.                         *)
THEOREM CutsNeverMatter == Spec => []CutsDoNotMatter
<1>1. XmlInv => CutsDoNotMatter
  <2> SUFFICES ASSUME XmlInv PROVE CutsDoNotMatter
    OBVIOUS
  <2> DEFINE b == BuildTree(NewBuilder, Parsed(parser.ignore, input).queue)
  <2>1. [dom |-> dom, current |-> current] = b
    BY DEF XmlInv, AsInOne
  <2>2. Document(parser.ignore, input) = b.dom
    BY DEF Document, NewBuilder
  <2> HIDE DEF b
  <2>3. dom = b.dom
    BY <2>1
  <2>4. Segment(parser) =
          SubSeq(input, IF parser.index > SegmentLen THEN parser.index - SegmentLen + 1 ELSE 1,
                 parser.index)
    BY SegmentIs DEF XmlInv
  <2> QED
    BY <2>2, <2>3, <2>4 DEF CutsDoNotMatter
<1> QED
  BY <1>1, XmlAlways, PTL
-----------------------------------------------------------------------------
(* Lists of nodes.                                                          *)
In(s, x) == \E i \in DOMAIN s : s[i] = x

Listed(s, S) == s \in Seq(S) /\ \A i, j \in 1..Len(s) : s[i] = s[j] => i = j

LEMMA ListedMore ==
  ASSUME NEW S, NEW s, Listed(s, S), NEW x \in S, ~In(s, x)
  PROVE  /\ Listed(Append(s, x), S)
         /\ \A y : In(Append(s, x), y) <=> y = x \/ In(s, y)
<1> DEFINE t == Append(s, x)
           n == Len(s)
<1>1. /\ s \in Seq(S) /\ n \in Nat /\ DOMAIN s = 1..n
      /\ \A i, j \in 1..n : s[i] = s[j] => i = j
  BY DEF Listed
<1>2. /\ t \in Seq(S) /\ Len(t) = n + 1 /\ DOMAIN t = 1..(n + 1)
      /\ t[n + 1] = x /\ \A i \in 1..n : t[i] = s[i]
  BY <1>1
<1>3. \A i \in 1..n : s[i] # x
  BY <1>1 DEF In
<1> HIDE DEF t, n
<1>4. \A i \in 1..(n + 1) : i \in 1..n \/ i = n + 1
  BY <1>1
<1>5. \A i, j \in 1..(n + 1) : t[i] = t[j] => i = j
  BY <1>1, <1>2, <1>3, <1>4
<1>6. Listed(t, S)
  BY <1>2, <1>5 DEF Listed
<1>7. ASSUME NEW y PROVE In(t, y) <=> y = x \/ In(s, y)
  <2>1. ASSUME In(t, y) PROVE y = x \/ In(s, y)
    BY <1>1, <1>2, <1>4, <2>1 DEF In
  <2>2. ASSUME y = x PROVE In(t, y)
    <3>1. n + 1 \in DOMAIN t /\ t[n + 1] = y
      BY <1>1, <1>2, <2>2
    <3> QED
      BY <3>1 DEF In
  <2>3. ASSUME In(s, y) PROVE In(t, y)
    <3>1. PICK i \in 1..n : s[i] = y
      BY <1>1, <2>3 DEF In
    <3>2. i \in DOMAIN t /\ t[i] = y
      BY <1>1, <1>2, <3>1
    <3> QED
      BY <3>2 DEF In
  <2> QED
    BY <2>1, <2>2, <2>3
<1> QED
  BY <1>6, <1>7 DEF t

LEMMA ListedLess ==
  ASSUME NEW S, NEW s, Listed(s, S), NEW k \in 1..Len(s)
  PROVE  /\ Listed(RemoveAt(s, k), S)
         /\ \A y : In(RemoveAt(s, k), y) <=> y # s[k] /\ In(s, y)
<1> DEFINE t == RemoveAt(s, k)
           n == Len(s)
           a == SubSeq(s, 1, k - 1)
           b == SubSeq(s, k + 1, n)
<1>1. /\ s \in Seq(S) /\ n \in Nat /\ DOMAIN s = 1..n /\ k \in 1..n
      /\ \A i, j \in 1..n : s[i] = s[j] => i = j
  BY DEF Listed
<1>2. a \in Seq(S) /\ Len(a) = k - 1 /\ \A i \in 1..(k - 1) : a[i] = s[i]
  BY <1>1
<1>3. b \in Seq(S) /\ Len(b) = n - k /\ \A i \in 1..(n - k) : b[i] = s[k + i]
  <2> DEFINE l == k + 1
  <2>1. l \in Nat /\ l >= 1 /\ l <= n + 1 /\ (n - l) + 1 = n - k
    BY <1>1
  <2>2. \A i \in 1..(n - k) : (l + i) - 1 = k + i
    BY <1>1
  <2> HIDE DEF l, n, b
  <2>3. /\ SubSeq(s, l, n) \in Seq(S) /\ Len(SubSeq(s, l, n)) = (n - l) + 1
        /\ \A i \in 1..((n - l) + 1) : SubSeq(s, l, n)[i] = s[(l + i) - 1]
    BY <1>1, <2>1 DEF n
  <2> QED
    BY <2>1, <2>2, <2>3 DEF b, l
<1>4. t = a \o b
  BY DEF RemoveAt
<1> HIDE DEF t, n, a, b
<1>5. /\ t \in Seq(S) /\ Len(t) = n - 1 /\ DOMAIN t = 1..(n - 1)
      /\ \A i \in 1..(k - 1) : t[i] = s[i]
      /\ \A i \in 1..(n - k) : t[(k - 1) + i] = s[k + i]
  <2>1. t \in Seq(S) /\ Len(t) = n - 1 /\ DOMAIN t = 1..(n - 1)
    BY <1>1, <1>2, <1>3, <1>4
  <2>2. \A i \in 1..(k - 1) : t[i] = s[i]
    BY <1>1, <1>2, <1>3, <1>4
  <2>3. \A i \in 1..(n - k) : t[(k - 1) + i] = b[i]
    BY <1>1, <1>2, <1>3, <1>4
  <2> QED
    BY <1>3, <2>1, <2>2, <2>3
<1> DEFINE f(i) == IF i < k THEN i ELSE i + 1
<1>6. \A i \in 1..(n - 1) : f(i) \in 1..n /\ f(i) # k /\ t[i] = s[f(i)]
  <2> TAKE i \in 1..(n - 1)
  <2>1. CASE i < k
    <3>1. i \in 1..(k - 1) /\ i \in 1..n
      BY <1>1, <2>1
    <3> QED
      BY <1>1, <1>5, <2>1, <3>1
  <2>2. CASE i >= k
    <3> DEFINE j == i - (k - 1)
    <3>1. j \in 1..(n - k) /\ (k - 1) + j = i /\ k + j = i + 1 /\ i + 1 \in 1..n
      BY <1>1, <2>2
    <3> HIDE DEF j
    <3>2. t[i] = s[i + 1]
      BY <1>5, <3>1
    <3> QED
      BY <1>1, <2>2, <3>1, <3>2
  <2> QED
    BY <1>1, <2>1, <2>2
<1>7. \A i, j \in 1..(n - 1) : t[i] = t[j] => i = j
  <2> TAKE i, j \in 1..(n - 1)
  <2> HAVE t[i] = t[j]
  <2>1. f(i) = f(j)
    BY <1>1, <1>6
  <2> QED
    BY <1>1, <2>1
<1>8. Listed(t, S)
  BY <1>5, <1>7 DEF Listed
<1>9. ASSUME NEW y PROVE In(t, y) <=> y # s[k] /\ In(s, y)
  <2>1. ASSUME In(t, y) PROVE y # s[k] /\ In(s, y)
    <3>1. PICK i \in 1..(n - 1) : t[i] = y
      BY <1>5, <2>1 DEF In
    <3>2. PICK j \in 1..n : j # k /\ y = s[j]
      BY <1>6, <3>1
    <3> QED
      BY <1>1, <3>2 DEF In
  <2>2. ASSUME y # s[k], In(s, y) PROVE In(t, y)
    <3>1. PICK j \in 1..n : s[j] = y
      BY <1>1, <2>2 DEF In
    <3>2. j # k
      BY <2>2, <3>1
    <3> DEFINE i == IF j < k THEN j ELSE j - 1
    <3>3. i \in 1..(n - 1) /\ f(i) = j
      BY <1>1, <3>2
    <3>4. i \in DOMAIN t /\ t[i] = y
      BY <1>5, <1>6, <3>1, <3>3
    <3> QED
      BY <3>4 DEF In
  <2> QED
    BY <2>1, <2>2
<1> QED
  BY <1>8, <1>9 DEF t, n
-----------------------------------------------------------------------------
(* The nodes of a document.  U are the nodes that no list of children has:  *)
(* DocDecl and DocType, and one that is about to be put in or deleted.      *)
ParentOf(d, n) == d.node[n].parent

EventOf(d, n) == d.node[n].event

HolderOf(d, n) == IF ParentOf(d, n) = Null THEN Doc ELSE ParentOf(d, n)

IsDom(d) ==
  /\ d = [decl |-> d.decl, type |-> d.type, node |-> d.node]
  /\ d.node = [n \in Nodes(d) |->
                 [event |-> EventOf(d, n), parent |-> ParentOf(d, n), kids |-> Kids(d, n)]]

ParentsRight(d, U) ==
  \A n \in Nodes(d) \ {Doc} :
    /\ ParentOf(d, n) \in Nodes(d) \cup {Null}
    /\ ParentOf(d, n) < n
    /\ ParentOf(d, n) \in {Null, Doc} \/ IsElement(d, ParentOf(d, n))
    /\ n \notin U /\ ParentOf(d, n) = Null => TypeOf(d, n) = "PI"

KidsRight(d, U) ==
  \A m \in Nodes(d) :
    /\ Listed(Kids(d, m), Nodes(d))
    /\ \A n \in Nodes(d) : In(Kids(d, m), n) <=> n \notin U /\ n # Doc /\ m = HolderOf(d, n)

TopElement(d, n) == IsElement(d, n) /\ ParentOf(d, n) = Doc

OneTop(d, U) ==
  \A m, n \in Nodes(d) \ U : TopElement(d, m) /\ TopElement(d, n) => m = n

Tree(d, U) ==
  /\ IsDom(d)
  /\ \E k \in Nat : Nodes(d) \subseteq 0..k
  /\ Doc \in Nodes(d) /\ ParentOf(d, Doc) = Null /\ ~IsElement(d, Doc)
  /\ U \subseteq Nodes(d) \ {Doc}
  /\ ParentsRight(d, U)
  /\ KidsRight(d, U)
  /\ OneTop(d, U)

(* A new node has a number above all others.                                *)
LEMMA FreshIs ==
  ASSUME NEW d, NEW k \in Nat, Nodes(d) \subseteq 0..k, Doc \in Nodes(d)
  PROVE  Fresh(d) \in Nat /\ \A m \in Nodes(d) : m < Fresh(d)
<1> DEFINE T == {k - m : m \in Nodes(d)}
           N == Nodes(d)
<1> HIDE DEF N
<1>1. T \in SUBSET Nat /\ T # {}
  BY DEF N
<1>2. Min(T) \in T /\ \A y \in T : Min(T) <= y
  <2> HIDE DEF T
  <2> QED
    BY <1>1, MinNat
<1>3. PICK x \in T : \A y \in T : x <= y
  BY <1>2
<1>4. PICK n \in N : x = k - n
  BY <1>3 DEF N
<1>5. \A m \in N : m \in 0..k /\ k - m \in T
  BY DEF N
<1>6. \A m \in N : n >= m
  <2> TAKE m \in N
  <2>1. m \in 0..k /\ n \in 0..k /\ k - m \in T
    BY <1>4, <1>5
  <2> HIDE DEF T
  <2>2. k - n <= k - m
    BY <1>3, <1>4, <2>1
  <2> QED
    BY <2>1, <2>2
<1> DEFINE c == CHOOSE z \in N : \A m \in N : z >= m
<1>7. c \in N /\ \A m \in N : c >= m
  BY <1>4, <1>6
<1>8. Fresh(d) = 1 + c
  BY DEF Fresh, N
<1> HIDE DEF c, T
<1> QED
  BY <1>5, <1>7, <1>8 DEF N

LEMMA AddNodeIs ==
  ASSUME NEW d, IsDom(d), NEW event, NEW parent, Fresh(d) \notin Nodes(d)
  PROVE  LET n == Fresh(d)
             o == AddNode(d, event, parent)
         IN  /\ IsDom(o) /\ o.decl = d.decl /\ o.type = d.type
             /\ Nodes(o) = Nodes(d) \cup {n}
             /\ EventOf(o, n) = event /\ ParentOf(o, n) = parent /\ Kids(o, n) = <<>>
             /\ \A m \in Nodes(d) : /\ EventOf(o, m) = EventOf(d, m)
                                    /\ ParentOf(o, m) = ParentOf(d, m) /\ Kids(o, m) = Kids(d, m)
<1> DEFINE n == Fresh(d)
           o == AddNode(d, event, parent)
           N == Nodes(d)
           x == [event |-> event, parent |-> parent, kids |-> <<>>]
           f == [m \in N \cup {n} |-> IF m \in N THEN d.node[m] ELSE x]
<1>1. d = [decl |-> d.decl, type |-> d.type, node |-> d.node]
  BY DEF IsDom
<1>2. o = [d EXCEPT !.node = f]
  BY DEF AddNode
<1> HIDE DEF o, f
<1>3. o = [decl |-> d.decl, type |-> d.type, node |-> f]
  BY <1>1, <1>2
<1>4. o.decl = d.decl /\ o.type = d.type /\ o.node = f
  BY <1>3
<1>5. DOMAIN f = N \cup {n} /\ f[n] = x /\ \A m \in N : f[m] = d.node[m]
  BY DEF f
<1>6. Nodes(o) = N \cup {n}
  BY <1>4, <1>5 DEF Nodes
<1>7. EventOf(o, n) = event /\ ParentOf(o, n) = parent /\ Kids(o, n) = <<>>
  BY <1>4, <1>5 DEF EventOf, ParentOf, Kids
<1>8. \A m \in N : /\ EventOf(o, m) = EventOf(d, m) /\ ParentOf(o, m) = ParentOf(d, m)
                   /\ Kids(o, m) = Kids(d, m)
  BY <1>4, <1>5 DEF EventOf, ParentOf, Kids
<1>9. \A m \in N : d.node[m] = [event |-> EventOf(d, m), parent |-> ParentOf(d, m), kids |-> Kids(d, m)]
  BY DEF IsDom
<1>10. f = [m \in Nodes(o) |-> [event |-> EventOf(o, m), parent |-> ParentOf(o, m), kids |-> Kids(o, m)]]
  <2> DEFINE g(m) == [event |-> EventOf(o, m), parent |-> ParentOf(o, m), kids |-> Kids(o, m)]
  <2>1. \A m \in N : f[m] = g(m)
    BY <1>5, <1>8, <1>9
  <2>2. f[n] = g(n)
    BY <1>5, <1>7
  <2>3. \A m \in N \cup {n} : f[m] = g(m)
    BY <2>1, <2>2
  <2>4. f = [m \in N \cup {n} |-> f[m]]
    BY DEF f
  <2> QED
    BY <1>6, <2>3, <2>4
<1>11. IsDom(o)
  BY <1>3, <1>4, <1>10 DEF IsDom
<1> QED
  BY <1>4, <1>6, <1>7, <1>8, <1>11 DEF o

(* Only the list of children of one node changes.                           *)
WithKids(d, h, s) == [d EXCEPT !.node[h].kids = s]

LEMMA WithKidsIs ==
  ASSUME NEW d, IsDom(d), NEW h \in Nodes(d), NEW s
  PROVE  LET o == WithKids(d, h, s)
         IN  /\ IsDom(o) /\ o.decl = d.decl /\ o.type = d.type
             /\ Nodes(o) = Nodes(d)
             /\ \A m \in Nodes(d) : /\ EventOf(o, m) = EventOf(d, m) /\ ParentOf(o, m) = ParentOf(d, m)
                                    /\ m # h => Kids(o, m) = Kids(d, m)
             /\ Kids(o, h) = s
<1> DEFINE o == WithKids(d, h, s)
           N == Nodes(d)
           y == [d.node[h] EXCEPT !.kids = s]
           f == [d.node EXCEPT ![h] = y]
<1>1. /\ d = [decl |-> d.decl, type |-> d.type, node |-> d.node]
      /\ DOMAIN d.node = N
      /\ \A m \in N : d.node[m] = [event |-> EventOf(d, m), parent |-> ParentOf(d, m), kids |-> Kids(d, m)]
  BY DEF IsDom, Nodes
<1>2. o = [d EXCEPT !.node = f]
  BY DEF WithKids
<1> HIDE DEF o, f, N
<1>h. h \in N
  BY DEF N
<1>3. y = [event |-> EventOf(d, h), parent |-> ParentOf(d, h), kids |-> s]
  <2> DEFINE z == d.node[h]
             e == EventOf(d, h)
             u == ParentOf(d, h)
             v == Kids(d, h)
  <2>1. z = [event |-> e, parent |-> u, kids |-> v]
    BY <1>1, <1>h
  <2> HIDE DEF z, e, u, v
  <2>2. [z EXCEPT !.kids = s] = [event |-> e, parent |-> u, kids |-> s]
    BY <2>1
  <2> QED
    BY <2>2 DEF z, e, u
<1> HIDE DEF y
<1>4. o = [decl |-> d.decl, type |-> d.type, node |-> f]
  BY <1>1, <1>2
<1>5. o.decl = d.decl /\ o.type = d.type /\ o.node = f
  BY <1>4
<1>6. DOMAIN f = N /\ f[h] = y /\ \A m \in N : m # h => f[m] = d.node[m]
  BY <1>1, <1>h DEF f
<1>7. Nodes(o) = N
  BY <1>5, <1>6 DEF Nodes
<1>8. Kids(o, h) = s /\ EventOf(o, h) = EventOf(d, h) /\ ParentOf(o, h) = ParentOf(d, h)
  <2>1. y.kids = s /\ y.event = EventOf(d, h) /\ y.parent = ParentOf(d, h)
    BY <1>3
  <2> QED
    BY <1>5, <1>6, <2>1 DEF EventOf, ParentOf, Kids
<1>9. \A m \in N : m # h => /\ EventOf(o, m) = EventOf(d, m) /\ ParentOf(o, m) = ParentOf(d, m)
                            /\ Kids(o, m) = Kids(d, m)
  BY <1>5, <1>6 DEF EventOf, ParentOf, Kids
<1>10. f = [m \in Nodes(o) |-> [event |-> EventOf(o, m), parent |-> ParentOf(o, m), kids |-> Kids(o, m)]]
  <2> DEFINE g(m) == [event |-> EventOf(o, m), parent |-> ParentOf(o, m), kids |-> Kids(o, m)]
  <2>1. \A m \in N : m # h => f[m] = g(m)
    BY <1>1, <1>6, <1>9
  <2>2. f[h] = g(h)
    BY <1>3, <1>6, <1>8
  <2>3. \A m \in N : f[m] = g(m)
    BY <2>1, <2>2
  <2>4. f = [m \in N |-> f[m]]
    BY <1>1 DEF f
  <2> QED
    BY <1>7, <2>3, <2>4
<1>11. IsDom(o)
  BY <1>4, <1>5, <1>10 DEF IsDom
<1>12. \A m \in N : /\ EventOf(o, m) = EventOf(d, m) /\ ParentOf(o, m) = ParentOf(d, m)
                    /\ m # h => Kids(o, m) = Kids(d, m)
  BY <1>8, <1>9
<1> QED
  BY <1>5, <1>7, <1>8, <1>11, <1>12 DEF o, N

(* Only some nodes remain.                                                  *)
LEMMA DeleteIs ==
  ASSUME NEW d, IsDom(d), NEW r
  PROVE  LET o == Delete(d, r)
         IN  /\ IsDom(o) /\ o.decl = d.decl /\ o.type = d.type
             /\ Nodes(o) = {k \in Nodes(d) : r \notin Above(d, k)}
             /\ \A m \in Nodes(o) : /\ EventOf(o, m) = EventOf(d, m)
                                    /\ ParentOf(o, m) = ParentOf(d, m) /\ Kids(o, m) = Kids(d, m)
<1> DEFINE o == Delete(d, r)
           M == {k \in Nodes(d) : r \notin Above(d, k)}
           f == [m \in M |-> d.node[m]]
<1>1. /\ d = [decl |-> d.decl, type |-> d.type, node |-> d.node]
      /\ \A m \in Nodes(d) : d.node[m] = [event |-> EventOf(d, m), parent |-> ParentOf(d, m), kids |-> Kids(d, m)]
  BY DEF IsDom
<1>2. o = [d EXCEPT !.node = f]
  BY DEF Delete
<1>m. M \subseteq Nodes(d)
  OBVIOUS
<1> HIDE DEF o, f, M
<1>3. o = [decl |-> d.decl, type |-> d.type, node |-> f]
  BY <1>1, <1>2
<1>4. o.decl = d.decl /\ o.type = d.type /\ o.node = f
  BY <1>3
<1>5. DOMAIN f = M /\ \A m \in M : f[m] = d.node[m]
  BY DEF f
<1>6. Nodes(o) = M
  BY <1>4, <1>5 DEF Nodes
<1>7. \A m \in M : /\ EventOf(o, m) = EventOf(d, m) /\ ParentOf(o, m) = ParentOf(d, m)
                   /\ Kids(o, m) = Kids(d, m)
  BY <1>4, <1>5 DEF EventOf, ParentOf, Kids
<1>8. f = [m \in Nodes(o) |-> [event |-> EventOf(o, m), parent |-> ParentOf(o, m), kids |-> Kids(o, m)]]
  <2> DEFINE g(m) == [event |-> EventOf(o, m), parent |-> ParentOf(o, m), kids |-> Kids(o, m)]
  <2>1. \A m \in M : f[m] = g(m)
    BY <1>1, <1>m, <1>5, <1>7
  <2>2. f = [m \in M |-> f[m]]
    BY DEF f
  <2> QED
    BY <1>6, <2>1, <2>2
<1>9. IsDom(o)
  BY <1>3, <1>4, <1>8 DEF IsDom
<1> QED
  BY <1>4, <1>6, <1>7, <1>9 DEF o, M

LEMMA Carried ==
  ASSUME NEW d, NEW o, NEW m, EventOf(o, m) = EventOf(d, m), ParentOf(o, m) = ParentOf(d, m)
  PROVE  /\ TypeOf(o, m) = TypeOf(d, m) /\ (IsElement(o, m) <=> IsElement(d, m))
         /\ HolderOf(o, m) = HolderOf(d, m) /\ (TopElement(o, m) <=> TopElement(d, m))
<1>1. TypeOf(o, m) = TypeOf(d, m)
  BY DEF TypeOf, EventOf
<1>2. IsElement(o, m) <=> IsElement(d, m)
  BY <1>1 DEF IsElement
<1>3. HolderOf(o, m) = HolderOf(d, m)
  BY DEF HolderOf
<1> QED
  BY <1>1, <1>2, <1>3 DEF TopElement

(* Two documents whose nodes M are the same but for their children.         *)
Shared(d, o, M) ==
  \A m \in M : EventOf(o, m) = EventOf(d, m) /\ ParentOf(o, m) = ParentOf(d, m)

LEMMA SharedIs ==
  ASSUME NEW d, NEW o, NEW M, Shared(d, o, M)
  PROVE  \A m \in M : /\ TypeOf(o, m) = TypeOf(d, m) /\ (IsElement(o, m) <=> IsElement(d, m))
                      /\ HolderOf(o, m) = HolderOf(d, m) /\ (TopElement(o, m) <=> TopElement(d, m))
                      /\ ParentOf(o, m) = ParentOf(d, m)
BY Carried DEF Shared

LEMMA TreeParts ==
  ASSUME NEW d, NEW U, Tree(d, U)
  PROVE  /\ Nodes(d) \subseteq Nat /\ Doc \in Nodes(d) /\ U \subseteq Nodes(d) \ {Doc}
         /\ Null \notin Nodes(d)
         /\ \A n \in Nodes(d) : HolderOf(d, n) \in Nodes(d)
         /\ \A n \in Nodes(d) : n # Doc => n > 0
<1>1. PICK k \in Nat : Nodes(d) \subseteq 0..k
  BY DEF Tree
<1>2. Nodes(d) \subseteq Nat
  BY <1>1
<1>3. Doc \in Nodes(d) /\ U \subseteq Nodes(d) \ {Doc} /\ ParentOf(d, Doc) = Null
  BY DEF Tree
<1>4. ASSUME NEW n \in Nodes(d) PROVE HolderOf(d, n) \in Nodes(d)
  <2>1. n # Doc => ParentOf(d, n) \in Nodes(d) \cup {Null}
    BY DEF Tree, ParentsRight
  <2> QED
    BY <1>3, <2>1 DEF HolderOf
<1>5. Null \notin Nodes(d)
  BY <1>2 DEF Null
<1>6. \A n \in Nodes(d) : n # Doc => n > 0
  BY <1>2 DEF Doc
<1> QED
  BY <1>2, <1>3, <1>4, <1>5, <1>6

LEMMA EmptyListed ==
  ASSUME NEW S
  PROVE  Listed(<<>>, S) /\ \A x : ~In(<<>>, x)
BY DEF Listed, In

LEMMA ListedIn ==
  ASSUME NEW S, NEW T, NEW s, Listed(s, S), \A x : In(s, x) => x \in T
  PROVE  Listed(s, T)
<1>1. s \in Seq(S) /\ \A i, j \in 1..Len(s) : s[i] = s[j] => i = j
  BY DEF Listed
<1>2. \A i \in 1..Len(s) : s[i] \in T
  BY <1>1 DEF In
<1>3. s \in Seq(T)
  BY <1>1, <1>2
<1> QED
  BY <1>1, <1>3 DEF Listed

LEMMA AddNodeTree ==
  ASSUME NEW d, NEW U, Tree(d, U), NEW event, NEW parent \in Nodes(d) \cup {Null},
         parent \in {Null, Doc} \/ IsElement(d, parent)
  PROVE  LET n == Fresh(d)
             o == AddNode(d, event, parent)
         IN  /\ n \notin Nodes(d) /\ n \in Nat /\ n # Doc
             /\ Tree(o, U \cup {n}) /\ o.decl = d.decl /\ o.type = d.type
             /\ Nodes(o) = Nodes(d) \cup {n}
             /\ EventOf(o, n) = event /\ ParentOf(o, n) = parent
             /\ Shared(d, o, Nodes(d))
<1> DEFINE n == Fresh(d)
           o == AddNode(d, event, parent)
           N == Nodes(d)
           V == U \cup {n}
<1>1. PICK k \in Nat : N \subseteq 0..k
  BY DEF Tree
<1>2. /\ IsDom(d) /\ Doc \in N /\ U \subseteq N \ {Doc} /\ N \subseteq Nat /\ Null \notin N
      /\ \A m \in N : HolderOf(d, m) \in N
  BY TreeParts DEF Tree
<1>3. n \in Nat /\ \A m \in N : m < n
  BY <1>1, <1>2, FreshIs
<1> HIDE DEF n
<1>4. n \notin N /\ n # Doc
  BY <1>2, <1>3
<1>5. /\ IsDom(o) /\ o.decl = d.decl /\ o.type = d.type
      /\ Nodes(o) = N \cup {n}
      /\ EventOf(o, n) = event /\ ParentOf(o, n) = parent /\ Kids(o, n) = <<>>
      /\ \A m \in N : /\ EventOf(o, m) = EventOf(d, m)
                      /\ ParentOf(o, m) = ParentOf(d, m) /\ Kids(o, m) = Kids(d, m)
  BY <1>2, <1>4, AddNodeIs DEF n
<1> HIDE DEF o, N
<1>6. Shared(d, o, N)
  BY <1>5 DEF Shared
<1>7. \A m \in N : /\ TypeOf(o, m) = TypeOf(d, m) /\ (IsElement(o, m) <=> IsElement(d, m))
                   /\ HolderOf(o, m) = HolderOf(d, m) /\ (TopElement(o, m) <=> TopElement(d, m))
                   /\ ParentOf(o, m) = ParentOf(d, m)
  BY <1>6, SharedIs
<1>8. \E j \in Nat : Nodes(o) \subseteq 0..j
  <2>1. n + k \in Nat
    BY <1>1, <1>3
  <2>2. \A m \in N : m \in 0..(n + k)
    BY <1>1, <1>3
  <2>3. n \in 0..(n + k)
    BY <1>1, <1>3
  <2> QED
    BY <1>5, <2>1, <2>2, <2>3
<1>9. ParentsRight(o, V)
  <2> SUFFICES ASSUME NEW m \in Nodes(o) \ {Doc}
               PROVE  /\ ParentOf(o, m) \in Nodes(o) \cup {Null}
                      /\ ParentOf(o, m) < m
                      /\ ParentOf(o, m) \in {Null, Doc} \/ IsElement(o, ParentOf(o, m))
                      /\ m \notin V /\ ParentOf(o, m) = Null => TypeOf(o, m) = "PI"
    BY DEF ParentsRight
  <2>1. CASE m = n
    <3>1. parent < n
      BY <1>3 DEF Null, N
    <3>2. parent \in {Null, Doc} \/ IsElement(o, parent)
      BY <1>7 DEF N
    <3> QED
      BY <1>5, <2>1, <3>1, <3>2 DEF N
  <2>2. CASE m # n
    <3>1. m \in N \ {Doc}
      BY <1>5, <2>2
    <3>2. /\ ParentOf(d, m) \in N \cup {Null} /\ ParentOf(d, m) < m
          /\ ParentOf(d, m) \in {Null, Doc} \/ IsElement(d, ParentOf(d, m))
          /\ m \notin U /\ ParentOf(d, m) = Null => TypeOf(d, m) = "PI"
      BY <3>1 DEF Tree, ParentsRight, N
    <3>3. ParentOf(d, m) \in {Null, Doc} \/ IsElement(o, ParentOf(d, m))
      BY <1>7, <3>2
    <3> QED
      BY <1>5, <1>7, <3>1, <3>2, <3>3
  <2> QED
    BY <2>1, <2>2
<1>10. KidsRight(o, V)
  <2> SUFFICES ASSUME NEW h \in Nodes(o)
               PROVE  /\ Listed(Kids(o, h), Nodes(o))
                      /\ \A m \in Nodes(o) : In(Kids(o, h), m) <=> m \notin V /\ m # Doc /\ h = HolderOf(o, m)
    BY DEF KidsRight
  <2>1. CASE h = n
    <3>1. Listed(Kids(o, h), Nodes(o)) /\ \A m : ~In(Kids(o, h), m)
      BY <1>5, <2>1, EmptyListed
    <3>2. ASSUME NEW m \in Nodes(o), m \notin V PROVE h # HolderOf(o, m)
      <4>1. m \in N
        BY <1>5, <3>2
      <4> QED
        BY <1>2, <1>4, <1>7, <2>1, <4>1 DEF N
    <3> QED
      BY <3>1, <3>2
  <2>2. CASE h # n
    <3>1. h \in N /\ Kids(o, h) = Kids(d, h)
      BY <1>5, <2>2
    <3>2. /\ Listed(Kids(d, h), N)
          /\ \A m \in N : In(Kids(d, h), m) <=> m \notin U /\ m # Doc /\ h = HolderOf(d, m)
      BY <3>1 DEF Tree, KidsRight, N
    <3>3. \A x : In(Kids(d, h), x) => x \in N
      BY <3>2 DEF Listed, In
    <3>4. Listed(Kids(d, h), Nodes(o))
      BY <1>5, <3>2, <3>3, ListedIn
    <3>5. ASSUME NEW m \in Nodes(o)
          PROVE  In(Kids(d, h), m) <=> m \notin V /\ m # Doc /\ h = HolderOf(o, m)
      <4>1. CASE m = n
        BY <1>4, <3>3, <4>1
      <4>2. CASE m # n
        BY <1>5, <1>7, <3>2, <4>2
      <4> QED
        BY <4>1, <4>2
    <3> QED
      BY <3>1, <3>4, <3>5
  <2> QED
    BY <2>1, <2>2
<1>11. OneTop(o, V)
  <2>1. \A m \in Nodes(o) \ V : m \in N \ U
    BY <1>5
  <2> QED
    BY <1>7, <2>1 DEF OneTop, Tree, N
<1>12. Doc \in Nodes(o) /\ ParentOf(o, Doc) = Null /\ ~IsElement(o, Doc) /\ V \subseteq Nodes(o) \ {Doc}
  BY <1>2, <1>4, <1>5, <1>7 DEF Tree, N
<1>13. Tree(o, V)
  BY <1>5, <1>8, <1>9, <1>10, <1>11, <1>12 DEF Tree
<1> QED
  BY <1>3, <1>4, <1>5, <1>6, <1>13 DEF o, n, N

(* A node that was in no list of children is put at the end of one.         *)
LEMMA AttachTree ==
  ASSUME NEW d, NEW U, Tree(d, U), NEW n \in U,
         ParentOf(d, n) = Null => TypeOf(d, n) = "PI",
         TopElement(d, n) => \A m \in Nodes(d) \ U : ~TopElement(d, m)
  PROVE  LET o == AddKid(d, HolderOf(d, n), n)
         IN  /\ Tree(o, U \ {n}) /\ o.decl = d.decl /\ o.type = d.type
             /\ Nodes(o) = Nodes(d) /\ Shared(d, o, Nodes(d))
<1> DEFINE h == HolderOf(d, n)
           o == AddKid(d, h, n)
           N == Nodes(d)
           V == U \ {n}
           s == Append(Kids(d, h), n)
<1>1. /\ Doc \in N /\ U \subseteq N \ {Doc} /\ \A m \in N : HolderOf(d, m) \in N
  BY TreeParts
<1>2. n \in N /\ n # Doc /\ h \in N /\ IsDom(d)
  BY <1>1 DEF Tree
<1>3. o = WithKids(d, h, s)
  BY DEF AddKid, WithKids, Kids
<1>4. /\ Listed(Kids(d, h), N)
      /\ \A m \in N : In(Kids(d, h), m) <=> m \notin U /\ m # Doc /\ h = HolderOf(d, m)
  BY <1>2 DEF Tree, KidsRight
<1>5. ~In(Kids(d, h), n)
  BY <1>2, <1>4
<1>6. Listed(s, N) /\ \A y : In(s, y) <=> y = n \/ In(Kids(d, h), y)
  BY <1>2, <1>4, <1>5, ListedMore
<1> HIDE DEF h, s
<1>7. /\ IsDom(o) /\ o.decl = d.decl /\ o.type = d.type /\ Nodes(o) = N
      /\ \A m \in N : /\ EventOf(o, m) = EventOf(d, m) /\ ParentOf(o, m) = ParentOf(d, m)
                      /\ m # h => Kids(o, m) = Kids(d, m)
      /\ Kids(o, h) = s
  BY <1>2, <1>3, WithKidsIs
<1> HIDE DEF o
<1>8. Shared(d, o, N)
  BY <1>7 DEF Shared
<1> HIDE DEF N
<1>9. \A m \in N : /\ TypeOf(o, m) = TypeOf(d, m) /\ (IsElement(o, m) <=> IsElement(d, m))
                   /\ HolderOf(o, m) = HolderOf(d, m) /\ (TopElement(o, m) <=> TopElement(d, m))
                   /\ ParentOf(o, m) = ParentOf(d, m)
  BY <1>8, SharedIs
<1>10. ParentsRight(o, V)
  <2> SUFFICES ASSUME NEW m \in N \ {Doc}
               PROVE  /\ ParentOf(o, m) \in N \cup {Null}
                      /\ ParentOf(o, m) < m
                      /\ ParentOf(o, m) \in {Null, Doc} \/ IsElement(o, ParentOf(o, m))
                      /\ m \notin V /\ ParentOf(o, m) = Null => TypeOf(o, m) = "PI"
    BY <1>7 DEF ParentsRight
  <2>1. /\ ParentOf(d, m) \in N \cup {Null} /\ ParentOf(d, m) < m
        /\ ParentOf(d, m) \in {Null, Doc} \/ IsElement(d, ParentOf(d, m))
        /\ m \notin U /\ ParentOf(d, m) = Null => TypeOf(d, m) = "PI"
    BY DEF Tree, ParentsRight, N
  <2>2. ParentOf(d, m) \in {Null, Doc} \/ IsElement(o, ParentOf(d, m))
    BY <1>9, <2>1
  <2> QED
    BY <1>9, <2>1, <2>2
<1>11. KidsRight(o, V)
  <2> SUFFICES ASSUME NEW g \in N
               PROVE  /\ Listed(Kids(o, g), N)
                      /\ \A m \in N : In(Kids(o, g), m) <=> m \notin V /\ m # Doc /\ g = HolderOf(o, m)
    BY <1>7 DEF KidsRight
  <2>1. CASE g = h
    <3>1. ASSUME NEW m \in N
          PROVE  In(Kids(o, g), m) <=> m \notin V /\ m # Doc /\ g = HolderOf(o, m)
      <4>1. HolderOf(o, n) = h
        BY <1>2, <1>9 DEF h
      <4> QED
        BY <1>2, <1>4, <1>6, <1>7, <1>9, <2>1, <4>1
    <3> QED
      BY <1>6, <1>7, <2>1, <3>1
  <2>2. CASE g # h
    <3>1. /\ Listed(Kids(d, g), N)
          /\ \A m \in N : In(Kids(d, g), m) <=> m \notin U /\ m # Doc /\ g = HolderOf(d, m)
      BY DEF Tree, KidsRight, N
    <3>2. Kids(o, g) = Kids(d, g)
      BY <1>7, <2>2
    <3>3. HolderOf(d, n) # g
      BY <2>2 DEF h
    <3> QED
      BY <1>9, <3>1, <3>2, <3>3
  <2> QED
    BY <2>1, <2>2
<1>12. OneTop(o, V)
  <2>1. \A m \in N \ V : m = n \/ m \in N \ U
    OBVIOUS
  <2>2. \A x, y \in N \ U : TopElement(d, x) /\ TopElement(d, y) => x = y
    BY DEF Tree, OneTop, N
  <2>3. TopElement(d, n) => \A m \in N \ U : ~TopElement(d, m)
    BY DEF N
  <2> QED
    BY <1>7, <1>9, <2>1, <2>2, <2>3 DEF OneTop
<1>13. \E j \in Nat : Nodes(o) \subseteq 0..j
  BY <1>7 DEF Tree, N
<1>14. Doc \in Nodes(o) /\ ParentOf(o, Doc) = Null /\ ~IsElement(o, Doc) /\ V \subseteq Nodes(o) \ {Doc}
  BY <1>1, <1>7, <1>9 DEF Tree
<1>15. Tree(o, V)
  BY <1>7, <1>10, <1>11, <1>12, <1>13, <1>14 DEF Tree
<1> QED
  BY <1>7, <1>8, <1>15 DEF o, h, N

(* take of a child of the document.                                         *)
LEMMA DetachTree ==
  ASSUME NEW d, NEW U, Tree(d, U), NEW i \in 1..Len(Kids(d, Doc)), ParentOf(d, Kids(d, Doc)[i]) = Doc
  PROVE  LET o == TakeKid(d, Doc, i)
             r == Kids(d, Doc)[i]
         IN  /\ r \in Nodes(d) \ {Doc} /\ r \notin U
             /\ Tree(o, U \cup {r}) /\ o.decl = d.decl /\ o.type = d.type
             /\ Nodes(o) = Nodes(d) /\ Shared(d, o, Nodes(d))
<1> DEFINE r == Kids(d, Doc)[i]
           o == TakeKid(d, Doc, i)
           N == Nodes(d)
           V == U \cup {r}
           s == RemoveAt(Kids(d, Doc), i)
<1>1. /\ Doc \in N /\ U \subseteq N \ {Doc} /\ \A m \in N : HolderOf(d, m) \in N
  BY TreeParts
<1>2. IsDom(d)
  BY DEF Tree
<1>3. o = WithKids(d, Doc, s)
  BY DEF TakeKid, WithKids, Kids
<1>4. /\ Listed(Kids(d, Doc), N)
      /\ \A m \in N : In(Kids(d, Doc), m) <=> m \notin U /\ m # Doc /\ Doc = HolderOf(d, m)
  BY <1>1 DEF Tree, KidsRight
<1>5. r \in N /\ r # Doc /\ r \notin U
  <2>1. r \in N /\ In(Kids(d, Doc), r)
    BY <1>4 DEF Listed, In
  <2> QED
    BY <1>4, <2>1
<1>6. Listed(s, N) /\ \A y : In(s, y) <=> y # r /\ In(Kids(d, Doc), y)
  BY <1>4, ListedLess
<1> HIDE DEF s
<1>7. /\ IsDom(o) /\ o.decl = d.decl /\ o.type = d.type /\ Nodes(o) = N
      /\ \A m \in N : /\ EventOf(o, m) = EventOf(d, m) /\ ParentOf(o, m) = ParentOf(d, m)
                      /\ m # Doc => Kids(o, m) = Kids(d, m)
      /\ Kids(o, Doc) = s
  BY <1>1, <1>2, <1>3, WithKidsIs
<1> HIDE DEF o
<1>8. Shared(d, o, N)
  BY <1>7 DEF Shared
<1>p. ParentOf(d, r) = Doc
  OBVIOUS
<1> HIDE DEF N, r
<1>9. \A m \in N : /\ TypeOf(o, m) = TypeOf(d, m) /\ (IsElement(o, m) <=> IsElement(d, m))
                   /\ HolderOf(o, m) = HolderOf(d, m) /\ (TopElement(o, m) <=> TopElement(d, m))
                   /\ ParentOf(o, m) = ParentOf(d, m)
  BY <1>8, SharedIs
<1>10. ParentsRight(o, V)
  <2> SUFFICES ASSUME NEW m \in N \ {Doc}
               PROVE  /\ ParentOf(o, m) \in N \cup {Null}
                      /\ ParentOf(o, m) < m
                      /\ ParentOf(o, m) \in {Null, Doc} \/ IsElement(o, ParentOf(o, m))
                      /\ m \notin V /\ ParentOf(o, m) = Null => TypeOf(o, m) = "PI"
    BY <1>7 DEF ParentsRight
  <2>1. /\ ParentOf(d, m) \in N \cup {Null} /\ ParentOf(d, m) < m
        /\ ParentOf(d, m) \in {Null, Doc} \/ IsElement(d, ParentOf(d, m))
        /\ m \notin U /\ ParentOf(d, m) = Null => TypeOf(d, m) = "PI"
    BY DEF Tree, ParentsRight, N
  <2>2. ParentOf(d, m) \in {Null, Doc} \/ IsElement(o, ParentOf(d, m))
    BY <1>9, <2>1
  <2> QED
    BY <1>9, <2>1, <2>2
<1>11. KidsRight(o, V)
  <2> SUFFICES ASSUME NEW g \in N
               PROVE  /\ Listed(Kids(o, g), N)
                      /\ \A m \in N : In(Kids(o, g), m) <=> m \notin V /\ m # Doc /\ g = HolderOf(o, m)
    BY <1>7 DEF KidsRight
  <2>1. CASE g = Doc
    BY <1>4, <1>6, <1>7, <1>9, <2>1
  <2>2. CASE g # Doc
    <3>1. /\ Listed(Kids(d, g), N)
          /\ \A m \in N : In(Kids(d, g), m) <=> m \notin U /\ m # Doc /\ g = HolderOf(d, m)
      BY DEF Tree, KidsRight, N
    <3>2. Kids(o, g) = Kids(d, g)
      BY <1>7, <2>2
    <3>3. HolderOf(d, r) = Doc
      BY <1>p DEF HolderOf
    <3> QED
      BY <1>9, <2>2, <3>1, <3>2, <3>3
  <2> QED
    BY <2>1, <2>2
<1>12. OneTop(o, V)
  <2>1. \A x, y \in N \ U : TopElement(d, x) /\ TopElement(d, y) => x = y
    BY DEF Tree, OneTop, N
  <2> QED
    BY <1>7, <1>9, <2>1 DEF OneTop
<1>13. \E j \in Nat : Nodes(o) \subseteq 0..j
  BY <1>7 DEF Tree, N
<1>14. Doc \in Nodes(o) /\ ParentOf(o, Doc) = Null /\ ~IsElement(o, Doc) /\ V \subseteq Nodes(o) \ {Doc}
  BY <1>1, <1>5, <1>7, <1>9 DEF Tree
<1>15. Tree(o, V)
  BY <1>7, <1>10, <1>11, <1>12, <1>13, <1>14 DEF Tree
<1> QED
  BY <1>5, <1>7, <1>8, <1>15 DEF o, r, N

-----------------------------------------------------------------------------
(* What holds of a node if it holds of its parent holds of all nodes.       *)
LEMMA FromParents ==
  ASSUME NEW d, NEW U, Tree(d, U), NEW S,
         \A n \in Nodes(d) : (ParentOf(d, n) = Null \/ ParentOf(d, n) \in S) => n \in S
  PROVE  \A n \in Nodes(d) : n \in S
<1> DEFINE T == {n \in Nodes(d) : n \notin S}
<1>1. /\ Nodes(d) \subseteq Nat /\ Doc \in Nodes(d) /\ ParentOf(d, Doc) = Null
  BY TreeParts DEF Tree
<1>2. T \in SUBSET Nat
  BY <1>1
<1>3. ASSUME T # {} PROVE FALSE
  <2>1. Min(T) \in T /\ \A y \in T : Min(T) <= y
    <3> HIDE DEF T
    <3> QED
      BY <1>2, <1>3, MinNat
  <2>2. PICK m \in T : \A y \in T : m <= y
    BY <2>1
  <2>3. m \in Nodes(d) /\ m \notin S /\ m \in Nat
    BY <1>1, <2>2
  <2>4. m # Doc
    BY <1>1, <2>3
  <2> DEFINE u == ParentOf(d, m)
  <2>5. u \in Nodes(d) \cup {Null} /\ u < m
    BY <2>3, <2>4 DEF Tree, ParentsRight
  <2> HIDE DEF u
  <2>6. u \in Nodes(d) /\ u \notin S
    BY <2>3, <2>5 DEF u
  <2>7. u \in T /\ u \in Nat
    BY <1>1, <2>6
  <2> HIDE DEF T
  <2>8. m <= u
    BY <2>2, <2>7
  <2> QED
    BY <2>3, <2>5, <2>7, <2>8
<1> QED
  BY <1>3

(* The ways up: the set of a node and its ancestors, the names of the       *)
(* elements from the root down to it, and where the iterator goes on.       *)
Ancestry == [kind |-> "ancestry", start |-> Null]
Naming == [kind |-> "naming", start |-> Null]
Onwards(start) == [kind |-> "onwards", start |-> start]
Top(way) == IF way = Ancestry THEN {} ELSE <<>>
Adds(way, d, m, v) ==
  IF way = Ancestry THEN {m} \cup v
  ELSE IF way = Naming THEN IF m = Doc THEN <<>> ELSE Append(v, d.node[m].event.name)
  ELSE [n \in Nodes(d) \cup {Null} |->
          IF Sibling(d, n, m) # Null THEN Sibling(d, n, m)
          ELSE IF ParentOf(d, m) = Null THEN Null
          ELSE v[IF m = way.start THEN Null ELSE m]]

Climbed(way, d, S, f) ==
  f = [m \in S |-> IF m = Null THEN Top(way) ELSE Adds(way, d, m, f[ParentOf(d, m)])]

LEMMA ClimbExists ==
  ASSUME NEW d, NEW U, Tree(d, U), NEW way
  PROVE  \E f : Climbed(way, d, Nodes(d) \cup {Null}, f)
<1> DEFINE N == Nodes(d)
           P(m) == ParentOf(d, m)
           Low(j) == {m \in N : m < j} \cup {Null}
<1>1. PICK k \in Nat : N \subseteq 0..k
  BY DEF Tree
<1>2. /\ N \subseteq Nat /\ Null \notin N
      /\ \A m \in N : P(m) \in N \cup {Null} /\ (P(m) \in N => P(m) < m)
  <2>1. N \subseteq Nat /\ Null \notin N
    BY TreeParts
  <2>2. \A m \in N : P(m) \in N \cup {Null} /\ (P(m) \in N => P(m) < m)
    <3> TAKE m \in N
    <3>1. CASE m = Doc
      BY <2>1, <3>1 DEF Tree
    <3>2. CASE m # Doc
      BY <3>2 DEF Tree, ParentsRight
    <3> QED
      BY <3>1, <3>2
  <2> QED
    BY <2>1, <2>2
<1> HIDE DEF P, N
<1> DEFINE Q(S, f) == f = [m \in S |-> IF m = Null THEN Top(way) ELSE Adds(way, d, m, f[P(m)])]
           T == {j \in 0..(k + 1) : \E f : Q(Low(j), f)}
<1>a. \A m \in N : m \in Nat /\ m # Null
  BY <1>2
<1>l. \A j : \A m : m \in Low(j) <=> m = Null \/ (m \in N /\ m < j)
  OBVIOUS
<1>3. 0 \in T
  <2> DEFINE f == [m \in {Null} |-> Top(way)]
  <2>1. Low(0) = {Null}
    <3>1. \A m \in N : ~(m < 0)
      BY <1>a
    <3> HIDE DEF Low
    <3> QED
      BY <1>l, <3>1
  <2>2. Q({Null}, f)
    OBVIOUS
  <2>3. 0 \in 0..(k + 1)
    OBVIOUS
  <2> HIDE DEF f, Low
  <2> QED
    BY <2>1, <2>2, <2>3
<1>4. ASSUME NEW j \in 0..((k + 1) - 1), j \in T PROVE j + 1 \in T
  <2>1. PICK f : Q(Low(j), f)
    BY <1>4
  <2> DEFINE h == [m \in Low(j + 1) |-> IF m \in Low(j) THEN f[m] ELSE Adds(way, d, m, f[P(m)])]
  <2>3. \A m \in Low(j + 1) : m # Null => m \in N /\ P(m) \in Low(j) /\ P(m) \in Low(j + 1)
    <3> TAKE m \in Low(j + 1)
    <3> HAVE m # Null
    <3>1. m \in N /\ m < j + 1 /\ m \in Nat /\ j \in Nat
      BY <1>a, <1>l
    <3>2. P(m) = Null \/ (P(m) \in N /\ P(m) < m /\ P(m) \in Nat)
      BY <1>2, <1>a, <3>1
    <3>3. P(m) = Null \/ (P(m) \in N /\ P(m) < j /\ P(m) < j + 1)
      BY <3>1, <3>2
    <3> HIDE DEF Low
    <3> QED
      BY <1>l, <3>1, <3>3
  <2>4. Null \in Low(j) /\ Low(j) \subseteq Low(j + 1)
    <3>1. \A m \in N : m < j => m < j + 1
      BY <1>a
    <3> HIDE DEF Low
    <3> QED
      BY <1>l, <3>1
  <2> HIDE DEF Low
  <2>5. \A m \in Low(j) : h[m] = f[m]
    BY <2>4
  <2>6. \A m \in Low(j) : f[m] = IF m = Null THEN Top(way) ELSE Adds(way, d, m, f[P(m)])
    BY <2>1
  <2>7. \A m \in Low(j + 1) : m \notin Low(j) => h[m] = Adds(way, d, m, f[P(m)])
    OBVIOUS
  <2>8. h = [m \in Low(j + 1) |-> h[m]]
    OBVIOUS
  <2> HIDE DEF h
  <2>9. ASSUME NEW m \in Low(j + 1)
        PROVE  h[m] = IF m = Null THEN Top(way) ELSE Adds(way, d, m, h[P(m)])
    <3>1. CASE m = Null
      BY <2>4, <2>5, <2>6, <3>1
    <3>2. CASE m # Null
      <4>1. h[P(m)] = f[P(m)]
        BY <2>3, <2>5, <3>2
      <4>2. h[m] = Adds(way, d, m, f[P(m)])
        BY <2>5, <2>6, <2>7, <3>2
      <4> QED
        BY <3>2, <4>1, <4>2
    <3> QED
      BY <3>1, <3>2
  <2>10. Q(Low(j + 1), h)
    BY <2>8, <2>9
  <2>11. j + 1 \in 0..(k + 1)
    OBVIOUS
  <2> QED
    BY <2>10, <2>11
<1>5. k + 1 \in T
  <2> HIDE DEF T
  <2>1. k + 1 \in Nat /\ k + 1 \in 0..(k + 1)
    OBVIOUS
  <2>2. \A i \in 0..(k + 1) : i \in T
    BY <1>3, <1>4, <2>1, UpTo
  <2> QED
    BY <2>1, <2>2
<1>6. PICK f : Q(Low(k + 1), f)
  BY <1>5
<1>7. Low(k + 1) = N \cup {Null}
  <2>1. \A m \in N : m < k + 1
    BY <1>1, <1>a
  <2> HIDE DEF Low
  <2> QED
    BY <1>l, <2>1
<1> HIDE DEF Low
<1>8. Q(N \cup {Null}, f)
  BY <1>6, <1>7
<1> QED
  BY <1>8 DEF Climbed, N, P

LEMMA AboveIs ==
  ASSUME NEW d, NEW U, Tree(d, U)
  PROVE  \A n \in Nodes(d) :
           Above(d, n) = {n} \cup (IF ParentOf(d, n) = Null THEN {} ELSE Above(d, ParentOf(d, n)))
<1> DEFINE N == Nodes(d)
           Q(g) == g = [m \in N |-> {m} \cup (IF d.node[m].parent = Null THEN {} ELSE g[d.node[m].parent])]
           up == CHOOSE g : Q(g)
<1>1. PICK f : Climbed(Ancestry, d, N \cup {Null}, f)
  BY ClimbExists
<1>2. Null \notin N /\ \A m \in N : ParentOf(d, m) \in N \cup {Null}
  <2>1. Null \notin N /\ ParentOf(d, Doc) = Null
    BY TreeParts DEF Tree
  <2>2. \A m \in N \ {Doc} : ParentOf(d, m) \in N \cup {Null}
    BY DEF Tree, ParentsRight
  <2> QED
    BY <2>1, <2>2
<1>3. /\ \A m \in N : f[m] = {m} \cup f[ParentOf(d, m)]
      /\ f[Null] = {}
  BY <1>1, <1>2 DEF Climbed, Top, Adds, Ancestry, Naming
<1> DEFINE g0 == [m \in N |-> f[m]]
<1>4. Q(g0)
  <2>1. \A m \in N : g0[m] = {m} \cup (IF ParentOf(d, m) = Null THEN {} ELSE g0[ParentOf(d, m)])
    BY <1>2, <1>3
  <2> QED
    BY <2>1 DEF ParentOf
<1>5. Q(up)
  <2> HIDE DEF Q, g0
  <2> QED
    BY <1>4
<1>6. \A n : Above(d, n) = up[n]
  BY Zenon DEF Above
<1> HIDE DEF up
<1>7. \A m \in N : up[m] = {m} \cup (IF ParentOf(d, m) = Null THEN {} ELSE up[ParentOf(d, m)])
  BY <1>5 DEF ParentOf
<1> QED
  BY <1>6, <1>7

LEMMA NamesAre ==
  ASSUME NEW d, NEW U, Tree(d, U)
  PROVE  /\ OpenNames(d, Null) = <<>> /\ OpenNames(d, Doc) = <<>>
         /\ \A n \in Nodes(d) \ {Doc} :
              OpenNames(d, n) = Append(OpenNames(d, ParentOf(d, n)), d.node[n].event.name)
<1> DEFINE N == Nodes(d)
           Q(g) == g = [m \in N \cup {Null} |->
                          IF m \in {Null, Doc} THEN <<>> ELSE Append(g[d.node[m].parent], d.node[m].event.name)]
           names == CHOOSE g : Q(g)
<1>1. PICK f : Climbed(Naming, d, N \cup {Null}, f)
  BY ClimbExists
<1>2. Null \notin N /\ Doc \in N
  BY TreeParts
<1>3. Q(f)
  <2> DEFINE F(m) == IF m = Null THEN Top(Naming) ELSE Adds(Naming, d, m, f[ParentOf(d, m)])
             G(m) == IF m \in {Null, Doc} THEN <<>> ELSE Append(f[d.node[m].parent], d.node[m].event.name)
  <2>1. f = [m \in N \cup {Null} |-> F(m)]
    BY <1>1 DEF Climbed
  <2>2. \A m : F(m) = G(m)
    BY Zenon DEF Top, Adds, Ancestry, Naming, ParentOf
  <2> HIDE DEF F, G
  <2>3. f = [m \in N \cup {Null} |-> G(m)]
    BY <2>1, <2>2
  <2> QED
    BY <2>3 DEF G
<1>4. Q(names)
  <2> HIDE DEF Q
  <2> QED
    BY <1>3
<1>5. \A n : OpenNames(d, n) = names[n]
  BY Zenon DEF OpenNames
<1> HIDE DEF names
<1>6. names[Null] = <<>> /\ names[Doc] = <<>>
  BY <1>2, <1>4
<1>7. \A m \in N \ {Doc} : names[m] = Append(names[ParentOf(d, m)], d.node[m].event.name)
  BY <1>2, <1>4 DEF ParentOf
<1> QED
  BY <1>5, <1>6, <1>7

LEMMA AboveKnown ==
  ASSUME NEW d, NEW U, Tree(d, U)
  PROVE  /\ Above(d, Doc) = {Doc}
         /\ \A n \in Nodes(d) : n \in Above(d, n)
         /\ \A n \in Nodes(d) : Above(d, n) \subseteq Nodes(d)
         /\ \A n \in Nodes(d) : \A a \in Above(d, n) : a \in {n, Doc} \/ IsElement(d, a)
         /\ \A n \in Nodes(d) : \A a \in Above(d, n) : a # n => ParentOf(d, n) # Null /\ a \in Above(d, ParentOf(d, n))
         /\ \A n \in Nodes(d) : ParentOf(d, n) # Null => ParentOf(d, n) \in Nodes(d)
                                                         /\ Above(d, ParentOf(d, n)) \subseteq Above(d, n)
<1> DEFINE N == Nodes(d)
           P(n) == ParentOf(d, n)
           A(n) == Above(d, n)
<1>1. \A n \in N : A(n) = {n} \cup (IF P(n) = Null THEN {} ELSE A(P(n)))
  BY AboveIs
<1>2. Doc \in N /\ P(Doc) = Null /\ Null \notin N
  BY TreeParts DEF Tree
<1>3. \A n \in N : P(n) \in N \cup {Null} /\ (P(n) \in {Null, Doc} \/ IsElement(d, P(n)))
  <2>1. \A n \in N \ {Doc} : P(n) \in N \cup {Null} /\ (P(n) \in {Null, Doc} \/ IsElement(d, P(n)))
    BY DEF Tree, ParentsRight
  <2> QED
    BY <1>2, <2>1
<1> DEFINE S == {n \in N : A(n) \subseteq N /\ \A a \in A(n) : a \in {n, Doc} \/ IsElement(d, a)}
<1>4. \A n \in N : (P(n) = Null \/ P(n) \in S) => n \in S
  <2> SUFFICES ASSUME NEW n \in N, P(n) = Null \/ P(n) \in S PROVE n \in S
    OBVIOUS
  <2> HIDE DEF P, A
  <2>1. CASE P(n) = Null
    <3>1. A(n) = {n}
      BY <1>1, <2>1
    <3> QED
      BY <3>1
  <2>2. CASE P(n) # Null
    <3>1. A(n) = {n} \cup A(P(n)) /\ P(n) \in S
      BY <1>1, <2>2
    <3>2. A(P(n)) \subseteq N /\ \A a \in A(P(n)) : a \in {P(n), Doc} \/ IsElement(d, a)
      BY <3>1
    <3>3. P(n) = Doc \/ IsElement(d, P(n))
      BY <1>3, <2>2
    <3> QED
      BY <3>1, <3>2, <3>3
  <2> QED
    BY <2>1, <2>2
<1>5. \A n \in N : n \in S
  <2> HIDE DEF S
  <2> QED
    BY <1>4, FromParents
<1> HIDE DEF P, A
<1>6. A(Doc) = {Doc}
  BY <1>1, <1>2
<1>7. \A n \in N : n \in A(n)
  BY <1>1
<1>8. \A n \in N : \A a \in A(n) : a # n => P(n) # Null /\ a \in A(P(n))
  BY <1>1
<1>9. \A n \in N : P(n) # Null => P(n) \in N /\ A(P(n)) \subseteq A(n)
  BY <1>1, <1>3
<1>10. /\ \A n \in N : A(n) \subseteq N
       /\ \A n \in N : \A a \in A(n) : a \in {n, Doc} \/ IsElement(d, a)
  BY <1>5
<1> HIDE DEF N
<1> QED
  BY <1>6, <1>7, <1>8, <1>9, <1>10 DEF A, P, N

(* A node in no list goes, and what is below it goes with it.               *)
LEMMA DeleteTree ==
  ASSUME NEW d, NEW U, Tree(d, U), NEW r \in U
  PROVE  LET o == Delete(d, r)
         IN  /\ Nodes(o) = {k \in Nodes(d) : r \notin Above(d, k)}
             /\ Tree(o, U \cap Nodes(o)) /\ o.decl = d.decl /\ o.type = d.type
             /\ Shared(d, o, Nodes(o))
             /\ \A n \in Nodes(o) : ParentOf(d, n) \in Nodes(o) \cup {Null}
<1> DEFINE o == Delete(d, r)
           N == Nodes(d)
           M == Nodes(o)
           V == U \cap M
<1>1. /\ IsDom(o) /\ o.decl = d.decl /\ o.type = d.type
      /\ M = {k \in N : r \notin Above(d, k)}
      /\ \A m \in M : /\ EventOf(o, m) = EventOf(d, m)
                      /\ ParentOf(o, m) = ParentOf(d, m) /\ Kids(o, m) = Kids(d, m)
  BY DeleteIs DEF Tree
<1>2. /\ Doc \in N /\ U \subseteq N \ {Doc} /\ \A m \in N : HolderOf(d, m) \in N
  BY TreeParts
<1>3. /\ Above(d, Doc) = {Doc}
      /\ \A n \in N : \A a \in Above(d, n) : a # n => ParentOf(d, n) # Null /\ a \in Above(d, ParentOf(d, n))
      /\ \A n \in N : ParentOf(d, n) # Null => ParentOf(d, n) \in N
                                               /\ Above(d, ParentOf(d, n)) \subseteq Above(d, n)
  BY AboveKnown
<1>4. Shared(d, o, M)
  BY <1>1 DEF Shared
<1> HIDE DEF o, N, M
<1>5. \A m \in M : /\ TypeOf(o, m) = TypeOf(d, m) /\ (IsElement(o, m) <=> IsElement(d, m))
                   /\ HolderOf(o, m) = HolderOf(d, m) /\ (TopElement(o, m) <=> TopElement(d, m))
                   /\ ParentOf(o, m) = ParentOf(d, m)
  BY <1>4, SharedIs
<1>6. M \subseteq N /\ Doc \in M
  BY <1>1, <1>2, <1>3
<1>7. \A n \in M : ParentOf(d, n) \in M \cup {Null}
  BY <1>1, <1>3, <1>6
<1>8. \A n \in N : n # r /\ (ParentOf(d, n) = Null \/ ParentOf(d, n) \in M) => n \in M
  BY <1>1, <1>3
<1>9. ParentsRight(o, V)
  <2> SUFFICES ASSUME NEW m \in M \ {Doc}
               PROVE  /\ ParentOf(o, m) \in M \cup {Null}
                      /\ ParentOf(o, m) < m
                      /\ ParentOf(o, m) \in {Null, Doc} \/ IsElement(o, ParentOf(o, m))
                      /\ m \notin V /\ ParentOf(o, m) = Null => TypeOf(o, m) = "PI"
    BY DEF ParentsRight, M
  <2>1. /\ ParentOf(d, m) \in N \cup {Null} /\ ParentOf(d, m) < m
        /\ ParentOf(d, m) \in {Null, Doc} \/ IsElement(d, ParentOf(d, m))
        /\ m \notin U /\ ParentOf(d, m) = Null => TypeOf(d, m) = "PI"
    BY <1>6 DEF Tree, ParentsRight, N
  <2>2. ParentOf(d, m) \in {Null, Doc} \/ IsElement(o, ParentOf(d, m))
    BY <1>5, <1>7, <2>1
  <2> QED
    BY <1>5, <1>7, <2>1, <2>2
<1>10. KidsRight(o, V)
  <2> SUFFICES ASSUME NEW g \in M
               PROVE  /\ Listed(Kids(o, g), M)
                      /\ \A m \in M : In(Kids(o, g), m) <=> m \notin V /\ m # Doc /\ g = HolderOf(o, m)
    BY DEF KidsRight, M
  <2>1. /\ Listed(Kids(d, g), N)
        /\ \A m \in N : In(Kids(d, g), m) <=> m \notin U /\ m # Doc /\ g = HolderOf(d, m)
    BY <1>6 DEF Tree, KidsRight, N
  <2>2. Kids(o, g) = Kids(d, g)
    BY <1>1
  <2>3. ASSUME NEW x, In(Kids(d, g), x) PROVE x \in M
    <3>1. x \in N
      BY <2>1, <2>3 DEF Listed, In
    <3>2. x \notin U /\ g = HolderOf(d, x)
      BY <2>1, <2>3, <3>1
    <3>3. ParentOf(d, x) = Null \/ ParentOf(d, x) \in M
      BY <3>2 DEF HolderOf
    <3> QED
      BY <1>8, <3>1, <3>2, <3>3
  <2>4. Listed(Kids(d, g), M)
    BY <2>1, <2>3, ListedIn
  <2> QED
    BY <1>5, <1>6, <2>1, <2>2, <2>4
<1>11. OneTop(o, V)
  <2>1. \A x, y \in N \ U : TopElement(d, x) /\ TopElement(d, y) => x = y
    BY DEF Tree, OneTop, N
  <2>2. \A x \in M \ V : x \in N \ U
    BY <1>6
  <2> QED
    BY <1>5, <2>1, <2>2 DEF OneTop, M
<1>12. \E j \in Nat : M \subseteq 0..j
  BY <1>6 DEF Tree, N
<1>13. Doc \in M /\ ParentOf(o, Doc) = Null /\ ~IsElement(o, Doc) /\ V \subseteq M \ {Doc}
  BY <1>2, <1>5, <1>6 DEF Tree
<1>14. Tree(o, V)
  BY <1>1, <1>9, <1>10, <1>11, <1>12, <1>13 DEF Tree, M
<1> QED
  BY <1>1, <1>4, <1>7, <1>14 DEF o, M, N

(* Names and ancestors of nodes that are in two documents.                  *)
LEMMA SameNames ==
  ASSUME NEW d, NEW U, Tree(d, U), NEW o, NEW V, Tree(o, V), NEW M, M \subseteq Nodes(d), M \subseteq Nodes(o),
         Shared(d, o, M), \A n \in M : ParentOf(d, n) \in M \cup {Null}
  PROVE  \A n \in M \cup {Null} : OpenNames(o, n) = OpenNames(d, n)
<1> DEFINE S == {n \in Nodes(d) : n \in M => OpenNames(o, n) = OpenNames(d, n)}
<1>1. /\ OpenNames(d, Null) = <<>> /\ OpenNames(d, Doc) = <<>>
      /\ \A n \in Nodes(d) \ {Doc} : OpenNames(d, n) = Append(OpenNames(d, ParentOf(d, n)), d.node[n].event.name)
  BY NamesAre
<1>2. /\ OpenNames(o, Null) = <<>> /\ OpenNames(o, Doc) = <<>>
      /\ \A n \in Nodes(o) \ {Doc} : OpenNames(o, n) = Append(OpenNames(o, ParentOf(o, n)), o.node[n].event.name)
  BY NamesAre
<1>3. \A n \in M : d.node[n].event = o.node[n].event /\ ParentOf(d, n) = ParentOf(o, n)
  BY DEF Shared, EventOf
<1>4. ASSUME NEW n \in Nodes(d), ParentOf(d, n) = Null \/ ParentOf(d, n) \in S PROVE n \in S
  <2> SUFFICES ASSUME n \in M PROVE OpenNames(o, n) = OpenNames(d, n)
    OBVIOUS
  <2>1. CASE n = Doc
    BY <1>1, <1>2, <2>1
  <2>2. CASE n # Doc
    <3>1. OpenNames(d, n) = Append(OpenNames(d, ParentOf(d, n)), d.node[n].event.name)
      BY <1>1, <2>2
    <3>2. OpenNames(o, n) = Append(OpenNames(o, ParentOf(d, n)), d.node[n].event.name)
      BY <1>2, <1>3, <2>2
    <3>3. OpenNames(o, ParentOf(d, n)) = OpenNames(d, ParentOf(d, n))
      BY <1>1, <1>2, <1>4
    <3> QED
      BY <3>1, <3>2, <3>3
  <2> QED
    BY <2>1, <2>2
<1>5. \A n \in Nodes(d) : n \in S
  <2> HIDE DEF S
  <2> QED
    BY <1>4, FromParents
<1> QED
  BY <1>1, <1>2, <1>5

LEMMA NamesListed ==
  ASSUME NEW d, NEW U, Tree(d, U)
  PROVE  /\ \A n \in Nodes(d) \cup {Null} : IsSeq(OpenNames(d, n))
         /\ \A n \in Nodes(d) \ {Doc} : OpenNames(d, n) # <<>>
<1> DEFINE S == {n \in Nodes(d) : IsSeq(OpenNames(d, n))}
<1>1. IsSeq(<<>>)
  BY DEF IsSeq
<1>2. \A s : IsSeq(s) => \A e : IsSeq(Append(s, e)) /\ Append(s, e) # <<>>
  <2> TAKE s
  <2> HAVE IsSeq(s)
  <2> TAKE e
  <2>1. IsSeq(Append(s, e))
    BY <1>1, Joined
  <2>2. Append(s, e) # <<>>
    BY IsSeqOf
  <2> QED
    BY <2>1, <2>2
<1>3. /\ OpenNames(d, Null) = <<>> /\ OpenNames(d, Doc) = <<>>
      /\ \A n \in Nodes(d) \ {Doc} : OpenNames(d, n) = Append(OpenNames(d, ParentOf(d, n)), d.node[n].event.name)
  BY NamesAre
<1>4. ASSUME NEW n \in Nodes(d), ParentOf(d, n) = Null \/ ParentOf(d, n) \in S PROVE n \in S
  BY <1>1, <1>2, <1>3, <1>4
<1>5. \A n \in Nodes(d) : n \in S
  <2> HIDE DEF S
  <2> QED
    BY <1>4, FromParents
<1>6. \A n \in Nodes(d) \cup {Null} : IsSeq(OpenNames(d, n))
  BY <1>1, <1>3, <1>5
<1>7. ASSUME NEW n \in Nodes(d) \ {Doc} PROVE OpenNames(d, n) # <<>>
  <2>1. ParentOf(d, n) \in Nodes(d) \cup {Null}
    BY DEF Tree, ParentsRight
  <2>2. IsSeq(OpenNames(d, ParentOf(d, n)))
    BY <1>6, <2>1
  <2> QED
    BY <1>2, <1>3, <2>2
<1> QED
  BY <1>6, <1>7

(* Another DocDecl or DocType does not change the tree.                     *)
LEMMA SameNodes ==
  ASSUME NEW d, NEW U, Tree(d, U), NEW o, o.node = d.node,
         o = [decl |-> o.decl, type |-> o.type, node |-> o.node]
  PROVE  Tree(o, U) /\ Nodes(o) = Nodes(d) /\ Shared(d, o, Nodes(d))
<1>1. Nodes(o) = Nodes(d)
  BY DEF Nodes
<1>2. /\ \A n : EventOf(o, n) = EventOf(d, n) /\ ParentOf(o, n) = ParentOf(d, n) /\ Kids(o, n) = Kids(d, n)
      /\ \A n : TypeOf(o, n) = TypeOf(d, n)
  BY DEF EventOf, ParentOf, Kids, TypeOf
<1>3. \A n : /\ IsElement(o, n) <=> IsElement(d, n)
             /\ HolderOf(o, n) = HolderOf(d, n) /\ (TopElement(o, n) <=> TopElement(d, n))
  BY <1>2 DEF IsElement, HolderOf, TopElement
<1>4. IsDom(o)
  <2> DEFINE G(m) == [event |-> EventOf(d, m), parent |-> ParentOf(d, m), kids |-> Kids(d, m)]
             H(m) == [event |-> EventOf(o, m), parent |-> ParentOf(o, m), kids |-> Kids(o, m)]
  <2>1. d.node = [m \in Nodes(d) |-> G(m)]
    BY DEF Tree, IsDom
  <2>2. \A m : G(m) = H(m)
    BY <1>2
  <2> HIDE DEF G, H
  <2>3. o.node = [m \in Nodes(o) |-> H(m)]
    BY <1>1, <2>1, <2>2
  <2> QED
    BY <2>3 DEF IsDom, H
<1>5. ParentsRight(o, U)
  BY <1>1, <1>2, <1>3, Zenon DEF ParentsRight, Tree
<1>6. KidsRight(o, U)
  BY <1>1, <1>2, <1>3, Zenon DEF KidsRight, Tree
<1>7. OneTop(o, U)
  BY <1>1, <1>3, Zenon DEF OneTop, Tree
<1>8. /\ \E k \in Nat : Nodes(o) \subseteq 0..k
      /\ Doc \in Nodes(o) /\ ParentOf(o, Doc) = Null /\ ~IsElement(o, Doc)
      /\ U \subseteq Nodes(o) \ {Doc}
  BY <1>1, <1>2, <1>3, Zenon DEF Tree
<1> QED
  BY <1>1, <1>2, <1>4, <1>5, <1>6, <1>7, <1>8, Zenon DEF Tree, Shared

(* A node in no list that is not an element goes alone.                     *)
Dropped(d, r) == IF r = Null THEN d ELSE Delete(d, r)

LEMMA DroppedTree ==
  ASSUME NEW d, NEW U, Tree(d, U), NEW r \in U \cup {Null}, r # Null => ~IsElement(d, r)
  PROVE  LET o == Dropped(d, r)
         IN  /\ Nodes(o) = Nodes(d) \ {r}
             /\ Tree(o, U \ {r}) /\ o.decl = d.decl /\ o.type = d.type
             /\ Shared(d, o, Nodes(o))
             /\ \A n \in Nodes(o) : ParentOf(d, n) \in Nodes(o) \cup {Null}
<1> DEFINE o == Dropped(d, r)
<1>1. Doc \in Nodes(d) /\ U \subseteq Nodes(d) \ {Doc} /\ Null \notin Nodes(d)
  BY TreeParts
<1>2. CASE r = Null
  <2>1. o = d
    BY <1>2 DEF Dropped
  <2>2. Nodes(d) \ {r} = Nodes(d) /\ U \ {r} = U
    BY <1>1, <1>2
  <2>3. \A n \in Nodes(d) : ParentOf(d, n) \in Nodes(d) \cup {Null}
    <3>1. ParentOf(d, Doc) = Null /\ \A n \in Nodes(d) \ {Doc} : ParentOf(d, n) \in Nodes(d) \cup {Null}
      BY DEF Tree, ParentsRight
    <3> QED
      BY <3>1
  <2> HIDE DEF o
  <2> QED
    BY <2>1, <2>2, <2>3 DEF o, Shared
<1>3. CASE r # Null
  <2>1. o = Delete(d, r) /\ r \in U
    BY <1>3 DEF Dropped
  <2> HIDE DEF o
  <2>2. /\ Nodes(o) = {k \in Nodes(d) : r \notin Above(d, k)}
        /\ Tree(o, U \cap Nodes(o)) /\ o.decl = d.decl /\ o.type = d.type
        /\ Shared(d, o, Nodes(o))
        /\ \A n \in Nodes(o) : ParentOf(d, n) \in Nodes(o) \cup {Null}
    BY <2>1, DeleteTree
  <2>3. \A k \in Nodes(d) : r \in Above(d, k) <=> r = k
    <3>1. /\ \A n \in Nodes(d) : n \in Above(d, n)
          /\ \A n \in Nodes(d) : \A a \in Above(d, n) : a \in {n, Doc} \/ IsElement(d, a)
      BY AboveKnown
    <3>2. r # Doc /\ ~IsElement(d, r)
      BY <1>1, <1>3, <2>1
    <3> QED
      BY <3>1, <3>2
  <2>4. Nodes(o) = Nodes(d) \ {r}
    BY <2>2, <2>3
  <2>5. U \cap Nodes(o) = U \ {r}
    BY <1>1, <2>4
  <2> QED
    BY <2>2, <2>4, <2>5 DEF o
<1> QED
  BY <1>2, <1>3

-----------------------------------------------------------------------------
(* The builder between two events.                                          *)
Aside(d) == {d.decl, d.type} \ {Null}

AsideRight(d) ==
  /\ Tree(d, Aside(d))
  /\ d.decl = d.type => d.decl = Null
  /\ \A u \in Aside(d) : ParentOf(d, u) = Doc /\ ~IsElement(d, u)

SoundBuilder(b) ==
  /\ IsBuilder(b)
  /\ AsideRight(b.dom)
  /\ b.current # Null => b.current \in Nodes(b.dom) /\ IsElement(b.dom, b.current)

BuilderNames(b) == OpenNames(b.dom, b.current)

LEMMA NewBuilderSound ==
  SoundBuilder(NewBuilder) /\ BuilderNames(NewBuilder) = <<>> /\ NewBuilder.current = Null
<1> DEFINE d == NewDom
           x == [event |-> [type |-> "XmlDoc"], parent |-> Null, kids |-> <<>>]
<1>1. d = [decl |-> Null, type |-> Null, node |-> [n \in {Doc} |-> x]]
  BY DEF NewDom
<1>2. /\ d.decl = Null /\ d.type = Null /\ d.node = [n \in {Doc} |-> x]
      /\ d = [decl |-> d.decl, type |-> d.type, node |-> d.node]
  BY <1>1
<1>3. Nodes(d) = {Doc} /\ d.node[Doc] = x
  BY <1>2 DEF Nodes
<1> HIDE DEF d
<1>4. EventOf(d, Doc) = [type |-> "XmlDoc"] /\ ParentOf(d, Doc) = Null /\ Kids(d, Doc) = <<>>
  BY <1>3 DEF EventOf, ParentOf, Kids
<1>5. IsDom(d)
  <2> DEFINE G(m) == [event |-> EventOf(d, m), parent |-> ParentOf(d, m), kids |-> Kids(d, m)]
  <2>1. \A m \in {Doc} : G(m) = x
    BY <1>4
  <2> HIDE DEF G
  <2>2. d.node = [m \in {Doc} |-> G(m)]
    BY <1>2, <2>1
  <2> QED
    BY <1>2, <1>3, <2>2 DEF IsDom, G
<1>6. ~IsElement(d, Doc)
  <2>1. TypeOf(d, Doc) = "XmlDoc"
    BY <1>4 DEF TypeOf, EventOf
  <2> QED
    BY <2>1 DEF IsElement
<1>7. ParentsRight(d, {}) /\ OneTop(d, {})
  BY <1>3 DEF ParentsRight, OneTop
<1>8. KidsRight(d, {})
  <2>1. Listed(<<>>, {Doc}) /\ \A y : ~In(<<>>, y)
    BY EmptyListed
  <2> QED
    BY <1>3, <1>4, <2>1 DEF KidsRight
<1>9. \E k \in Nat : Nodes(d) \subseteq 0..k
  <2>1. {Doc} \subseteq 0..0
    BY DEF Doc
  <2> QED
    BY <1>3, <2>1
<1>10. Tree(d, {})
  BY <1>3, <1>4, <1>5, <1>6, <1>7, <1>8, <1>9 DEF Tree
<1>11. Aside(d) = {}
  BY <1>2 DEF Aside
<1>12. AsideRight(d)
  BY <1>2, <1>10, <1>11 DEF AsideRight
<1>13. OpenNames(d, Null) = <<>>
  BY <1>10, NamesAre
<1>14. NewBuilder.dom = d /\ NewBuilder.current = Null /\ IsBuilder(NewBuilder)
  BY DEF NewBuilder, IsBuilder, d
<1> QED
  BY <1>12, <1>13, <1>14 DEF SoundBuilder, BuilderNames

(* A DocDecl or DocType: the one there was goes.                            *)
LEMMA AsideTree ==
  ASSUME NEW b, SoundBuilder(b), NEW e, e.type # "StartTag", NEW old \in {b.dom.decl, b.dom.type}
  PROVE  LET d == b.dom
             n == Fresh(d)
             o == Dropped(AddNode(d, e, Doc), old)
         IN  /\ n \notin Nodes(d) /\ n # Null
             /\ Tree(o, (Aside(d) \cup {n}) \ {old}) /\ o.decl = d.decl /\ o.type = d.type
             /\ \A u \in (Aside(d) \cup {n}) \ {old} : ParentOf(o, u) = Doc /\ ~IsElement(o, u)
             /\ b.current # Null => b.current \in Nodes(o) /\ IsElement(o, b.current)
             /\ OpenNames(o, b.current) = OpenNames(d, b.current)
<1> DEFINE d == b.dom
           n == Fresh(d)
           d1 == AddNode(d, e, Doc)
           o == Dropped(d1, old)
           U == Aside(d)
           c == b.current
<1>1. /\ Tree(d, U) /\ \A u \in U : ParentOf(d, u) = Doc /\ ~IsElement(d, u)
      /\ c # Null => c \in Nodes(d) /\ IsElement(d, c)
      /\ old \in U \cup {Null}
  BY DEF SoundBuilder, AsideRight, Aside
<1> HIDE DEF d, c, U
<1>2. Doc \in Nodes(d) /\ U \subseteq Nodes(d) /\ Null \notin Nodes(d)
  BY <1>1, TreeParts
<1>3. /\ n \notin Nodes(d) /\ n \in Nat /\ n # Doc
      /\ Tree(d1, U \cup {n}) /\ d1.decl = d.decl /\ d1.type = d.type
      /\ Nodes(d1) = Nodes(d) \cup {n}
      /\ EventOf(d1, n) = e /\ ParentOf(d1, n) = Doc
      /\ Shared(d, d1, Nodes(d))
  BY <1>1, <1>2, AddNodeTree
<1> HIDE DEF n, d1
<1>4. n # Null /\ ~IsElement(d1, n)
  <2>1. TypeOf(d1, n) = e.type
    BY <1>3 DEF TypeOf, EventOf
  <2> QED
    BY <1>3, <2>1 DEF IsElement, Null
<1>5. /\ \A m \in Nodes(d) : (IsElement(d1, m) <=> IsElement(d, m)) /\ ParentOf(d1, m) = ParentOf(d, m)
  BY <1>3, SharedIs
<1>6. old \in (U \cup {n}) \cup {Null} /\ (old # Null => ~IsElement(d1, old))
  BY <1>1, <1>2, <1>5
<1>7. /\ Nodes(o) = Nodes(d1) \ {old}
      /\ Tree(o, (U \cup {n}) \ {old}) /\ o.decl = d1.decl /\ o.type = d1.type
      /\ Shared(d1, o, Nodes(o))
      /\ \A m \in Nodes(o) : ParentOf(d1, m) \in Nodes(o) \cup {Null}
  BY <1>3, <1>6, DroppedTree
<1> HIDE DEF o
<1>8. \A m \in Nodes(o) : (IsElement(o, m) <=> IsElement(d1, m)) /\ ParentOf(o, m) = ParentOf(d1, m)
  BY <1>7, SharedIs
<1>9. ASSUME NEW u \in (U \cup {n}) \ {old} PROVE ParentOf(o, u) = Doc /\ ~IsElement(o, u)
  <2>1. u \in Nodes(o)
    BY <1>2, <1>3, <1>7
  <2> QED
    BY <1>1, <1>2, <1>3, <1>4, <1>5, <1>8, <2>1
<1>10. ASSUME c # Null PROVE c \in Nodes(o) /\ IsElement(o, c)
  <2>1. c \in Nodes(d) /\ IsElement(d, c) /\ IsElement(d1, c)
    BY <1>1, <1>5, <1>10
  <2>2. c # old
    BY <1>6, <1>10, <2>1
  <2> QED
    BY <1>3, <1>7, <1>8, <2>1, <2>2
<1>11. OpenNames(o, c) = OpenNames(d, c)
  <2>1. \A m \in Nodes(d) : ParentOf(d, m) \in Nodes(d) \cup {Null}
    <3>1. ParentOf(d, Doc) = Null /\ \A m \in Nodes(d) \ {Doc} : ParentOf(d, m) \in Nodes(d) \cup {Null}
      BY <1>1 DEF Tree, ParentsRight
    <3> QED
      BY <3>1
  <2>2. \A m \in Nodes(d) \cup {Null} : OpenNames(d1, m) = OpenNames(d, m)
    <3>1. Nodes(d) \subseteq Nodes(d1)
      BY <1>3
    <3> QED
      BY <1>1, <1>3, <2>1, <3>1, SameNames
  <2>3. \A m \in Nodes(o) \cup {Null} : OpenNames(o, m) = OpenNames(d1, m)
    <3>1. Nodes(o) \subseteq Nodes(d1)
      BY <1>7
    <3> QED
      BY <1>3, <1>7, <3>1, SameNames
  <2>4. c \in Nodes(d) \cup {Null} /\ c \in Nodes(o) \cup {Null}
    BY <1>1, <1>10
  <2> QED
    BY <2>2, <2>3, <2>4
<1> QED
  BY <1>3, <1>4, <1>7, <1>9, <1>10, <1>11 DEF d, n, o, d1, U, c

LEMMA BuildDocDecl ==
  ASSUME NEW b, SoundBuilder(b), NEW e, e.type = "DocDecl"
  PROVE  SoundBuilder(Build(b, e)) /\ BuilderNames(Build(b, e)) = BuilderNames(b)
<1> DEFINE d == b.dom
           n == Fresh(d)
           d1 == AddNode(d, e, Doc)
           o == Dropped(d1, d.decl)
           U == (Aside(d) \cup {n}) \ {d.decl}
           q == [o EXCEPT !.decl = n]
           c == b.current
<1>1. /\ n \notin Nodes(d) /\ n # Null
      /\ Tree(o, U) /\ o.decl = d.decl /\ o.type = d.type
      /\ \A u \in U : ParentOf(o, u) = Doc /\ ~IsElement(o, u)
      /\ c # Null => c \in Nodes(o) /\ IsElement(o, c)
      /\ OpenNames(o, c) = OpenNames(d, c)
  BY AsideTree
<1>2. IsBuilder(b) /\ (d.decl = d.type => d.decl = Null) /\ Aside(d) \subseteq Nodes(d)
  <2>1. Tree(d, Aside(d))
    BY DEF SoundBuilder, AsideRight
  <2>2. Aside(d) \subseteq Nodes(d)
    BY <2>1, TreeParts
  <2> QED
    BY <2>2 DEF SoundBuilder, AsideRight
<1>3. d1.decl = d.decl
  <2>1. IsDom(d)
    BY DEF SoundBuilder, AsideRight, Tree
  <2> QED
    BY <2>1 DEF AddNode, IsDom
<1>4. SetDecl(d1, n) = q
  BY <1>3 DEF SetDecl, Dropped
<1>5. Build(b, e) = [b EXCEPT !.dom = q]
  BY <1>4, Zenon DEF Build
<1> HIDE DEF o, n, d1
<1>6. /\ q.decl = n /\ q.type = d.type /\ q.node = o.node
      /\ q = [decl |-> q.decl, type |-> q.type, node |-> q.node]
  <2>1. o = [decl |-> o.decl, type |-> o.type, node |-> o.node]
    BY <1>1 DEF Tree, IsDom
  <2> QED
    BY <1>1, <2>1
<1> HIDE DEF q, d
<1>7. Aside(q) = U
  BY <1>1, <1>2, <1>6 DEF Aside
<1>8. Tree(q, U) /\ Nodes(q) = Nodes(o) /\ Shared(o, q, Nodes(o))
  BY <1>1, <1>6, SameNodes
<1>9. \A m \in Nodes(o) : (IsElement(q, m) <=> IsElement(o, m)) /\ ParentOf(q, m) = ParentOf(o, m)
  BY <1>8, SharedIs
<1>10. \A u \in U : u \in Nodes(o)
  BY <1>1, TreeParts
<1>11. n # d.type
  BY <1>1, <1>2 DEF Aside
<1>12. AsideRight(q)
  BY <1>1, <1>6, <1>7, <1>8, <1>9, <1>10, <1>11 DEF AsideRight
<1>13. OpenNames(q, c) = OpenNames(o, c)
  BY <1>6, <1>8 DEF OpenNames, Nodes
<1>14. /\ [b EXCEPT !.dom = q].dom = q /\ [b EXCEPT !.dom = q].current = c
       /\ IsBuilder([b EXCEPT !.dom = q])
  BY <1>2 DEF IsBuilder
<1> HIDE DEF c
<1>15. SoundBuilder([b EXCEPT !.dom = q])
  BY <1>1, <1>8, <1>9, <1>12, <1>14 DEF SoundBuilder
<1>16. BuilderNames([b EXCEPT !.dom = q]) = OpenNames(d, c)
  BY <1>1, <1>13, <1>14 DEF BuilderNames
<1> QED
  BY <1>5, <1>15, <1>16 DEF BuilderNames, d, c

LEMMA BuildDocType ==
  ASSUME NEW b, SoundBuilder(b), NEW e, e.type = "DocType"
  PROVE  SoundBuilder(Build(b, e)) /\ BuilderNames(Build(b, e)) = BuilderNames(b)
<1> DEFINE d == b.dom
           n == Fresh(d)
           d1 == AddNode(d, e, Doc)
           o == Dropped(d1, d.type)
           U == (Aside(d) \cup {n}) \ {d.type}
           q == [o EXCEPT !.type = n]
           c == b.current
<1>1. /\ n \notin Nodes(d) /\ n # Null
      /\ Tree(o, U) /\ o.decl = d.decl /\ o.type = d.type
      /\ \A u \in U : ParentOf(o, u) = Doc /\ ~IsElement(o, u)
      /\ c # Null => c \in Nodes(o) /\ IsElement(o, c)
      /\ OpenNames(o, c) = OpenNames(d, c)
  BY AsideTree
<1>2. IsBuilder(b) /\ (d.decl = d.type => d.decl = Null) /\ Aside(d) \subseteq Nodes(d)
  <2>1. Tree(d, Aside(d))
    BY DEF SoundBuilder, AsideRight
  <2>2. Aside(d) \subseteq Nodes(d)
    BY <2>1, TreeParts
  <2> QED
    BY <2>2 DEF SoundBuilder, AsideRight
<1>3. d1.type = d.type
  <2>1. IsDom(d)
    BY DEF SoundBuilder, AsideRight, Tree
  <2> QED
    BY <2>1 DEF AddNode, IsDom
<1>4. SetType(d1, n) = q
  BY <1>3 DEF SetType, Dropped
<1>5. Build(b, e) = [b EXCEPT !.dom = q]
  BY <1>4, Zenon DEF Build
<1> HIDE DEF o, n, d1
<1>6. /\ q.decl = d.decl /\ q.type = n /\ q.node = o.node
      /\ q = [decl |-> q.decl, type |-> q.type, node |-> q.node]
  <2>1. o = [decl |-> o.decl, type |-> o.type, node |-> o.node]
    BY <1>1 DEF Tree, IsDom
  <2> QED
    BY <1>1, <2>1
<1> HIDE DEF q, d
<1>7. Aside(q) = U
  BY <1>1, <1>2, <1>6 DEF Aside
<1>8. Tree(q, U) /\ Nodes(q) = Nodes(o) /\ Shared(o, q, Nodes(o))
  BY <1>1, <1>6, SameNodes
<1>9. \A m \in Nodes(o) : (IsElement(q, m) <=> IsElement(o, m)) /\ ParentOf(q, m) = ParentOf(o, m)
  BY <1>8, SharedIs
<1>10. \A u \in U : u \in Nodes(o)
  BY <1>1, TreeParts
<1>11. n # d.decl
  BY <1>1, <1>2 DEF Aside
<1>12. AsideRight(q)
  BY <1>1, <1>6, <1>7, <1>8, <1>9, <1>10, <1>11 DEF AsideRight
<1>13. OpenNames(q, c) = OpenNames(o, c)
  BY <1>6, <1>8 DEF OpenNames, Nodes
<1>14. /\ [b EXCEPT !.dom = q].dom = q /\ [b EXCEPT !.dom = q].current = c
       /\ IsBuilder([b EXCEPT !.dom = q])
  BY <1>2 DEF IsBuilder
<1> HIDE DEF c
<1>15. SoundBuilder([b EXCEPT !.dom = q])
  BY <1>1, <1>8, <1>9, <1>12, <1>14 DEF SoundBuilder
<1>16. BuilderNames([b EXCEPT !.dom = q]) = OpenNames(d, c)
  BY <1>1, <1>13, <1>14 DEF BuilderNames
<1> QED
  BY <1>5, <1>15, <1>16 DEF BuilderNames, d, c

(* A new node at the end of a list of children.                             *)
Under(parent) == IF parent = Null THEN Doc ELSE parent
Grown(d, e, parent) == AddKid(AddNode(d, e, parent), Under(parent), Fresh(d))

LEMMA GrownTree ==
  ASSUME NEW d, AsideRight(d), NEW e, NEW parent \in Nodes(d) \cup {Null},
         parent \in {Null, Doc} \/ IsElement(d, parent),
         parent = Null => e.type = "PI",
         parent = Doc /\ e.type = "StartTag" => \A m \in Nodes(d) \ Aside(d) : ~TopElement(d, m)
  PROVE  LET n == Fresh(d)
             o == Grown(d, e, parent)
         IN  /\ AsideRight(o) /\ n \notin Nodes(d) /\ n # Doc /\ n # Null
             /\ Nodes(o) = Nodes(d) \cup {n} /\ Shared(d, o, Nodes(d))
             /\ EventOf(o, n) = e /\ ParentOf(o, n) = parent /\ TypeOf(o, n) = e.type
             /\ \A m \in Nodes(d) : IsElement(o, m) <=> IsElement(d, m)
             /\ \A m \in Nodes(d) \cup {Null} : OpenNames(o, m) = OpenNames(d, m)
             /\ OpenNames(o, n) = Append(OpenNames(d, parent), e.name)
<1> DEFINE n == Fresh(d)
           d1 == AddNode(d, e, parent)
           h == Under(parent)
           o == Grown(d, e, parent)
           U == Aside(d)
           N == Nodes(d)
<1>1. /\ Tree(d, U) /\ (d.decl = d.type => d.decl = Null)
      /\ \A u \in U : ParentOf(d, u) = Doc /\ ~IsElement(d, u)
  BY DEF AsideRight
<1>2. Doc \in N /\ U \subseteq N /\ Null \notin N /\ N \subseteq Nat
  BY <1>1, TreeParts
<1>3. /\ n \notin N /\ n \in Nat /\ n # Doc
      /\ Tree(d1, U \cup {n}) /\ d1.decl = d.decl /\ d1.type = d.type
      /\ Nodes(d1) = N \cup {n}
      /\ EventOf(d1, n) = e /\ ParentOf(d1, n) = parent
      /\ Shared(d, d1, N)
  BY <1>1, AddNodeTree
<1>4. o = AddKid(d1, h, n)
  BY DEF Grown
<1> HIDE DEF n, d1, o, U, h
<1>5. HolderOf(d1, n) = h /\ TypeOf(d1, n) = e.type
  BY <1>3 DEF HolderOf, TypeOf, EventOf, h, Under
<1>6. \A m \in N : (TopElement(d1, m) <=> TopElement(d, m)) /\ (IsElement(d1, m) <=> IsElement(d, m))
                   /\ ParentOf(d1, m) = ParentOf(d, m)
  BY <1>3, SharedIs
<1>7. TopElement(d1, n) => \A m \in Nodes(d1) \ (U \cup {n}) : ~TopElement(d1, m)
  <2> HAVE TopElement(d1, n)
  <2>1. parent = Doc /\ e.type = "StartTag"
    BY <1>3, <1>5 DEF TopElement, IsElement
  <2>2. \A m \in N \ U : ~TopElement(d, m)
    BY <2>1 DEF U
  <2> QED
    BY <1>3, <1>6, <2>2
<1>8. ParentOf(d1, n) = Null => TypeOf(d1, n) = "PI"
  BY <1>3, <1>5
<1>9. /\ Tree(o, (U \cup {n}) \ {n}) /\ o.decl = d.decl /\ o.type = d.type
      /\ Nodes(o) = N \cup {n} /\ Shared(d1, o, Nodes(d1))
  <2>1. n \in U \cup {n}
    OBVIOUS
  <2>2. LET x == AddKid(d1, HolderOf(d1, n), n)
        IN  /\ Tree(x, (U \cup {n}) \ {n}) /\ x.decl = d1.decl /\ x.type = d1.type
            /\ Nodes(x) = Nodes(d1) /\ Shared(d1, x, Nodes(d1))
    BY <1>3, <1>7, <1>8, <2>1, AttachTree
  <2> QED
    BY <1>3, <1>4, <1>5, <2>2
<1>10. (U \cup {n}) \ {n} = U /\ Aside(o) = U
  BY <1>2, <1>3, <1>9 DEF Aside, U
<1>11. \A m \in N \cup {n} : (IsElement(o, m) <=> IsElement(d1, m)) /\ ParentOf(o, m) = ParentOf(d1, m)
                              /\ TypeOf(o, m) = TypeOf(d1, m) /\ EventOf(o, m) = EventOf(d1, m)
  <2>1. \A m \in Nodes(d1) : (IsElement(o, m) <=> IsElement(d1, m)) /\ ParentOf(o, m) = ParentOf(d1, m)
                              /\ TypeOf(o, m) = TypeOf(d1, m)
    BY <1>9, SharedIs
  <2>2. \A m \in Nodes(d1) : EventOf(o, m) = EventOf(d1, m)
    BY <1>9 DEF Shared
  <2> QED
    BY <1>3, <2>1, <2>2
<1>12. AsideRight(o)
  BY <1>1, <1>2, <1>6, <1>9, <1>10, <1>11 DEF AsideRight
<1>13. Shared(d, o, N)
  BY <1>3, <1>11 DEF Shared
<1>14. \A m \in N : ParentOf(d, m) \in N \cup {Null}
  <2>1. ParentOf(d, Doc) = Null /\ \A m \in N \ {Doc} : ParentOf(d, m) \in N \cup {Null}
    BY <1>1 DEF Tree, ParentsRight
  <2> QED
    BY <2>1
<1>15. \A m \in N \cup {Null} : OpenNames(o, m) = OpenNames(d, m)
  <2>1. N \subseteq Nodes(o) /\ N \subseteq Nodes(d)
    BY <1>9
  <2> QED
    BY <1>1, <1>9, <1>13, <1>14, <2>1, SameNames
<1>16. OpenNames(o, n) = Append(OpenNames(d, parent), e.name)
  <2>1. OpenNames(o, n) = Append(OpenNames(o, ParentOf(o, n)), o.node[n].event.name)
    BY <1>3, <1>9, NamesAre
  <2>2. o.node[n].event = e /\ ParentOf(o, n) = parent
    BY <1>3, <1>11 DEF EventOf
  <2> QED
    BY <1>15, <2>1, <2>2
<1>17. n # Null
  BY <1>3 DEF Null
<1>18. EventOf(o, n) = e /\ ParentOf(o, n) = parent /\ TypeOf(o, n) = e.type
  BY <1>3, <1>5, <1>11
<1> QED
  BY <1>3, <1>6, <1>9, <1>11, <1>12, <1>13, <1>15, <1>16, <1>17, <1>18 DEF n, o

LEMMA BuildText ==
  ASSUME NEW b, SoundBuilder(b), NEW e, e.type \in {"CData", "Comment", "PI"}
  PROVE  SoundBuilder(Build(b, e)) /\ BuilderNames(Build(b, e)) = BuilderNames(b)
<1> DEFINE d == b.dom
           c == b.current
           o == Grown(d, e, c)
           q == [b EXCEPT !.dom = o]
<1>1. /\ IsBuilder(b) /\ AsideRight(d)
      /\ c # Null => c \in Nodes(d) /\ IsElement(d, c)
  BY DEF SoundBuilder
<1>2. CASE c = Null /\ e.type # "PI"
  <2>1. Build(b, e) = b
    BY <1>2, Zenon DEF Build
  <2> QED
    BY <2>1
<1>3. CASE c # Null \/ e.type = "PI"
  <2>1. Build(b, e) = q
    <3>1. CASE c # Null /\ e.type = "PI"
      BY <3>1, Zenon DEF Build, Grown, Under
    <3>2. CASE c # Null /\ e.type \in {"CData", "Comment"}
      <4>1. e.type \notin {"DocDecl", "DocType", "StartTag", "EndTag"}
        BY <3>2
      <4> QED
        BY <3>2, <4>1, Zenon DEF Build, Grown, Under
    <3>3. CASE c = Null /\ e.type = "PI"
      BY <3>3, Zenon DEF Build, Grown, Under
    <3> QED
      BY <1>3, <3>1, <3>2, <3>3
  <2> HIDE DEF d, c, o
  <2>3. /\ c \in Nodes(d) \cup {Null} /\ (c \in {Null, Doc} \/ IsElement(d, c))
        /\ (c = Null => e.type = "PI")
    BY <1>1, <1>3
  <2>4. c # Doc
    BY <1>1 DEF AsideRight, Tree, Doc, Null
  <2>5. /\ AsideRight(o) /\ Nodes(o) = Nodes(d) \cup {Fresh(d)}
        /\ \A m \in Nodes(d) : IsElement(o, m) <=> IsElement(d, m)
        /\ \A m \in Nodes(d) \cup {Null} : OpenNames(o, m) = OpenNames(d, m)
    BY <1>1, <2>3, <2>4, GrownTree DEF o
  <2>6. q.dom = o /\ q.current = c /\ IsBuilder(q)
    BY <1>1 DEF IsBuilder, c
  <2> HIDE DEF q
  <2>7. SoundBuilder(q)
    BY <1>1, <2>5, <2>6 DEF SoundBuilder
  <2>8. BuilderNames(q) = OpenNames(d, c)
    BY <2>3, <2>5, <2>6 DEF BuilderNames
  <2> QED
    BY <2>1, <2>7, <2>8 DEF BuilderNames, d, c
<1> QED
  BY <1>2, <1>3

LEMMA BuildChild ==
  ASSUME NEW b, SoundBuilder(b), NEW e, e.type = "StartTag", b.current # Null
  PROVE  /\ SoundBuilder(Build(b, e)) /\ BuilderNames(Build(b, e)) = Append(BuilderNames(b), e.name)
         /\ Build(b, e).current # Null
<1> DEFINE d == b.dom
           c == b.current
           n == Fresh(d)
           o == Grown(d, e, c)
           q == [dom |-> o, current |-> n]
<1>1. /\ IsBuilder(b) /\ AsideRight(d)
      /\ c \in Nodes(d) /\ IsElement(d, c)
  BY DEF SoundBuilder
<1>2. Build(b, e) = q
  BY Zenon DEF Build, Grown, Under
<1> HIDE DEF d, c, o
<1>4. c # Null /\ c # Doc
  BY <1>1 DEF c, AsideRight, Tree
<1>5. /\ AsideRight(o) /\ Nodes(o) = Nodes(d) \cup {Fresh(d)} /\ Fresh(d) # Null
      /\ TypeOf(o, Fresh(d)) = e.type
      /\ OpenNames(o, Fresh(d)) = Append(OpenNames(d, c), e.name)
  BY <1>1, <1>4, GrownTree DEF o
<1> HIDE DEF n
<1>6. q.dom = o /\ q.current = n /\ IsBuilder(q)
  BY DEF IsBuilder
<1> HIDE DEF q
<1>7. SoundBuilder(q)
  BY <1>5, <1>6 DEF SoundBuilder, IsElement, n
<1>8. BuilderNames(q) = Append(OpenNames(d, c), e.name) /\ q.current # Null
  BY <1>5, <1>6 DEF BuilderNames, n
<1> QED
  BY <1>2, <1>7, <1>8 DEF BuilderNames, d, c

LEMMA BuildEndTag ==
  ASSUME NEW b, SoundBuilder(b), NEW e, e.type = "EndTag", b.current # Null
  PROVE  /\ SoundBuilder(Build(b, e))
         /\ BuilderNames(Build(b, e)) = Front(BuilderNames(b)) /\ BuilderNames(b) # <<>>
         /\ Len(BuilderNames(Build(b, e))) = Len(BuilderNames(b)) - 1
<1> DEFINE d == b.dom
           c == b.current
           u == ParentOf(d, c)
           v == IF u \in {Null, Doc} THEN Null ELSE u
           q == [b EXCEPT !.current = v]
           U == Aside(d)
<1>1. /\ IsBuilder(b) /\ AsideRight(d) /\ Tree(d, U)
      /\ c \in Nodes(d) /\ IsElement(d, c)
  BY DEF SoundBuilder, AsideRight
<1>2. Build(b, e) = q
  BY Zenon DEF Build, ParentOf
<1> HIDE DEF d, c, U
<1>3. c # Doc
  BY <1>1 DEF Tree
<1>4. u \in Nodes(d) \cup {Null} /\ (u \in {Null, Doc} \/ IsElement(d, u))
  BY <1>1, <1>3 DEF Tree, ParentsRight
<1>5. /\ OpenNames(d, Null) = <<>> /\ OpenNames(d, Doc) = <<>>
      /\ OpenNames(d, c) = Append(OpenNames(d, u), d.node[c].event.name)
  BY <1>1, <1>3, NamesAre
<1> HIDE DEF u
<1>6. OpenNames(d, v) = OpenNames(d, u)
  BY <1>5
<1>7. IsSeq(OpenNames(d, u))
  BY <1>1, <1>4, NamesListed
<1> DEFINE s == OpenNames(d, u)
           x == d.node[c].event.name
<1>8. Front(Append(s, x)) = s /\ Append(s, x) # <<>> /\ Len(s) = Len(Append(s, x)) - 1
  <2> HIDE DEF s, x
  <2>1. PICK S : s \in Seq(S)
    BY <1>7, IsSeqOf DEF s
  <2> DEFINE T == S \cup {x}
  <2>2. s \in Seq(T) /\ x \in T
    BY <2>1
  <2> HIDE DEF T
  <2> QED
    BY <2>2 DEF Front
<1>9. q.dom = d /\ q.current = v /\ IsBuilder(q)
  BY <1>1 DEF IsBuilder, d
<1>10. v # Null => v \in Nodes(d) /\ IsElement(d, v)
  BY <1>4
<1> HIDE DEF q, v, s, x
<1>11. SoundBuilder(q)
  BY <1>1, <1>9, <1>10 DEF SoundBuilder
<1>12. BuilderNames(q) = s /\ BuilderNames(b) = Append(s, x)
  <2>1. BuilderNames(q) = s
    BY <1>6, <1>9 DEF BuilderNames, s
  <2>2. BuilderNames(b) = Append(s, x)
    BY <1>5 DEF BuilderNames, s, x, c, d
  <2> QED
    BY <2>1, <2>2
<1> QED
  BY <1>2, <1>8, <1>11, <1>12

(* getRootElement finds the element at the top, if there is one.            *)
LEMMA RootIs ==
  ASSUME NEW d, NEW U, Tree(d, U)
  PROVE  /\ Root(d) = Null => \A m \in Nodes(d) \ U : ~TopElement(d, m)
         /\ Root(d) # Null => /\ RootIndex(d) \in 1..Len(Kids(d, Doc)) /\ Root(d) = Kids(d, Doc)[RootIndex(d)]
                              /\ Root(d) \in Nodes(d) \ U /\ TopElement(d, Root(d))
<1> DEFINE s == Kids(d, Doc)
           I == {i \in 1..Len(s) : IsElement(d, s[i])}
<1>1. RootIndex(d) = IF I # {} THEN Min(I) ELSE 0
  BY Zenon DEF RootIndex, SelectInSeq
<1>2. /\ Doc \in Nodes(d) /\ Null \notin Nodes(d)
      /\ Listed(s, Nodes(d))
      /\ \A m \in Nodes(d) : In(s, m) <=> m \notin U /\ m # Doc /\ Doc = HolderOf(d, m)
  <2>1. Doc \in Nodes(d) /\ Null \notin Nodes(d)
    BY TreeParts
  <2> QED
    BY <2>1 DEF Tree, KidsRight
<1>3. s \in Seq(Nodes(d)) /\ Len(s) \in Nat /\ DOMAIN s = 1..Len(s) /\ \A i \in 1..Len(s) : s[i] \in Nodes(d)
  BY <1>2 DEF Listed
<1> HIDE DEF s
<1>4. ASSUME NEW i \in I PROVE s[i] \in Nodes(d) \ U /\ TopElement(d, s[i])
  <2>1. s[i] \in Nodes(d) /\ IsElement(d, s[i]) /\ In(s, s[i])
    BY <1>3 DEF In
  <2>2. s[i] \notin U /\ s[i] # Doc /\ Doc = HolderOf(d, s[i])
    BY <1>2, <2>1
  <2>3. ParentOf(d, s[i]) # Null
    <3>1. TypeOf(d, s[i]) # "PI"
      BY <2>1 DEF IsElement
    <3> QED
      BY <2>1, <2>2, <3>1 DEF Tree, ParentsRight
  <2> QED
    BY <2>1, <2>2, <2>3 DEF HolderOf, TopElement
<1>5. CASE I = {}
  <2>1. Root(d) = Null
    BY <1>1, <1>5 DEF Root
  <2>2. ASSUME NEW m \in Nodes(d) \ U, TopElement(d, m) PROVE FALSE
    <3>1. m # Doc /\ HolderOf(d, m) = Doc /\ IsElement(d, m)
      BY <2>2 DEF TopElement, HolderOf, Tree
    <3>2. In(s, m)
      BY <1>2, <3>1
    <3> QED
      BY <1>3, <1>5, <3>1, <3>2 DEF In
  <2> QED
    BY <2>1, <2>2
<1>6. CASE I # {}
  <2>1. I \in SUBSET Nat
    BY <1>3
  <2>2. Min(I) \in I
    <3> HIDE DEF I
    <3> QED
      BY <1>6, <2>1, MinNat
  <2>3. RootIndex(d) = Min(I)
    BY <1>1, <1>6
  <2> DEFINE k == Min(I)
  <2> HIDE DEF k
  <2>4. k \in I /\ k \in 1..Len(s) /\ k # 0
    BY <1>3, <2>2 DEF k
  <2>5. Root(d) = s[k]
    BY <2>3, <2>4 DEF Root, s, k
  <2>6. Root(d) # Null
    BY <1>2, <1>4, <2>4, <2>5
  <2> QED
    BY <1>4, <2>3, <2>4, <2>5, <2>6 DEF s, k
<1> QED
  BY <1>5, <1>6

LEMMA SameParent ==
  ASSUME NEW d, IsDom(d), NEW n \in Nodes(d), NEW p, ParentOf(d, n) = p
  PROVE  [d EXCEPT !.node[n].parent = p] = d
<1> DEFINE N == Nodes(d)
           G(m) == [event |-> EventOf(d, m), parent |-> ParentOf(d, m), kids |-> Kids(d, m)]
           f == [d.node EXCEPT ![n] = [d.node[n] EXCEPT !.parent = p]]
<1>1. /\ d = [decl |-> d.decl, type |-> d.type, node |-> d.node]
      /\ d.node = [m \in N |-> G(m)]
  BY DEF IsDom
<1>2. [d.node[n] EXCEPT !.parent = p] = d.node[n]
  <2> DEFINE z == d.node[n]
             e == EventOf(d, n)
             v == Kids(d, n)
  <2>1. z = [event |-> e, parent |-> p, kids |-> v]
    BY <1>1
  <2> HIDE DEF z, e, v
  <2>2. [z EXCEPT !.parent = p] = z
    BY <2>1
  <2> QED
    BY <2>2 DEF z
<1> HIDE DEF G
<1>3. f = d.node
  BY <1>1, <1>2
<1>4. [d EXCEPT !.node[n].parent = p] = [d EXCEPT !.node = f]
  OBVIOUS
<1> HIDE DEF f
<1>5. [d EXCEPT !.node = d.node] = d
  BY <1>1
<1> QED
  BY <1>3, <1>4, <1>5

(* setRootElement deletes the root there was with all that is below it.     *)
Cleared(d) == IF Root(d) = Null THEN d ELSE Delete(TakeKid(d, Doc, RootIndex(d)), Root(d))

LEMMA ClearedTree ==
  ASSUME NEW d, NEW U, Tree(d, U), \A u \in U : ParentOf(d, u) = Doc
  PROVE  LET o == Cleared(d)
         IN  /\ Tree(o, U) /\ o.decl = d.decl /\ o.type = d.type
             /\ Nodes(o) \subseteq Nodes(d) /\ Shared(d, o, Nodes(o))
             /\ \A m \in Nodes(o) \ U : ~TopElement(o, m)
<1> DEFINE o == Cleared(d)
           r == Root(d)
           d2 == TakeKid(d, Doc, RootIndex(d))
           N == Nodes(d)
<1>1. CASE r = Null
  <2>1. o = d
    BY <1>1 DEF Cleared
  <2>2. \A m \in N \ U : ~TopElement(d, m)
    BY <1>1, RootIs
  <2> HIDE DEF o
  <2> QED
    BY <2>1, <2>2 DEF Shared, o
<1>2. CASE r # Null
  <2>1. /\ RootIndex(d) \in 1..Len(Kids(d, Doc)) /\ r = Kids(d, Doc)[RootIndex(d)]
        /\ r \in N \ U /\ TopElement(d, r)
    BY <1>2, RootIs
  <2>2. o = Delete(d2, r)
    BY <1>2 DEF Cleared
  <2>3. ParentOf(d, r) = Doc
    BY <2>1 DEF TopElement
  <2>4. /\ r \in Nodes(d) \ {Doc} /\ r \notin U
        /\ Tree(d2, U \cup {r}) /\ d2.decl = d.decl /\ d2.type = d.type
        /\ Nodes(d2) = Nodes(d) /\ Shared(d, d2, Nodes(d))
    <3> DEFINE i == RootIndex(d)
               k == Kids(d, Doc)[i]
               y == TakeKid(d, Doc, i)
    <3>1. i \in 1..Len(Kids(d, Doc)) /\ ParentOf(d, k) = Doc /\ k = r
      BY <2>1, <2>3
    <3>2. y = d2
      OBVIOUS
    <3> HIDE DEF i, r, d2, N
    <3>3. /\ k \in Nodes(d) \ {Doc} /\ k \notin U
          /\ Tree(y, U \cup {k}) /\ y.decl = d.decl /\ y.type = d.type
          /\ Nodes(y) = Nodes(d) /\ Shared(d, y, Nodes(d))
      BY <3>1, DetachTree
    <3> HIDE DEF k, y
    <3> QED
      BY <3>1, <3>2, <3>3
  <2> HIDE DEF o, d2, r
  <2>5. /\ Nodes(o) = {k \in Nodes(d2) : r \notin Above(d2, k)}
        /\ Tree(o, (U \cup {r}) \cap Nodes(o)) /\ o.decl = d2.decl /\ o.type = d2.type
        /\ Shared(d2, o, Nodes(o))
    BY <2>2, <2>4, DeleteTree
  <2> HIDE DEF N
  <2>6. /\ Above(d2, Doc) = {Doc}
        /\ \A n \in N : n \in Above(d2, n)
        /\ \A n \in N : \A a \in Above(d2, n) : a # n => ParentOf(d2, n) # Null /\ a \in Above(d2, ParentOf(d2, n))
    BY <2>4, AboveKnown DEF N
  <2>7. ASSUME NEW u \in U PROVE u \in Nodes(o)
    <3>1. u \in N
      BY TreeParts DEF N
    <3>2. ParentOf(d2, u) = Doc
      BY <2>4, <3>1 DEF Shared, N
    <3>3. u # r /\ r # Doc
      BY <2>4
    <3>4. r \notin Above(d2, u)
      BY <2>6, <3>1, <3>2, <3>3
    <3> QED
      BY <2>4, <2>5, <3>1, <3>4 DEF N
  <2>8. r \notin Nodes(o)
    BY <2>4, <2>5, <2>6 DEF N
  <2>9. (U \cup {r}) \cap Nodes(o) = U
    BY <2>7, <2>8
  <2>10. Nodes(o) \subseteq N /\ Shared(d, o, Nodes(o))
    BY <2>4, <2>5 DEF Shared, N
  <2>11. ASSUME NEW m \in Nodes(o) \ U, TopElement(o, m) PROVE FALSE
    <3>1. TopElement(d, m) /\ m \in N \ U
      BY <2>10, <2>11, SharedIs
    <3>2. m = r
      BY <2>1, <3>1 DEF Tree, OneTop, N
    <3> QED
      BY <2>8, <3>2
  <2> QED
    BY <2>4, <2>5, <2>9, <2>10, <2>11 DEF N, o
<1> QED
  BY <1>1, <1>2

LEMMA BuildTop ==
  ASSUME NEW b, SoundBuilder(b), NEW e, e.type = "StartTag", b.current = Null
  PROVE  /\ SoundBuilder(Build(b, e)) /\ BuilderNames(Build(b, e)) = Append(BuilderNames(b), e.name)
         /\ Build(b, e).current # Null
<1> DEFINE d == b.dom
           n == Fresh(d)
           d1 == AddNode(d, e, Doc)
           d2 == Cleared(d1)
           o == AddKid(d2, Doc, n)
           U == Aside(d)
           V == U \cup {n}
           q == [dom |-> o, current |-> n]
<1>1. Tree(d, U) /\ (d.decl = d.type => d.decl = Null) /\ \A u \in U : ParentOf(d, u) = Doc /\ ~IsElement(d, u)
  BY DEF SoundBuilder, AsideRight
<1>2. Build(b, e) = [dom |-> [o EXCEPT !.node[n].parent = Doc], current |-> n]
  BY Zenon DEF Build, SetRootElement, Cleared
<1> HIDE DEF d, U
<1>3. /\ n \notin Nodes(d) /\ n \in Nat /\ n # Doc
      /\ Tree(d1, V) /\ d1.decl = d.decl /\ d1.type = d.type
      /\ Nodes(d1) = Nodes(d) \cup {n}
      /\ EventOf(d1, n) = e /\ ParentOf(d1, n) = Doc
      /\ Shared(d, d1, Nodes(d))
  <2>1. Doc \in Nodes(d)
    BY <1>1, TreeParts
  <2> QED
    BY <1>1, <2>1, AddNodeTree
<1>4. U \subseteq Nodes(d) /\ Null \notin Nodes(d)
  BY <1>1, TreeParts
<1> HIDE DEF n, d1
<1>5. \A u \in V : ParentOf(d1, u) = Doc
  BY <1>1, <1>3, <1>4 DEF Shared
<1>6. /\ Tree(d2, V) /\ d2.decl = d1.decl /\ d2.type = d1.type
      /\ Nodes(d2) \subseteq Nodes(d1) /\ Shared(d1, d2, Nodes(d2))
      /\ \A m \in Nodes(d2) \ V : ~TopElement(d2, m)
  <2> HIDE DEF V, d2
  <2> QED
    BY <1>3, <1>5, ClearedTree DEF d2
<1> HIDE DEF d2
<1>7. n \in V /\ V \subseteq Nodes(d2)
  <2>1. V \subseteq Nodes(d2)
    BY <1>6, TreeParts
  <2> QED
    BY <2>1
<1>8. ParentOf(d2, n) = Doc /\ EventOf(d2, n) = e /\ HolderOf(d2, n) = Doc
  <2>1. ParentOf(d2, n) = Doc /\ EventOf(d2, n) = e
    BY <1>3, <1>6, <1>7 DEF Shared
  <2> QED
    BY <2>1 DEF HolderOf, Doc, Null
<1>9. /\ Tree(o, V \ {n}) /\ o.decl = d2.decl /\ o.type = d2.type
      /\ Nodes(o) = Nodes(d2) /\ Shared(d2, o, Nodes(d2))
  <2>1. Doc # Null
    BY DEF Doc, Null
  <2>2. LET x == AddKid(d2, HolderOf(d2, n), n)
        IN  /\ Tree(x, V \ {n}) /\ x.decl = d2.decl /\ x.type = d2.type
            /\ Nodes(x) = Nodes(d2) /\ Shared(d2, x, Nodes(d2))
    <3> HIDE DEF V
    <3> QED
      BY <1>6, <1>7, <1>8, <2>1, AttachTree
  <2> QED
    BY <1>8, <2>2
<1> HIDE DEF o
<1>10. V \ {n} = U /\ Aside(o) = U
  BY <1>3, <1>4, <1>6, <1>9 DEF Aside, U
<1>11. n \in Nodes(o) /\ EventOf(o, n) = e /\ ParentOf(o, n) = Doc
  BY <1>7, <1>8, <1>9 DEF Shared
<1>12. [o EXCEPT !.node[n].parent = Doc] = o
  BY <1>9, <1>11, SameParent DEF Tree
<1>13. Build(b, e) = q
  BY <1>2, <1>12
<1>14. \A u \in U : ParentOf(o, u) = Doc /\ ~IsElement(o, u)
  <2> TAKE u \in U
  <2>1. u \in Nodes(d) /\ u \in Nodes(d2) /\ u \in Nodes(d1)
    BY <1>3, <1>4, <1>7
  <2>2. EventOf(o, u) = EventOf(d, u) /\ ParentOf(o, u) = ParentOf(d, u)
    BY <1>3, <1>6, <1>9, <2>1 DEF Shared
  <2>3. IsElement(o, u) <=> IsElement(d, u)
    BY <2>2, Carried
  <2> QED
    BY <1>1, <2>2, <2>3
<1>15. AsideRight(o)
  BY <1>1, <1>3, <1>6, <1>9, <1>10, <1>14 DEF AsideRight
<1>16. IsElement(o, n) /\ n # Null
  <2>1. TypeOf(o, n) = e.type
    BY <1>11 DEF TypeOf, EventOf
  <2> QED
    BY <1>3, <2>1 DEF IsElement, Null
<1>17. OpenNames(o, n) = Append(<<>>, e.name)
  <2>1. OpenNames(o, Doc) = <<>> /\ OpenNames(o, n) = Append(OpenNames(o, ParentOf(o, n)), o.node[n].event.name)
    BY <1>3, <1>9, <1>11, NamesAre
  <2> QED
    BY <1>11, <2>1 DEF EventOf
<1>18. q.dom = o /\ q.current = n /\ IsBuilder(q)
  BY DEF IsBuilder
<1> HIDE DEF q
<1>19. SoundBuilder(q)
  BY <1>11, <1>15, <1>16, <1>18 DEF SoundBuilder
<1>20. BuilderNames(b) = <<>>
  BY <1>1, NamesAre DEF BuilderNames, d
<1> QED
  BY <1>13, <1>16, <1>17, <1>18, <1>19, <1>20 DEF BuilderNames

LEMMA BuildOther ==
  ASSUME NEW b, NEW e, e.type \notin {"DocDecl", "DocType", "StartTag", "EndTag", "CData", "Comment", "PI"}
  PROVE  Build(b, e) = b
BY Zenon DEF Build

(* The elements from a node up end in one at the top.                       *)
LEMMA ElementsUp ==
  ASSUME NEW d, AsideRight(d), NEW n \in Nodes(d), IsElement(d, n)
  PROVE  \E t \in Above(d, n) : t \in Nodes(d) \ Aside(d) /\ TopElement(d, t)
<1> DEFINE N == Nodes(d)
           U == Aside(d)
           Good(m) == \E t \in Above(d, m) : t \in N \ U /\ TopElement(d, t)
           S == {m \in N : IsElement(d, m) => Good(m)}
<1>1. /\ Tree(d, U) /\ \A u \in U : ~IsElement(d, u)
      /\ Doc \in N /\ ~IsElement(d, Doc)
  BY DEF AsideRight, Tree
<1>2. /\ \A m \in N : m \in Above(d, m)
      /\ \A m \in N : ParentOf(d, m) # Null => ParentOf(d, m) \in N
                                               /\ Above(d, ParentOf(d, m)) \subseteq Above(d, m)
  BY <1>1, AboveKnown
<1>3. ASSUME NEW m \in N, ParentOf(d, m) = Null \/ ParentOf(d, m) \in S PROVE m \in S
  <2> SUFFICES ASSUME IsElement(d, m) PROVE Good(m)
    OBVIOUS
  <2>1. m \notin U /\ m # Doc /\ TypeOf(d, m) # "PI"
    BY <1>1 DEF IsElement
  <2>2. /\ ParentOf(d, m) # Null
        /\ ParentOf(d, m) = Doc \/ IsElement(d, ParentOf(d, m))
    BY <1>1, <2>1 DEF Tree, ParentsRight
  <2>3. CASE ParentOf(d, m) = Doc
    BY <1>2, <2>1, <2>3 DEF TopElement
  <2>4. CASE IsElement(d, ParentOf(d, m))
    <3>1. Good(ParentOf(d, m))
      BY <1>3, <2>2, <2>4
    <3> QED
      BY <1>2, <2>2, <3>1
  <2> QED
    BY <2>2, <2>3, <2>4
<1>4. \A m \in N : m \in S
  <2> HIDE DEF S
  <2> QED
    BY <1>1, <1>3, FromParents
<1> QED
  BY <1>4

LEMMA SoundTree ==
  ASSUME SoundBuilder([dom |-> dom, current |-> current])
  PROVE  TreeIsSound
<1> DEFINE d == dom
           c == current
           N == Nodes(d)
           U == Aside(d)
           b == [dom |-> dom, current |-> current]
<1>1. /\ AsideRight(d) /\ Tree(d, U) /\ \A u \in U : ParentOf(d, u) = Doc
      /\ c # Null => c \in N /\ IsElement(d, c)
  <2>1. b.dom = d /\ b.current = c
    OBVIOUS
  <2> HIDE DEF b, d, c
  <2> QED
    BY <2>1 DEF SoundBuilder, AsideRight, b, d, c
<1>2. /\ Doc \in N /\ Null \notin N /\ \A n \in N : HolderOf(d, n) \in N
  BY <1>1, TreeParts
<1>3. /\ \A m \in N : Listed(Kids(d, m), N)
      /\ \A m \in N : \A n \in N : In(Kids(d, m), n) <=> n \notin U /\ n # Doc /\ m = HolderOf(d, n)
  BY <1>1 DEF Tree, KidsRight
<1>4. ASSUME NEW n \in N \ {Doc}
      PROVE  LET holders == {m \in N : \E i \in DOMAIN Kids(d, m) : Kids(d, m)[i] = n}
             IN  IF n \in {d.decl, d.type} THEN holders = {} /\ d.node[n].parent = Doc
                 ELSE /\ Cardinality(holders) = 1
                      /\ d.node[n].parent \in holders \/ (holders = {Doc} /\ TypeOf(d, n) = "PI")
  <2> DEFINE holders == {m \in N : \E i \in DOMAIN Kids(d, m) : Kids(d, m)[i] = n}
  <2>1. holders = {m \in N : In(Kids(d, m), n)}
    BY DEF In
  <2>2. n \in {d.decl, d.type} <=> n \in U
    BY <1>2 DEF Aside
  <2> HIDE DEF holders
  <2>3. CASE n \in U
    BY <1>1, <1>3, <2>1, <2>2, <2>3 DEF ParentOf, holders
  <2>4. CASE n \notin U
    <3>1. holders = {HolderOf(d, n)}
      BY <1>2, <1>3, <2>1, <2>4
    <3>2. Cardinality(holders) = 1
      BY <3>1, FS_Singleton
    <3>3. ParentOf(d, n) \in holders \/ (holders = {Doc} /\ TypeOf(d, n) = "PI")
      <4>1. ParentOf(d, n) = Null => TypeOf(d, n) = "PI"
        BY <1>1, <2>4 DEF Tree, ParentsRight
      <4> QED
        BY <3>1, <4>1 DEF HolderOf
    <3> QED
      BY <2>2, <2>4, <3>2, <3>3 DEF ParentOf, holders
  <2> QED
    BY <2>3, <2>4
<1>5. Cardinality({i \in DOMAIN Kids(d, Doc) : IsElement(d, Kids(d, Doc)[i])}) <= 1
  <2> DEFINE s == Kids(d, Doc)
             I == {i \in DOMAIN s : IsElement(d, s[i])}
  <2>1. DOMAIN s = 1..Len(s) /\ \A i \in DOMAIN s : s[i] \in N /\ In(s, s[i])
    <3>1. Listed(s, N)
      BY <1>2, <1>3
    <3> HIDE DEF s, N
    <3> QED
      BY <3>1 DEF Listed, In
  <2>2. \A i, j \in DOMAIN s : s[i] = s[j] => i = j
    <3>1. Listed(s, N)
      BY <1>2, <1>3
    <3> HIDE DEF s
    <3> QED
      BY <2>1, <3>1 DEF Listed
  <2>3. ASSUME NEW i \in I PROVE s[i] \in N \ U /\ TopElement(d, s[i])
    <3>1. s[i] \in N /\ IsElement(d, s[i]) /\ s[i] \notin U /\ s[i] # Doc /\ Doc = HolderOf(d, s[i])
      BY <1>2, <1>3, <2>1
    <3> DEFINE x == s[i]
    <3> HIDE DEF x, s
    <3>2. TypeOf(d, x) # "PI"
      BY <3>1 DEF IsElement, x
    <3>3. ParentOf(d, x) # Null
      BY <1>1, <3>1, <3>2 DEF Tree, ParentsRight, x
    <3> QED
      BY <3>1, <3>3 DEF HolderOf, TopElement, x
  <2>4. \A i, j \in I : i = j
    <3> TAKE i, j \in I
    <3>1. s[i] = s[j]
      BY <1>1, <2>3 DEF Tree, OneTop
    <3> QED
      BY <2>2, <3>1
  <2> HIDE DEF I
  <2>5. CASE I = {}
    BY <2>5, FS_EmptySet DEF I
  <2>6. CASE I # {}
    <3>1. PICK i : I = {i}
      BY <2>4, <2>6
    <3>2. Cardinality(I) = 1
      BY <3>1, FS_Singleton
    <3> QED
      BY <3>2 DEF I
  <2> QED
    BY <2>5, <2>6
<1>6. ASSUME c # Null PROVE Root(d) \in Above(d, c)
  <2>1. PICK t \in Above(d, c) : t \in N \ U /\ TopElement(d, t)
    BY <1>1, <1>6, ElementsUp
  <2>2. Root(d) # Null
    BY <1>1, <2>1, RootIs
  <2>3. Root(d) \in N \ U /\ TopElement(d, Root(d))
    BY <1>1, <2>2, RootIs
  <2>4. Root(d) = t
    BY <1>1, <2>1, <2>3 DEF Tree, OneTop
  <2> QED
    BY <2>1, <2>4
<1> QED
  BY <1>4, <1>5, <1>6 DEF TreeIsSound
-----------------------------------------------------------------------------
LEMMA LevelIs ==
  ASSUME NEW l, NEW events, Len(events) \in Nat
  PROVE  Run(LevelAfter, l, events) = Result(Levelling, l, events)
<1> DEFINE Values(f) == f = [i \in 0..Len(events) |-> IF i = 0 THEN l ELSE LevelAfter(f[i - 1], events[i])]
           g == CHOOSE h : Values(h)
<1>1. PICK f : Fed(Levelling, l, events, f)
  BY FedExists
<1>2. Values(f)
  BY <1>1 DEF Fed, Does, Feeding, Building, Levelling
<1>3. Values(g)
  <2> HIDE DEF Values
  <2> QED
    BY <1>2
<1>4. Run(LevelAfter, l, events) = g[Len(events)]
  BY Zenon DEF Run
<1> HIDE DEF g
<1>5. Fed(Levelling, l, events, g)
  BY <1>3 DEF Fed, Does, Feeding, Building, Levelling
<1> QED
  BY <1>4, <1>5, ResultIs

LEMMA LevelOn ==
  ASSUME NEW l, NEW q, IsSeq(q), NEW r, IsSeq(r)
  PROVE  Run(LevelAfter, l, q \o r) = Run(LevelAfter, Run(LevelAfter, l, q), r)
<1>1. Len(q) \in Nat /\ Len(r) \in Nat /\ Len(q \o r) \in Nat
  BY Joined DEF IsSeq
<1>2. Result(Levelling, l, q \o r) = Result(Levelling, Result(Levelling, l, q), r)
  BY FedOn
<1> QED
  BY <1>1, <1>2, LevelIs

LEMMA BuildMore ==
  ASSUME NEW b, NEW q, IsSeq(q), NEW e
  PROVE  BuildTree(b, Append(q, e)) = Build(BuildTree(b, q), e)
<1> DEFINE o == <<e>>
           c == BuildTree(b, q)
<1>1. IsSeq(o) /\ Len(o) \in Nat /\ o = Append(<<>>, e) /\ IsSeq(<<>>)
  BY DEF IsSeq
<1>2. q \o o = Append(q, e)
  BY <1>1, Joined
<1>3. BuildTree(c, o) = Build(c, e)
  <2> HIDE DEF c
  <2>1. Result(Building, c, <<e>>) = Does(Building, c, e)
    BY FedOne
  <2>2. BuildTree(c, o) = Result(Building, c, o)
    BY <1>1, BuildTreeIs
  <2>3. Does(Building, c, e) = Build(c, e)
    BY DEF Does, Feeding, Building
  <2> QED
    BY <2>1, <2>2, <2>3
<1> HIDE DEF o
<1>4. BuildTree(b, q \o o) = BuildTree(c, o)
  BY <1>1, BuildOn
<1> HIDE DEF c
<1>5. BuildTree(b, Append(q, e)) = Build(c, e)
  BY <1>2, <1>3, <1>4
<1> QED
  BY <1>5 DEF c

LEMMA LevelMore ==
  ASSUME NEW l, NEW q, IsSeq(q), NEW e
  PROVE  Run(LevelAfter, l, Append(q, e)) = LevelAfter(Run(LevelAfter, l, q), e)
<1> DEFINE o == <<e>>
           c == Run(LevelAfter, l, q)
<1>1. IsSeq(o) /\ Len(o) \in Nat /\ o = Append(<<>>, e) /\ IsSeq(<<>>)
  BY DEF IsSeq
<1>2. q \o o = Append(q, e)
  BY <1>1, Joined
<1>3. Run(LevelAfter, c, o) = LevelAfter(c, e)
  <2> HIDE DEF c
  <2>1. Result(Levelling, c, <<e>>) = Does(Levelling, c, e)
    BY FedOne
  <2>2. Run(LevelAfter, c, o) = Result(Levelling, c, o)
    <3> HIDE DEF o
    <3> QED
      BY <1>1, LevelIs
  <2>3. Does(Levelling, c, e) = LevelAfter(c, e)
    BY DEF Does, Feeding, Building, Levelling
  <2> QED
    BY <2>1, <2>2, <2>3
<1> HIDE DEF o
<1>4. Run(LevelAfter, l, q \o o) = Run(LevelAfter, c, o)
  BY <1>1, LevelOn
<1> HIDE DEF c
<1>5. Run(LevelAfter, l, Append(q, e)) = LevelAfter(c, e)
  BY <1>2, <1>3, <1>4
<1> QED
  BY <1>5 DEF c

(* The builder and the level that the events queued so far make.            *)
Built(p) == BuildTree(NewBuilder, p.queue)
Level(p) == Run(LevelAfter, 0, p.queue)

InStep(p) == BuilderNames(Built(p)) = p.tags /\ Level(p) = Len(p.tags)

Sane(p) == IsParser(p) /\ SoundBuilder(Built(p))

Stands(p) == Sane(p) /\ InStep(p)

Follows(p) == Sane(p) /\ (p.error = "" => InStep(p))

LEMMA Enqueued ==
  ASSUME NEW p, IsParser(p), NEW e
  PROVE  LET o == Enqueue(p, e)
         IN  /\ IsParser(o) /\ Built(o) = Build(Built(p), e) /\ Level(o) = LevelAfter(Level(p), e)
             /\ o.tags = p.tags /\ o.error = p.error /\ o.root = p.root /\ o.fault = p.fault
             /\ o.reader = p.reader
<1> DEFINE o == Enqueue(p, e)
           q == Append(p.queue, e)
<1>1. IsSeq(p.queue)
  BY DEF IsParser
<1>2. IsSeq(q)
  <2>1. IsSeq(<<>>)
    BY DEF IsSeq
  <2> QED
    BY <1>1, <2>1, Joined
<1>3. o = [p EXCEPT !.queue = q]
  BY DEF Enqueue
<1>4. BuildTree(NewBuilder, q) = Build(Built(p), e) /\ Run(LevelAfter, 0, q) = LevelAfter(Level(p), e)
  <2>1. BuildTree(NewBuilder, q) = Build(BuildTree(NewBuilder, p.queue), e)
    BY <1>1, BuildMore
  <2>2. Run(LevelAfter, 0, q) = LevelAfter(Run(LevelAfter, 0, p.queue), e)
    BY <1>1, LevelMore
  <2> HIDE DEF q
  <2> QED
    BY <2>1, <2>2 DEF Built, Level
<1> HIDE DEF o, q
<1>5. /\ IsParser(o) /\ o.queue = q
      /\ o.tags = p.tags /\ o.error = p.error /\ o.root = p.root /\ o.fault = p.fault
      /\ o.reader = p.reader
  BY <1>2, <1>3 DEF IsParser, ParserFields
<1> QED
  BY <1>4, <1>5 DEF Built, Level, o

(* What leaves queue and tags alone.                                        *)
LEMMA Unmoved ==
  ASSUME NEW p, NEW o, IsParser(o), o.queue = p.queue
  PROVE  /\ Sane(p) => Sane(o)
         /\ Stands(p) /\ o.tags = p.tags => Stands(o)
         /\ Follows(p) /\ o.tags = p.tags /\ o.error = p.error => Follows(o)
<1>1. Built(o) = Built(p) /\ Level(o) = Level(p)
  BY DEF Built, Level
<1> QED
  BY <1>1 DEF Sane, Stands, Follows, InStep

LEMMA StandsFollows ==
  ASSUME NEW p, Stands(p)
  PROVE  Follows(p) /\ IsParser(p)
BY DEF Stands, Follows, Sane

(* An event that opens and closes no tag.                                   *)
LEMMA NeutralEvent ==
  ASSUME NEW p, Stands(p), NEW e, e.type \notin {"StartTag", "EndTag"}
  PROVE  Stands(Enqueue(p, e))
<1> DEFINE o == Enqueue(p, e)
           b == Built(p)
<1>1. IsParser(p) /\ SoundBuilder(b) /\ InStep(p)
  BY DEF Stands, Sane
<1>2. /\ IsParser(o) /\ Built(o) = Build(b, e) /\ Level(o) = LevelAfter(Level(p), e) /\ o.tags = p.tags
  BY <1>1, Enqueued
<1>3. LevelAfter(Level(p), e) = Level(p)
  BY Zenon DEF LevelAfter
<1>4. SoundBuilder(Build(b, e)) /\ BuilderNames(Build(b, e)) = BuilderNames(b)
  <2> HIDE DEF b, o
  <2>1. CASE e.type = "DocDecl"
    BY <1>1, <2>1, BuildDocDecl
  <2>2. CASE e.type = "DocType"
    BY <1>1, <2>2, BuildDocType
  <2>3. CASE e.type \in {"CData", "Comment", "PI"}
    BY <1>1, <2>3, BuildText
  <2>4. CASE e.type \notin {"DocDecl", "DocType", "CData", "Comment", "PI"}
    <3>1. Build(b, e) = b
      BY <2>4, BuildOther
    <3> QED
      BY <1>1, <3>1
  <2> QED
    BY <2>1, <2>2, <2>3, <2>4
<1> HIDE DEF o, b
<1> QED
  BY <1>1, <1>2, <1>3, <1>4 DEF Stands, Sane, InStep, o, b

LEMMA CloseRootStands ==
  ASSUME NEW p, Stands(p)
  PROVE  Stands(CloseRoot(p))
<1> DEFINE e == EndDocument
           o == Enqueue(p, e)
           x == [o EXCEPT !.root = "End"]
<1>1. e.type \notin {"StartTag", "EndTag"}
  BY DEF EndDocument
<1> HIDE DEF e
<1>2. Stands(o)
  BY <1>1, NeutralEvent
<1> HIDE DEF o
<1>3. IsParser(x) /\ x.queue = o.queue /\ x.tags = o.tags
  <2>1. "End" \in Roots
    BY DEF Roots
  <2> QED
    BY <1>2, <2>1 DEF Stands, Sane, IsParser, ParserFields
<1> HIDE DEF x
<1>4. Stands(x)
  BY <1>2, <1>3, Unmoved
<1> QED
  BY <1>4, Zenon DEF CloseRoot, x, o, e

LEMMA OpenTagStands ==
  ASSUME NEW p, Stands(p), NEW e, e.type = "StartTag"
  PROVE  Stands(OpenTag(p, e))
<1> DEFINE b == Built(p)
           P == Enqueue(p, e)
           fp == IF e.name = NoName THEN "must" ELSE P.fault
           t == Append(P.tags, e.name)
           r == IF P.root = "None" THEN "Start" ELSE P.root
           o == [P EXCEPT !.fault = fp, !.tags = t, !.root = r]
<1>1. IsParser(p) /\ SoundBuilder(b) /\ BuilderNames(b) = p.tags /\ Level(p) = Len(p.tags)
  BY DEF Stands, Sane, InStep
<1>2. /\ IsParser(P) /\ Built(P) = Build(b, e) /\ Level(P) = LevelAfter(Level(p), e) /\ P.tags = p.tags
  BY <1>1, Enqueued
<1>3. OpenTag(p, e) = o
  BY DEF OpenTag
<1>4. LevelAfter(Level(p), e) = Level(p) + 1
  BY Zenon DEF LevelAfter
<1>5. SoundBuilder(Build(b, e)) /\ BuilderNames(Build(b, e)) = Append(BuilderNames(b), e.name)
  <2> HIDE DEF b
  <2> QED
    BY <1>1, BuildChild, BuildTop
<1>6. IsSeq(BuilderNames(b))
  <2>1. Tree(b.dom, Aside(b.dom)) /\ b.current \in Nodes(b.dom) \cup {Null}
    BY <1>1 DEF SoundBuilder, AsideRight
  <2> QED
    BY <2>1, NamesListed DEF BuilderNames
<1>11. r \in Roots
  <2> HIDE DEF P
  <2> QED
    BY <1>2 DEF IsParser, Roots
<1> HIDE DEF P, b, fp, r
<1>7. t = Append(p.tags, e.name) /\ Len(t) = Len(p.tags) + 1
  <2>1. PICK S : p.tags \in Seq(S)
    BY <1>1, <1>6, IsSeqOf
  <2> QED
    BY <1>2, <2>1
<1> HIDE DEF t
<1>8. IsParser(o) /\ o.queue = P.queue /\ o.tags = t
  BY <1>2, <1>11 DEF IsParser, ParserFields
<1> HIDE DEF o
<1>9. Built(o) = Built(P) /\ Level(o) = Level(P)
  BY <1>8 DEF Built, Level
<1>10. Stands(o)
  BY <1>1, <1>2, <1>4, <1>5, <1>7, <1>8, <1>9 DEF Stands, Sane, InStep
<1> QED
  BY <1>3, <1>10

LEMMA CloseTagFollows ==
  ASSUME NEW p, Stands(p), NEW e, e.type = "EndTag"
  PROVE  Follows(CloseTag(p, e))
<1> DEFINE b == Built(p)
           P == [p EXCEPT !.tags = Front(@)]
<1>1. IsParser(p) /\ SoundBuilder(b) /\ BuilderNames(b) = p.tags /\ Level(p) = Len(p.tags)
  BY DEF Stands, Sane, InStep
<1> HIDE DEF b
<1>2. IsParser(P) /\ P.queue = p.queue /\ P.tags = Front(p.tags)
  BY <1>1 DEF IsParser, ParserFields
<1>3. ASSUME NEW o, IsParser(o), o.queue = p.queue PROVE Follows(SetError(o, "mismatched tag"))
  <2> DEFINE x == SetError(o, "mismatched tag")
  <2>1. IsParser(x) /\ x.queue = p.queue /\ x.error = "mismatched tag"
    BY <1>3 DEF SetError, IsParser, ParserFields
  <2> HIDE DEF x
  <2>2. Sane(x)
    BY <2>1, Unmoved DEF Stands
  <2>3. Follows(x)
    BY <2>1, <2>2 DEF Follows
  <2> QED
    BY <2>3 DEF x
<1> HIDE DEF P
<1>4. CASE p.tags = <<>>
  <2>1. CloseTag(p, e) = SetError(p, "mismatched tag")
    BY <1>4 DEF CloseTag
  <2> QED
    BY <1>1, <1>3, <2>1
<1>5. CASE p.tags # <<>> /\ Last(p.tags) # e.text
  <2>1. CloseTag(p, e) = SetError(P, "mismatched tag")
    BY <1>5 DEF CloseTag, P
  <2> QED
    BY <1>2, <1>3, <2>1
<1>6. CASE p.tags # <<>> /\ Last(p.tags) = e.text
  <2> DEFINE o == Enqueue(P, e)
  <2>1. CloseTag(p, e) = CloseRoot(o)
    BY <1>6 DEF CloseTag, P
  <2>2. /\ IsParser(o) /\ Built(o) = Build(Built(P), e) /\ Level(o) = LevelAfter(Level(P), e) /\ o.tags = P.tags
    BY <1>2, Enqueued
  <2> HIDE DEF o
  <2>3. Built(P) = b /\ Level(P) = Level(p)
    BY <1>2 DEF Built, Level, b
  <2>4. b.current # Null
    <3>1. Tree(b.dom, Aside(b.dom))
      BY <1>1 DEF SoundBuilder, AsideRight
    <3> QED
      BY <1>1, <1>6, <3>1, NamesAre DEF BuilderNames
  <2>5. /\ SoundBuilder(Build(b, e))
        /\ BuilderNames(Build(b, e)) = Front(BuilderNames(b))
        /\ Len(BuilderNames(Build(b, e))) = Len(BuilderNames(b)) - 1
    BY <1>1, <2>4, BuildEndTag
  <2>6. LevelAfter(Level(p), e) = Level(p) - 1
    <3>1. e.type # "StartTag"
      OBVIOUS
    <3> QED
      BY <3>1, Zenon DEF LevelAfter
  <2>7. Stands(o)
    BY <1>1, <1>2, <2>2, <2>3, <2>5, <2>6 DEF Stands, Sane, InStep
  <2>8. Stands(CloseRoot(o))
    BY <2>7, CloseRootStands
  <2> QED
    BY <2>1, <2>8, StandsFollows
<1> QED
  BY <1>4, <1>5, <1>6

LEMMA AcceptFollows ==
  ASSUME NEW p, Stands(p), NEW e
  PROVE  Follows(Accept(p, e))
<1>1. CASE e.type = "StartTag"
  <2>1. Accept(p, e) = OpenTag(p, e)
    BY <1>1, Zenon DEF Accept
  <2> QED
    BY <1>1, <2>1, OpenTagStands, StandsFollows
<1>2. CASE e.type = "EndTag"
  <2>1. Accept(p, e) = CloseTag(p, e)
    BY <1>2 DEF Accept
  <2> QED
    BY <1>2, <2>1, CloseTagFollows
<1>3. CASE e.type = "DocDecl"
  <2> DEFINE u == IF e.encoding = <<>> THEN "utf-8" ELSE Head(e.encoding)
             P == [p EXCEPT !.encoding = u]
  <2>1. Accept(p, e) = CloseRoot(Enqueue(P, e))
    BY <1>3 DEF Accept
  <2> HIDE DEF u
  <2>2. IsParser(P) /\ P.queue = p.queue /\ P.tags = p.tags
    BY DEF Stands, Sane, IsParser, ParserFields
  <2> HIDE DEF P
  <2>3. Stands(P)
    BY <2>2, Unmoved
  <2>4. Stands(Enqueue(P, e))
    BY <1>3, <2>3, NeutralEvent
  <2> QED
    BY <2>1, <2>4, CloseRootStands, StandsFollows
<1>4. CASE e.type \notin {"StartTag", "EndTag", "DocDecl"}
  <2>1. Accept(p, e) = CloseRoot(Enqueue(p, e))
    BY <1>4 DEF Accept
  <2>2. Stands(Enqueue(p, e))
    BY <1>4, NeutralEvent
  <2> QED
    BY <2>1, <2>2, CloseRootStands, StandsFollows
<1> QED
  BY <1>1, <1>2, <1>3, <1>4

LEMMA TakeErrorStands ==
  ASSUME NEW p, Stands(p), NEW got
  PROVE  Stands(TakeError(p, got))
<1> DEFINE e == IF got.error = "" THEN p.error ELSE got.error
           f == IF got.wild THEN "may" ELSE p.fault
           o == [p EXCEPT !.error = e, !.fault = f]
<1>1. TakeError(p, got) = o
  BY DEF TakeError
<1> HIDE DEF e, f
<1>2. IsParser(o) /\ o.queue = p.queue /\ o.tags = p.tags
  BY DEF Stands, Sane, IsParser, ParserFields
<1> HIDE DEF o
<1>3. Stands(o)
  BY <1>2, Unmoved
<1> QED
  BY <1>1, <1>3

LEMMA SetErrorStands ==
  ASSUME NEW p, Stands(p), NEW what
  PROVE  Stands(SetError(p, what))
<1>1. IsParser(SetError(p, what)) /\ SetError(p, what).queue = p.queue /\ SetError(p, what).tags = p.tags
  BY DEF Stands, Sane, SetError, IsParser, ParserFields
<1> QED
  BY <1>1, Unmoved

LEMMA HoldStands ==
  ASSUME NEW p, Stands(p), NEW c
  PROVE  Stands(Hold(p, c))
<1>1. IsParser(Hold(p, c)) /\ Hold(p, c).queue = p.queue /\ Hold(p, c).tags = p.tags
  BY DEF Stands, Sane, Hold, IsParser, ParserFields
<1> QED
  BY <1>1, Unmoved

(* What the readers note down moves neither of them.                        *)
LEMMA NotedFollows ==
  ASSUME NEW p, NEW r, NEW b, NEW u, NEW k
  PROVE  /\ Follows(p) => Follows([p EXCEPT !.reader = r, !.buffer = b, !.quote = u, !.bracket = k])
         /\ Stands(p) => Stands([p EXCEPT !.reader = r, !.buffer = b, !.quote = u, !.bracket = k])
         /\ Follows(p) => Follows([p EXCEPT !.quote = u]) /\ Follows([p EXCEPT !.bracket = k])
<1> DEFINE x == [p EXCEPT !.reader = r, !.buffer = b, !.quote = u, !.bracket = k]
           y == [p EXCEPT !.quote = u]
           z == [p EXCEPT !.bracket = k]
<1>1. IsParser(p) =>
        /\ IsParser(x) /\ x.queue = p.queue /\ x.tags = p.tags /\ x.error = p.error
        /\ IsParser(y) /\ y.queue = p.queue /\ y.tags = p.tags /\ y.error = p.error
        /\ IsParser(z) /\ z.queue = p.queue /\ z.tags = p.tags /\ z.error = p.error
  BY DEF IsParser, ParserFields
<1>2. Follows(p) => IsParser(p)
  BY DEF Follows, Sane
<1>3. Stands(p) => IsParser(p)
  BY StandsFollows
<1> HIDE DEF x, y, z
<1>4. Follows(p) => Follows(x)
  BY <1>1, <1>2, Unmoved
<1>5. Stands(p) => Stands(x)
  BY <1>1, <1>3, Unmoved
<1>6. Follows(p) => Follows(y)
  BY <1>1, <1>2, Unmoved
<1>7. Follows(p) => Follows(z)
  BY <1>1, <1>2, Unmoved
<1> QED
  BY <1>4, <1>5, <1>6, <1>7 DEF x, y, z

LEMMA ChangeReaderFollows ==
  ASSUME NEW p, Stands(p), NEW reader, NEW fed
  PROVE  /\ Follows(ChangeReader(p, reader, fed))
         /\ p.reader = "LBracket" => Stands(ChangeReader(p, reader, fed))
<1> DEFINE got == GetEvent(p)
           E == TakeError(p, got)
           P == TakeEvent(p, got)
<1>1. Stands(E)
  <2> HIDE DEF got
  <2> QED
    BY TakeErrorStands
<1>2. got.events = <<>> => P = E
  BY DEF TakeEvent
<1>3. got.events # <<>> => P = Accept(E, got.events[1])
  BY DEF TakeEvent
<1>4. Follows(P)
  <2> HIDE DEF got, E, P
  <2>1. \A e : Follows(Accept(E, e))
    BY <1>1, AcceptFollows
  <2> QED
    BY <1>1, <1>2, <1>3, <2>1, StandsFollows
<1>5. p.reader = "LBracket" => Stands(P)
  <2>1. p.reader = "LBracket" => got = Nothing
    BY Zenon DEF GetEvent
  <2>2. Nothing.events = <<>>
    BY DEF Nothing
  <2> HIDE DEF got, E, P
  <2> QED
    BY <1>1, <1>2, <2>1, <2>2
<1>6. ChangeReader(p, reader, fed)
        = [P EXCEPT !.reader = reader, !.buffer = fed, !.quote = "", !.bracket = FALSE]
  BY DEF ChangeReader
<1> HIDE DEF got, E, P
<1> DEFINE x == [P EXCEPT !.reader = reader, !.buffer = fed, !.quote = "", !.bracket = FALSE]
<1>7. (Follows(P) => Follows(x)) /\ (Stands(P) => Stands(x))
  BY NotedFollows
<1> HIDE DEF x
<1>8. ChangeReader(p, reader, fed) = x
  BY <1>6 DEF x
<1> QED
  BY <1>4, <1>5, <1>7, <1>8

LEMMA ReadSTagFollows ==
  ASSUME NEW p, Stands(p), NEW c
  PROVE  Follows(ReadSTag(p, c))
<1> DEFINE name == Without(Unpadded(p.buffer), Spaces)
           slash == \E i \in DOMAIN name : name[i] = "/"
           n == Slashless(name)
<1>1. Follows(p) /\ Follows(SetError(p, "illegal char")) /\ Follows(Hold(p, c))
  BY SetErrorStands, HoldStands, StandsFollows
<1>2. CASE p.quote = "" /\ c = ">"
  <2>1. ReadSTag(p, c) = ChangeReader(p, "PCData", <<>>)
    BY <1>2 DEF ReadSTag
  <2> QED
    BY <2>1, ChangeReaderFollows
<1>3. CASE p.quote = "" /\ c = "/"
  <2> DEFINE P == IF slash THEN SetError(p, "illegal name char") ELSE p
  <2>1. ReadSTag(p, c) = ChangeReader(P, "ETag", n)
    BY <1>3 DEF ReadSTag
  <2>2. Stands(P)
    <3> HIDE DEF slash
    <3> QED
      BY SetErrorStands
  <2> HIDE DEF P, n
  <2> QED
    BY <2>1, <2>2, ChangeReaderFollows
<1>4. CASE p.quote = "" /\ c = "<"
  <2>1. ReadSTag(p, c) = SetError(p, "illegal char")
    BY <1>4 DEF ReadSTag
  <2> QED
    BY <1>1, <2>1
<1>5. CASE ~(p.quote = "" /\ c \in {">", "/", "<"})
  <2> DEFINE P == Hold(p, c)
             u == IF P.quote = "" THEN (IF c \in {"'", "\""} THEN c ELSE "")
                  ELSE IF c = P.quote THEN "" ELSE P.quote
  <2>1. P.quote = p.quote
    BY DEF Hold, Stands, Sane, IsParser, ParserFields
  <2>2. ReadSTag(p, c) = [P EXCEPT !.quote = u]
    BY <1>5, <2>1 DEF ReadSTag
  <2> HIDE DEF P, u
  <2>3. Follows(P) => Follows([P EXCEPT !.quote = u])
    BY NotedFollows
  <2> QED
    BY <1>1, <2>2, <2>3 DEF P
<1> QED
  BY <1>2, <1>3, <1>4, <1>5

LEMMA ReadPCDataFollows ==
  ASSUME NEW p, Stands(p), NEW c
  PROVE  Follows(ReadPCData(p, c))
<1>1. CASE c = "<"
  <2> DEFINE P == ChangeReader(p, "LBracket", <<>>)
  <2>1. ReadPCData(p, c) = [P EXCEPT !.bracket = TRUE]
    BY <1>1 DEF ReadPCData
  <2>2. Follows(P)
    BY ChangeReaderFollows
  <2> HIDE DEF P
  <2>3. Follows(P) => Follows([P EXCEPT !.bracket = TRUE])
    BY NotedFollows
  <2> QED
    BY <2>1, <2>2, <2>3
<1>2. CASE c # "<"
  <2>1. ReadPCData(p, c) = Hold(p, c)
    BY <1>2 DEF ReadPCData
  <2> QED
    BY <2>1, HoldStands, StandsFollows
<1> QED
  BY <1>1, <1>2

LEMMA ReadLBracketFollows ==
  ASSUME NEW p, Stands(p), p.reader = "LBracket", NEW c
  PROVE  Follows(ReadLBracket(p, c))
<1>1. CASE ~p.bracket
  <2> DEFINE k == (c = "<")
  <2>1. ReadLBracket(p, c) = [p EXCEPT !.bracket = k]
    BY <1>1 DEF ReadLBracket
  <2> HIDE DEF k
  <2>2. Follows(p) => Follows([p EXCEPT !.bracket = k])
    BY NotedFollows
  <2> QED
    BY <2>1, <2>2, StandsFollows
<1>2. CASE p.bracket /\ c \in DOMAIN AfterBracket
  <2> DEFINE r == AfterBracket[c]
  <2>1. ReadLBracket(p, c) = ChangeReader(p, r, <<>>)
    BY <1>2, Zenon DEF ReadLBracket
  <2> HIDE DEF r
  <2> QED
    BY <2>1, ChangeReaderFollows
<1>3. CASE p.bracket /\ c \notin DOMAIN AfterBracket /\ IsNameChar(p.encoding, c) /\ c = ">"
  <2> DEFINE P == ChangeReader(p, "PCData", <<>>)
  <2>1. ReadLBracket(p, c) = ChangeReader(P, "STag", <<>>)
    BY <1>3, Zenon DEF ReadLBracket
  <2>2. Stands(P)
    BY ChangeReaderFollows
  <2> HIDE DEF P
  <2> QED
    BY <2>1, <2>2, ChangeReaderFollows
<1>4. CASE p.bracket /\ c \notin DOMAIN AfterBracket /\ IsNameChar(p.encoding, c) /\ c # ">"
  <2> DEFINE P == IF c = "<" THEN SetError(p, "illegal char") ELSE p
             b == IF c = "<" THEN <<>> ELSE <<c>>
             u == IF c \in {"'", "\""} THEN c ELSE ""
             Q == ChangeReader(P, "STag", b)
  <2>1. ReadLBracket(p, c) = [Q EXCEPT !.quote = u]
    BY <1>4, Zenon DEF ReadLBracket
  <2>2. Stands(P)
    BY SetErrorStands
  <2> HIDE DEF P, b, u
  <2>3. Follows(Q)
    BY <2>2, ChangeReaderFollows
  <2> HIDE DEF Q
  <2>4. Follows(Q) => Follows([Q EXCEPT !.quote = u])
    BY NotedFollows
  <2> QED
    BY <2>1, <2>3, <2>4
<1>5. CASE p.bracket /\ c \notin DOMAIN AfterBracket /\ ~IsNameChar(p.encoding, c)
  <2>1. ReadLBracket(p, c) = SetError(p, "not well-formed")
    BY <1>5, Zenon DEF ReadLBracket
  <2> QED
    BY <2>1, SetErrorStands, StandsFollows
<1> QED
  BY <1>1, <1>2, <1>3, <1>4, <1>5

LEMMA ReadFollows ==
  ASSUME NEW p, Stands(p), NEW c, p.reader \in Readers
  PROVE  Follows(Read(p, c))
<1>1. \A reader, fed : Follows(ChangeReader(p, reader, fed))
  BY ChangeReaderFollows
<1>2. Follows(Hold(p, c)) /\ \A what : Follows(SetError(p, what))
  BY HoldStands, SetErrorStands, StandsFollows
<1>3. CASE p.reader = "PI"
  BY <1>1, <1>2, <1>3, Zenon DEF Read, ReadPI
<1>4. CASE p.reader = "STag"
  BY <1>4, ReadSTagFollows, Zenon DEF Read
<1>5. CASE p.reader = "ETag"
  BY <1>1, <1>2, <1>5, Zenon DEF Read, ReadETag
<1>6. CASE p.reader = "PCData"
  BY <1>6, ReadPCDataFollows, Zenon DEF Read
<1>7. CASE p.reader = "CDataSection"
  BY <1>1, <1>2, <1>7, Zenon DEF Read, ReadCDataSection
<1>8. CASE p.reader = "Comment"
  BY <1>1, <1>2, <1>8, Zenon DEF Read, ReadComment
<1>9. CASE p.reader = "DocType"
  BY <1>1, <1>2, <1>9, Zenon DEF Read, ReadDocType
<1>10. CASE p.reader = "LBracket"
  BY <1>10, ReadLBracketFollows, Zenon DEF Read
<1>11. CASE p.reader = "Sign"
  <2>1. Read(p, c) = ReadSign(p, c)
    BY <1>11, Zenon DEF Read
  <2> QED
    BY <1>1, <1>2, <2>1, Zenon DEF ReadSign
<1> QED
  BY <1>3, <1>4, <1>5, <1>6, <1>7, <1>8, <1>9, <1>10, <1>11 DEF Readers

LEMMA FeedFollows ==
  ASSUME NEW p, Follows(p), NEW c, p.reader \in Readers
  PROVE  Follows(Feed(p, c)) /\ Feed(p, c).reader \in Readers
<1>1. IsParser(p)
  BY DEF Follows, Sane
<1>2. CASE ~Ready(p)
  <2>1. Feed(p, c) = p
    BY <1>1, <1>2, FeedCounts
  <2> QED
    BY <2>1
<1>3. CASE Ready(p)
  <2> DEFINE o == Counted(p, c)
             R == Read(o, c)
  <2>1. PICK r, x : Feed(p, c) = Placed(R, r, x)
    BY <1>3, FeedIs
  <2>2. Stands(p)
    BY <1>3 DEF Follows, Stands, Ready
  <2>3. IsParser(o) /\ o.queue = p.queue /\ o.tags = p.tags /\ o.reader = p.reader
    BY <1>1 DEF Counted, IsParser, ParserFields
  <2> HIDE DEF o
  <2>4. Stands(o)
    BY <2>2, <2>3, Unmoved
  <2>5. Follows(R) /\ R.reader \in Readers
    BY <2>3, <2>4, ReadFollows, NextReader
  <2> HIDE DEF R
  <2> DEFINE P == Placed(R, r, x)
  <2>6. IsParser(P) /\ P.queue = R.queue /\ P.tags = R.tags /\ P.error = R.error /\ P.reader = R.reader
    BY <2>5 DEF Follows, Sane, IsParser, ParserFields, Placed
  <2> HIDE DEF P
  <2>7. Follows(P)
    BY <2>5, <2>6, Unmoved
  <2> QED
    BY <2>1, <2>5, <2>6, <2>7 DEF P
<1> QED
  BY <1>2, <1>3

LEMMA FeedAllFollows ==
  ASSUME NEW p, Follows(p), p.reader \in Readers, NEW text, IsSeq(text)
  PROVE  Follows(FeedAll(p, text))
<1> DEFINE n == Len(text)
<1>1. n \in Nat
  BY DEF IsSeq
<1>2. PICK f : Fed(Feeding, p, text, f)
  BY <1>1, FedExists
<1>3. /\ f[0] = p
      /\ \A i \in 0..(Len(text) - 1) : f[i + 1] = Feed(f[i], text[i + 1])
      /\ FeedAll(p, text) = f[Len(text)]
  BY <1>1, <1>2, FeedSteps
<1> DEFINE S == {i \in 0..n : Follows(f[i]) /\ f[i].reader \in Readers}
<1>4. 0 \in S
  BY <1>1, <1>3
<1>5. ASSUME NEW i \in 0..(n - 1), i \in S PROVE i + 1 \in S
  <2>1. Follows(f[i]) /\ f[i].reader \in Readers
    BY <1>5
  <2>2. Follows(Feed(f[i], text[i + 1])) /\ Feed(f[i], text[i + 1]).reader \in Readers
    BY <2>1, FeedFollows
  <2>3. f[i + 1] = Feed(f[i], text[i + 1]) /\ i + 1 \in 0..n
    BY <1>1, <1>3
  <2> QED
    BY <2>2, <2>3
<1>6. \A i \in 0..n : i \in S
  <2> HIDE DEF S
  <2> QED
    BY <1>1, <1>4, <1>5, UpTo
<1>7. n \in 0..n
  BY <1>1
<1> QED
  BY <1>3, <1>6, <1>7

LEMMA NewParserFollows ==
  ASSUME NEW ignore
  PROVE  Follows(NewParser(ignore)) /\ NewParser(ignore).reader \in Readers
<1> DEFINE P == NewParser(ignore)
           e == StartDocument
<1>1. P.queue = <<e>> /\ P.tags = <<>> /\ P.reader = "LBracket" /\ IsParser(P)
  <2>1. IsSeq(<<e>>)
    BY DEF IsSeq
  <2> QED
    BY <2>1 DEF NewParser, IsParser, ParserFields, Roots
<1>2. e.type = "StartDocument"
  BY DEF StartDocument
<1>3. IsSeq(<<>>) /\ <<e>> = Append(<<>>, e) /\ Len(<<>>) \in Nat
  BY DEF IsSeq
<1> HIDE DEF P, e
<1>4. BuildTree(NewBuilder, <<>>) = NewBuilder /\ Run(LevelAfter, 0, <<>>) = 0
  <2>1. Result(Building, NewBuilder, <<>>) = NewBuilder /\ Result(Levelling, 0, <<>>) = 0
    BY FedNothing
  <2>2. BuildTree(NewBuilder, <<>>) = Result(Building, NewBuilder, <<>>)
    BY <1>3, BuildTreeIs
  <2>3. Run(LevelAfter, 0, <<>>) = Result(Levelling, 0, <<>>)
    BY <1>3, LevelIs
  <2> QED
    BY <2>1, <2>2, <2>3
<1>5. Built(P) = Build(NewBuilder, e)
  <2> DEFINE none == <<>>
  <2>1. IsSeq(none) /\ P.queue = Append(none, e) /\ BuildTree(NewBuilder, none) = NewBuilder
    BY <1>1, <1>3, <1>4
  <2> HIDE DEF none
  <2>2. BuildTree(NewBuilder, Append(none, e)) = Build(BuildTree(NewBuilder, none), e)
    BY <2>1, BuildMore
  <2> QED
    BY <2>1, <2>2 DEF Built
<1>6. Level(P) = LevelAfter(0, e)
  <2> DEFINE none == <<>>
  <2>1. IsSeq(none) /\ P.queue = Append(none, e) /\ Run(LevelAfter, 0, none) = 0
    BY <1>1, <1>3, <1>4
  <2> HIDE DEF none
  <2>2. \A l : Run(LevelAfter, l, Append(none, e)) = LevelAfter(Run(LevelAfter, l, none), e)
    BY <2>1, LevelMore, Zenon
  <2> QED
    BY <2>1, <2>2 DEF Level
<1>7. Built(P) = NewBuilder
  <2>1. e.type \notin {"DocDecl", "DocType", "StartTag", "EndTag", "CData", "Comment", "PI"}
    BY <1>2
  <2>2. Build(NewBuilder, e) = NewBuilder
    BY <2>1, Zenon DEF Build
  <2> QED
    BY <1>5, <2>2
<1>8. Level(P) = 0
  <2>1. e.type # "StartTag" /\ e.type # "EndTag"
    BY <1>2
  <2> QED
    BY <1>6, <2>1, Zenon DEF LevelAfter
<1>9. Len(P.tags) = 0
  BY <1>1
<1>10. Follows(P)
  BY <1>1, <1>7, <1>8, <1>9, NewBuilderSound DEF Follows, Sane, InStep
<1>11. P.reader \in Readers
  BY <1>1 DEF Readers
<1> QED
  BY <1>10, <1>11 DEF P

LEMMA ParsedFollows ==
  ASSUME NEW ignore, NEW text, IsSeq(text)
  PROVE  Follows(Parsed(ignore, text))
<1> DEFINE p == NewParser(ignore)
<1>1. Follows(p) /\ p.reader \in Readers
  BY NewParserFollows
<1> HIDE DEF p
<1>2. Follows(FeedAll(p, text))
  BY <1>1, FeedAllFollows
<1> QED
  BY <1>2 DEF Parsed, p

LEMMA BuiltIs ==
  ASSUME XmlInv
  PROVE  LET P == Parsed(parser.ignore, input)
         IN  Follows(P) /\ Built(P) = [dom |-> dom, current |-> current]
<1>1. IsSeq(input) /\ AsInOne(parser, input, dom, current)
  BY DEF XmlInv
<1> DEFINE P == Parsed(parser.ignore, input)
<1>2. Follows(P)
  BY <1>1, ParsedFollows
<1>3. [dom |-> dom, current |-> current] = BuildTree(NewBuilder, P.queue)
  BY <1>1 DEF AsInOne
<1> QED
  BY <1>2, <1>3 DEF Built

(* Whatever a caller appends and however it is cut, every node of the       *)
(* document hangs where its parent pointer says and nowhere else, one root  *)
(* element at most is left of all those the source brings, and the element  *)
(* under construction is below it (SP_XmlDomParser::buildTree with          *)
(* setRootElement, setDocDecl, setDocType and addChild): for every set of   *)
(* chunks and any number of appends.                                        *)
THEOREM TreeAlwaysSound == Spec => []TreeIsSound
<1>1. XmlInv => TreeIsSound
  <2> SUFFICES ASSUME XmlInv PROVE TreeIsSound
    OBVIOUS
  <2> DEFINE P == Parsed(parser.ignore, input)
  <2>1. Follows(P) /\ Built(P) = [dom |-> dom, current |-> current]
    BY BuiltIs
  <2> HIDE DEF P
  <2>2. SoundBuilder([dom |-> dom, current |-> current])
    BY <2>1 DEF Follows, Sane
  <2> QED
    BY <2>2, SoundTree
<1> QED
  BY <1>1, XmlAlways, PTL

(* The level is the one the events of all the input make.                   *)
LevelInv == parser.level = Level(Parsed(parser.ignore, input))

LEMMA LevelInit == Init => LevelInv
<1> SUFFICES ASSUME Init PROVE LevelInv
  OBVIOUS
<1>1. PICK ignore \in BOOLEAN : parser = Drain(NewParser(ignore))
  BY DEF Init
<1> DEFINE P == NewParser(ignore)
           l == Run(LevelAfter, P.level, P.queue)
<1>2. P.level = 0 /\ P.ignore = ignore /\ IsParser(P)
  <2>1. IsParser(P)
    BY NewParserFollows DEF Follows, Sane
  <2> QED
    BY <2>1 DEF NewParser
<1>3. Parsed(ignore, <<>>) = P
  <2>1. Len(<<>>) \in Nat
    OBVIOUS
  <2>2. Result(Feeding, P, <<>>) = P
    BY FedNothing
  <2> HIDE DEF P
  <2>3. FeedAll(P, <<>>) = Result(Feeding, P, <<>>)
    BY <2>1, FeedAllIs
  <2> QED
    BY <2>2, <2>3 DEF Parsed, P
<1> HIDE DEF P
<1>4. parser = [P EXCEPT !.queue = <<>>, !.level = l]
  BY <1>1 DEF Drain, P
<1>5. l = Level(P)
  BY <1>2 DEF Level
<1> HIDE DEF l
<1>6. parser.level = l /\ parser.ignore = ignore
  BY <1>2, <1>4 DEF IsParser, ParserFields
<1>7. input = <<>>
  BY DEF Init
<1> QED
  BY <1>3, <1>5, <1>6, <1>7 DEF LevelInv

LEMMA LevelAppend ==
  ASSUME XmlInv, LevelInv, NEW chunk \in Chunks, AppendChunk(chunk)
  PROVE  LevelInv'
<1> DEFINE p == FeedAll(parser, chunk)
           P == Parsed(parser.ignore, input)
           W == Parsed(parser.ignore, input \o chunk)
           l == Run(LevelAfter, p.level, p.queue)
<1>1. parser' = [Drain(p) EXCEPT !.fault = "no"] /\ input' = input \o chunk
  BY DEF AppendChunk
<1>2. /\ parser.reader \in Readers /\ IsSeq(input) /\ Alike(parser, P, P.queue)
  BY DEF XmlInv, AsInOne
<1>3. IsSeq(chunk)
  BY ChunksAssumption, SeqIs
<1>4. W = FeedAll(P, chunk)
  BY <1>2, <1>3, FeedOn DEF Parsed
<1>5. parser.level = Level(P)
  BY DEF LevelInv
<1> HIDE DEF P
<1>6. Alike(p, W, P.queue) /\ p.ignore = parser.ignore /\ p.level = parser.level
  BY <1>2, <1>3, <1>4, FeedAllAlike
<1>7. parser' = [p EXCEPT !.queue = <<>>, !.level = l, !.fault = "no"]
  <2>1. Drain(p) = [p EXCEPT !.queue = <<>>, !.level = l]
    BY DEF Drain
  <2> HIDE DEF p, l
  <2> QED
    BY <1>1, <2>1
<1> HIDE DEF p, W
<1>8. IsParser(p) /\ IsSeq(p.queue) /\ IsSeq(P.queue) /\ W.queue = P.queue \o p.queue
  BY <1>6 DEF Alike, IsParser
<1>9. Level(W) = l
  <2>1. Run(LevelAfter, 0, P.queue \o p.queue) = Run(LevelAfter, Run(LevelAfter, 0, P.queue), p.queue)
    BY <1>8, LevelOn
  <2> QED
    BY <1>5, <1>6, <1>8, <2>1 DEF Level
<1> HIDE DEF l
<1>10. parser'.level = l /\ parser'.ignore = p.ignore
  BY <1>7, <1>8 DEF IsParser, ParserFields
<1> QED
  BY <1>1, <1>6, <1>9, <1>10 DEF LevelInv, W

LEMMA LevelNext == XmlInv /\ LevelInv /\ [Next]_vars => LevelInv'
<1> SUFFICES ASSUME XmlInv, LevelInv, [Next]_vars PROVE LevelInv'
  OBVIOUS
<1>1. CASE UNCHANGED <<parser, input>>
  BY <1>1 DEF LevelInv
<1>2. CASE \E chunk \in Chunks : AppendChunk(chunk)
  BY <1>2, LevelAppend
<1>3. CASE \E chunk \in Chunks : Fault(chunk)
  BY <1>1, <1>3 DEF Fault
<1>4. CASE Iterate
  BY <1>1, <1>4 DEF Iterate
<1>5. CASE GetNext
  BY <1>1, <1>5 DEF GetNext
<1>6. CASE UNCHANGED vars
  BY <1>1, <1>6 DEF vars
<1> QED
  BY <1>2, <1>3, <1>4, <1>5, <1>6 DEF Next

(* While the parser has met no error, the elements from the root down to    *)
(* the one under construction have the names of the open start tags, in     *)
(* order, and getLevel tells their number: the stack changeReader keeps and *)
(* the tree buildTree makes of the queued events never part, whatever the   *)
(* source, also when a later root replaces the first.                       *)
THEOREM BuilderAlwaysFollows == Spec => []BuilderFollowsParser
<1>1. XmlInv /\ LevelInv => BuilderFollowsParser
  <2> SUFFICES ASSUME XmlInv, LevelInv, parser.error = ""
               PROVE  OpenNames(dom, current) = parser.tags /\ parser.level = Len(parser.tags)
    BY DEF BuilderFollowsParser
  <2> DEFINE P == Parsed(parser.ignore, input)
             b == [dom |-> dom, current |-> current]
  <2>1. Follows(P) /\ Built(P) = b
    BY BuiltIs
  <2>2. Alike(parser, P, P.queue) /\ parser.level = Level(P)
    BY DEF XmlInv, AsInOne, LevelInv
  <2>3. b.dom = dom /\ b.current = current
    OBVIOUS
  <2> HIDE DEF P, b
  <2>4. P.error = "" /\ P.tags = parser.tags
    BY <2>2 DEF Alike
  <2>5. BuilderNames(b) = parser.tags /\ Level(P) = Len(parser.tags)
    BY <2>1, <2>4 DEF Follows, InStep
  <2> QED
    BY <2>2, <2>3, <2>5 DEF BuilderNames
<1>2. Spec => []LevelInv
  BY LevelInit, LevelNext, XmlAlways, PTL DEF Spec
<1> QED
  BY <1>1, <1>2, XmlAlways, PTL
-----------------------------------------------------------------------------
(* The iterator stays in the document.                                      *)
Known(d) == Nodes(d) \cup {Null}

LEMMA AsideKnown ==
  ASSUME NEW d, AsideRight(d)
  PROVE  d.decl \in Known(d) /\ d.type \in Known(d) /\ Root(d) \in Known(d) /\ Doc \in Nodes(d)
<1> DEFINE U == Aside(d)
<1>1. Tree(d, U)
  BY DEF AsideRight
<1>2. U \subseteq Nodes(d) \ {Doc} /\ Doc \in Nodes(d)
  BY <1>1, TreeParts
<1>3. Root(d) # Null => Root(d) \in Nodes(d) \ U
  BY <1>1, RootIs
<1> QED
  BY <1>2, <1>3 DEF Known, Aside

LEMMA KidsKnown ==
  ASSUME NEW d, NEW U, Tree(d, U), NEW n \in Nodes(d)
  PROVE  /\ Len(Kids(d, n)) \in Nat
         /\ \A i \in 1..Len(Kids(d, n)) : Kids(d, n)[i] \in Nodes(d)
         /\ FirstKid(d, n) \in Known(d)
<1> DEFINE s == Kids(d, n)
<1>1. s \in Seq(Nodes(d))
  BY DEF Tree, KidsRight, Listed
<1>2. FirstKid(d, n) = IF s = <<>> THEN Null ELSE Head(s)
  BY DEF FirstKid
<1> HIDE DEF s
<1>3. Len(s) \in Nat /\ \A i \in 1..Len(s) : s[i] \in Nodes(d)
  BY <1>1
<1>4. s # <<>> => Head(s) \in Nodes(d)
  BY <1>1
<1> QED
  BY <1>2, <1>3, <1>4 DEF Known, s

LEMMA SiblingKnown ==
  ASSUME NEW d, AsideRight(d), NEW n, NEW parent \in Nodes(d)
  PROVE  Sibling(d, n, parent) \in Known(d)
<1>1. /\ d.type \in Known(d) /\ Root(d) \in Known(d) /\ Null \in Known(d)
      /\ Nodes(d) \subseteq Known(d)
  BY AsideKnown DEF Known
<1>2. /\ Len(Kids(d, parent)) \in Nat
      /\ \A i \in 1..Len(Kids(d, parent)) : Kids(d, parent)[i] \in Nodes(d)
  BY KidsKnown DEF AsideRight
<1>3. CASE parent = Doc
  BY <1>1, <1>3 DEF Sibling
<1>4. CASE parent # Doc
  <2> DEFINE s == Kids(d, parent)
             at == SelectInSeq(s, LAMBDA k : k = n)
  <2>1. Sibling(d, n, parent) = IF at \in 1..(Len(s) - 1) THEN s[at + 1] ELSE Null
    BY <1>4 DEF Sibling
  <2> HIDE DEF at, s
  <2>2. at \in 1..(Len(s) - 1) => s[at + 1] \in Nodes(d)
    <3> HAVE at \in 1..(Len(s) - 1)
    <3>1. at + 1 \in 1..Len(s)
      BY <1>2 DEF s
    <3> QED
      BY <1>2, <3>1 DEF s
  <2> QED
    BY <1>1, <2>1, <2>2
<1> QED
  BY <1>3, <1>4

LEMMA OnwardKnown ==
  ASSUME NEW d, AsideRight(d), NEW start, NEW from \in Nodes(d)
  PROVE  Onward(d, start, from) \in Known(d)
<1> DEFINE N == Nodes(d)
           K == Known(d)
           w == Onwards(start)
           Q(g) == g = [m \in N |-> [n \in N \cup {Null} |->
                          IF Sibling(d, n, m) # Null THEN Sibling(d, n, m)
                          ELSE IF d.node[m].parent = Null THEN Null
                          ELSE g[d.node[m].parent][IF m = start THEN Null ELSE m]]]
           up == CHOOSE g : Q(g)
           U == Aside(d)
<1>1. Tree(d, U)
  BY DEF AsideRight
<1> HIDE DEF U
<1>2. PICK f : Climbed(w, d, N \cup {Null}, f)
  BY <1>1, ClimbExists
<1>3. Null \notin N /\ \A m \in N : ParentOf(d, m) \in N \cup {Null}
  <2>1. Null \notin N /\ ParentOf(d, Doc) = Null
    BY <1>1, TreeParts DEF Tree
  <2>2. \A m \in N \ {Doc} : ParentOf(d, m) \in N \cup {Null}
    BY <1>1 DEF Tree, ParentsRight
  <2> QED
    BY <2>1, <2>2
<1>4. w # Ancestry /\ w # Naming /\ w.start = start
  <2>1. w.kind = "onwards" /\ Ancestry.kind = "ancestry" /\ Naming.kind = "naming"
    BY DEF Onwards, Ancestry, Naming
  <2> QED
    BY <2>1 DEF Onwards
<1> HIDE DEF w
<1> DEFINE On(g, m) == [n \in N \cup {Null} |->
                          IF Sibling(d, n, m) # Null THEN Sibling(d, n, m)
                          ELSE IF ParentOf(d, m) = Null THEN Null
                          ELSE g[ParentOf(d, m)][IF m = start THEN Null ELSE m]]
           g0 == [m \in N |-> f[m]]
<1>5. \A m \in N : f[m] = On(f, m)
  <2> TAKE m \in N
  <2>1. f[m] = Adds(w, d, m, f[ParentOf(d, m)])
    BY <1>2, <1>3, Zenon DEF Climbed
  <2> QED
    BY <1>4, <2>1, Zenon DEF Adds
<1>6. \A m \in N : On(g0, m) = On(f, m)
  BY <1>3
<1>7. Q(g0)
  <2>1. \A m \in N : g0[m] = On(g0, m)
    BY <1>5, <1>6
  <2>2. g0 = [m \in N |-> On(g0, m)]
    <3>1. g0 = [m \in N |-> g0[m]]
      OBVIOUS
    <3> HIDE DEF g0, On
    <3> QED
      BY <2>1, <3>1
  <2> QED
    BY <2>2 DEF ParentOf
<1>8. Q(up)
  <2> HIDE DEF Q, g0
  <2> QED
    BY <1>7
<1>9. Onward(d, start, from) = IF ParentOf(d, from) = Null THEN from ELSE up[ParentOf(d, from)][from]
  BY Zenon DEF Onward, ParentOf
<1> HIDE DEF up
<1>10. \A m \in N : up[m] = On(up, m)
  BY <1>8 DEF ParentOf
<1> DEFINE S == {m \in N : \A n \in N \cup {Null} : up[m][n] \in K}
<1>11. ASSUME NEW m \in N, ParentOf(d, m) = Null \/ ParentOf(d, m) \in S PROVE m \in S
  <2>1. ASSUME NEW n \in N \cup {Null} PROVE up[m][n] \in K
    <3>1. up[m][n] = IF Sibling(d, n, m) # Null THEN Sibling(d, n, m)
                     ELSE IF ParentOf(d, m) = Null THEN Null
                     ELSE up[ParentOf(d, m)][IF m = start THEN Null ELSE m]
      BY <1>10
    <3>2. Sibling(d, n, m) \in K
      BY SiblingKnown
    <3>3. ParentOf(d, m) # Null => up[ParentOf(d, m)][IF m = start THEN Null ELSE m] \in K
      BY <1>11
    <3> QED
      BY <3>1, <3>2, <3>3 DEF Known
  <2> QED
    BY <2>1
<1>12. \A m \in N : m \in S
  <2> HIDE DEF S
  <2> QED
    BY <1>1, <1>11, FromParents
<1> QED
  BY <1>3, <1>9, <1>12 DEF Known

LEMMA NextKnown ==
  ASSUME NEW d, AsideRight(d), NEW start, NEW n \in Nodes(d)
  PROVE  LET next == NextOf(d, start, n)
         IN  next.at \in Known(d) /\ next.ret \in Known(d)
<1> DEFINE first == IF d.decl # Null THEN d.decl ELSE IF d.type # Null THEN d.type ELSE Root(d)
           ret == IF n = Doc THEN first ELSE n
           down == IF n = Doc THEN (IF first # Null /\ first = Root(d) THEN FirstKid(d, first) ELSE Null)
                   ELSE IF IsElement(d, n) THEN FirstKid(d, n) ELSE Null
           at == IF down # Null THEN down ELSE IF ret = Null THEN Null ELSE Onward(d, start, ret)
<1>1. NextOf(d, start, n) = [ret |-> ret, at |-> at]
  BY Zenon DEF NextOf
<1>2. first \in Known(d) /\ ret \in Known(d) /\ Null \in Known(d)
  BY AsideKnown DEF Known
<1>3. \A m \in Nodes(d) : FirstKid(d, m) \in Known(d)
  BY KidsKnown DEF AsideRight
<1> HIDE DEF first
<1>4. down \in Known(d)
  BY <1>2, <1>3 DEF Known
<1> HIDE DEF down, ret
<1>5. ret # Null => Onward(d, start, ret) \in Known(d)
  <2> HAVE ret # Null
  <2>1. ret \in Nodes(d)
    BY <1>2 DEF Known
  <2> QED
    BY <2>1, OnwardKnown
<1>6. at \in Known(d)
  BY <1>2, <1>4, <1>5
<1> HIDE DEF at
<1> QED
  BY <1>1, <1>2, <1>6

(* What the caller's own steps keep.                                        *)
WalkInv ==
  /\ phase \in {"append", "walk", "done", "fault"}
  /\ appended \in 0..MaxChunks
  /\ phase = "append" => walker = Null /\ visited = <<>>
  /\ walker \in Known(dom)
  /\ Len(visited) \in Nat
  /\ visited \in Seq(Nodes(dom))

LEMMA BuilderSound ==
  ASSUME XmlInv
  PROVE  AsideRight(dom) /\ current \in Known(dom) /\ parser.root \in Roots
<1> DEFINE P == Parsed(parser.ignore, input)
           b == [dom |-> dom, current |-> current]
<1>1. Follows(P) /\ Built(P) = b
  BY BuiltIs
<1>2. Alike(parser, P, P.queue)
  BY DEF XmlInv, AsInOne
<1>3. b.dom = dom /\ b.current = current
  OBVIOUS
<1> HIDE DEF P, b
<1>4. SoundBuilder(b)
  BY <1>1 DEF Follows, Sane
<1>5. AsideRight(dom) /\ current \in Known(dom)
  BY <1>3, <1>4 DEF SoundBuilder, Known
<1>6. parser.root \in Roots
  BY <1>2 DEF Alike, IsParser
<1> QED
  BY <1>5, <1>6

LEMMA WalkInit == Init => WalkInv
<1> SUFFICES ASSUME Init PROVE WalkInv
  OBVIOUS
<1>1. phase = "append" /\ appended = 0 /\ walker = Null /\ visited = <<>>
  BY DEF Init
<1>2. 0 \in 0..MaxChunks
  BY ChunksAssumption
<1> QED
  BY <1>1, <1>2 DEF WalkInv, Known

LEMMA WalkNext == XmlInv /\ WalkInv /\ [Next]_vars => WalkInv'
<1> SUFFICES ASSUME XmlInv, WalkInv, [Next]_vars PROVE WalkInv'
  OBVIOUS
<1>1. AsideRight(dom)
  BY BuilderSound
<1>2. CASE \E chunk \in Chunks : AppendChunk(chunk)
  <2>1. PICK chunk \in Chunks : AppendChunk(chunk)
    BY <1>2
  <2>2. phase = "append" /\ appended < MaxChunks /\ appended' = appended + 1
        /\ phase' = phase /\ walker' = walker /\ visited' = visited
    BY <2>1 DEF AppendChunk
  <2>3. appended' \in 0..MaxChunks
    BY <2>2, ChunksAssumption DEF WalkInv
  <2>4. walker' = Null /\ visited' = <<>> /\ phase' = "append"
    BY <2>2 DEF WalkInv
  <2> QED
    BY <2>3, <2>4 DEF WalkInv, Known
<1>3. CASE \E chunk \in Chunks : Fault(chunk)
  BY <1>3 DEF Fault, WalkInv, Known, Nodes
<1>4. CASE Iterate
  <2>1. Start(dom) \in Known(dom)
    BY <1>1, AsideKnown DEF Start, Known
  <2>2. /\ phase' = "walk" /\ walker' = Start(dom)
        /\ dom' = dom /\ appended' = appended /\ visited' = visited
    BY <1>4 DEF Iterate
  <2> HIDE DEF Start
  <2> QED
    BY <2>1, <2>2 DEF WalkInv, Known, Nodes
<1>5. CASE GetNext
  <2> DEFINE next == NextOf(dom, Start(dom), walker)
  <2>1. /\ phase = "walk" /\ dom' = dom /\ appended' = appended
        /\ \/ phase' = "done" /\ walker' = Null /\ visited' = visited
           \/ /\ walker # Null /\ next.ret # Null
              /\ walker' = next.at /\ visited' = Append(visited, next.ret) /\ phase' = phase
    BY <1>5 DEF GetNext
  <2>2. walker # Null => next.at \in Known(dom) /\ next.ret \in Known(dom)
    <3> DEFINE s == Start(dom)
    <3> HIDE DEF s
    <3> HAVE walker # Null
    <3>1. walker \in Nodes(dom)
      BY DEF WalkInv, Known
    <3>2. NextOf(dom, s, walker).at \in Known(dom) /\ NextOf(dom, s, walker).ret \in Known(dom)
      BY <1>1, <3>1, NextKnown
    <3> QED
      BY <3>2 DEF s
  <2> HIDE DEF next
  <2>3. Known(dom') = Known(dom) /\ Nodes(dom') = Nodes(dom)
    BY <2>1
  <2>4. CASE phase' = "done" /\ walker' = Null /\ visited' = visited
    BY <2>1, <2>3, <2>4 DEF WalkInv, Known
  <2>5. CASE /\ walker # Null /\ next.ret # Null
             /\ walker' = next.at /\ visited' = Append(visited, next.ret) /\ phase' = phase
    <3>1. next.ret \in Nodes(dom) /\ next.at \in Known(dom)
      BY <2>2, <2>5 DEF Known
    <3>2. visited' \in Seq(Nodes(dom)) /\ Len(visited') \in Nat
      BY <2>5, <3>1 DEF WalkInv
    <3> QED
      BY <2>1, <2>3, <2>5, <3>1, <3>2 DEF WalkInv
  <2> QED
    BY <2>1, <2>4, <2>5
<1>6. CASE UNCHANGED vars
  BY <1>6 DEF vars, WalkInv, Known, Nodes
<1> QED
  BY <1>2, <1>3, <1>4, <1>5, <1>6 DEF Next

(* Builder and iterator only ever point at nodes that are in the document:  *)
(* none that was deleted with a root that another replaced, and none that   *)
(* getNext makes up; and between two appends the parser has handed out all  *)
(* its events and is in one of its readers.                                 *)
THEOREM TypeAlwaysOK == Spec => []TypeOK
<1>1. XmlInv /\ WalkInv => TypeOK
  <2> SUFFICES ASSUME XmlInv, WalkInv PROVE TypeOK
    OBVIOUS
  <2>1. AsideRight(dom) /\ current \in Known(dom) /\ parser.root \in Roots
    BY BuilderSound
  <2>2. dom.decl \in Known(dom) /\ dom.type \in Known(dom) /\ Doc \in Nodes(dom)
    BY <2>1, AsideKnown
  <2>3. parser.reader \in Readers /\ parser.queue = <<>> /\ parser.fault = "no"
    BY DEF XmlInv
  <2>4. \A i \in DOMAIN visited : visited[i] \in Nodes(dom)
    BY DEF WalkInv
  <2> QED
    BY <2>1, <2>2, <2>3, <2>4 DEF TypeOK, WalkInv, Known, Roots, Readers
<1>2. Spec => []WalkInv
  BY WalkInit, WalkNext, XmlAlways, PTL DEF Spec
<1> QED
  BY <1>1, <1>2, XmlAlways, PTL
=============================================================================
