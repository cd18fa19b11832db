------------------------------ MODULE EpgFile -------------------------------
(***************************************************************************)
(* Converting to an ENIGMA_EPG_V7 file: the loaders of EpgStore, then      *)
(* epg::saveepg with eventData::get_v7 and eventData::save, which write    *)
(* every service's events by start time and, after them, the descriptor    *)
(* table that writing the events filled.                                   *)
(***************************************************************************)
EXTENDS EpgStore

VARIABLES
  stage,               \* "idle", "events", "done" or "aborted"
  target,              \* byte order of the target file
  descriptors_target,  \* eventData::descriptors_target
  v7,                  \* EITdata_v7 of the events that have one
  written,             \* the records written so far, by service
  writing,             \* the service whose events are being written
  table                \* the descriptor table in the file: id -> count

saveVars == <<stage, target, descriptors_target, v7, written, writing, table>>
fileVars == <<vars, saveVars>>

FileInit ==
  /\ Init
  /\ stage = "idle" /\ target = "B"
  /\ descriptors_target = Empty /\ v7 = Empty
  /\ written = Empty /\ writing = None /\ table = Empty

(* The descriptors of the table a list of ids finds, up to each id.         *)
Found(ids) ==
  LET upTo[n \in 0..Len(ids)] ==
        IF n = 0 THEN <<>>
        ELSE IF ids[n] \in DOMAIN descriptors
               THEN Append(upTo[n - 1], descriptors[ids[n]].bytes)
        ELSE upTo[n - 1]
  IN upTo

(* Where each descriptor of a loop ends. *)
Ends(data) ==
  LET end[n \in 0..Len(data)] == IF n = 0 THEN 0 ELSE end[n - 1] + Len(data[n])
  IN end

(* The nibble that counts the full LenMod of a loop, and what get_v7 takes  *)
(* for it: of byte 10 it reads the upper half, in which a little-endian     *)
(* file has the nibble and a big-endian one the status bits.                *)
TrueHigh(e) == Ends(e.data)[Len(e.data)] \div LenMod
HighRead(e) == IF e.order = "B" THEN e.status ELSE TrueHigh(e)

Misread(e) == e.inline /\ HighRead(e) # TrueHigh(e)

(* The descriptors of a loop that begin before a length. *)
Before(data, len) ==
  LET behind == {i \in DOMAIN data : Ends(data)[i - 1] >= len}
  IN IF behind = {} THEN data ELSE SubSeq(data, 1, Min(behind) - 1)

(* The descriptors get_v7 finds in a V5 event, by the length it reads. *)
Taken(e) ==
  CASE HighRead(e) = TrueHigh(e) -> e.data
    [] HighRead(e) < TrueHigh(e) ->
         Before(e.data, HighRead(e) * LenMod + (Ends(e.data)[Len(e.data)] % LenMod))
    [] OTHER -> e.data \o e.behind

(* The descriptors an event refers to: its own, or those of the table whose *)
(* ids it lists, as long as they are read in the byte order they are in.    *)
Resolved(e) ==
  CASE e.inline -> Taken(e)
    [] ~e.inline /\ e.order = data_endian -> Found(e.data)[Len(e.data)]
    [] OTHER -> <<>>

(* What get_v7 makes of them; a V5 text is cut to 250 bytes and a character.*)
View(e) ==
  LET c == Content(Resolved(e))
  IN IF e.inline
       THEN [c EXCEPT !.text = SubSeq(@, 1, Min({Len(@), LenMod - 5}))]
       ELSE c

Encoded(content, order) ==
  EventDescriptors(V7Short(content.title, content.text), content.desc, order)

Record(e, ids) ==
  [len |-> (10 + 4 * Len(ids)) % 256, id |-> e.id, start |-> e.start, refs |-> ids]

(* clen is 0: nothing follows the type and the length. *)
EmptyRecord == [len |-> 0, id |-> 0, start |-> 0, refs |-> <<>>]

BeginSave(order) ==
  /\ phase = "loaded" /\ stage = "idle"
  /\ stage' = "events" /\ target' = order
  /\ UNCHANGED <<vars, descriptors_target, v7, written, writing, table>>

(* Services come in the order of the hash map, which is any order. *)
SaveService(k) ==
  /\ stage = "events" /\ writing = None
  /\ k \in DOMAIN eventDB \ DOMAIN written
  /\ writing' = [key |-> k, left |-> DOMAIN eventDB[k].byTime]
  /\ written' = Put(written, k, <<>>)
  /\ UNCHANGED <<vars, stage, target, descriptors_target, v7, table>>

(* Mutants: get_v7 gives the length of an EITdata_v7 it has; a length only  *)
(* for an event whose short descriptor is new in the table.                 *)
SaveEventAgain(t) ==
  LET k == writing.key
      n == eventDB[k].byTime[t]
  IN /\ stage = "events" /\ writing # None
     /\ t \in writing.left /\ \A s \in writing.left : t <= s
     /\ n \in DOMAIN v7 \/ ~Throws(Resolved(heap[n]))
     /\ IF n \in DOMAIN v7
          THEN /\ written' = [written EXCEPT ![k] = Append(@, Record(heap[n], v7[n]))]
               /\ UNCHANGED <<descriptors_target, v7>>
          ELSE \E ds \in {Encoded(View(heap[n]), target)} :
                 /\ descriptors_target' = Intern(descriptors_target, ds)
                 /\ v7' = Put(v7, n, Crcs(ds))
                 /\ written' = [written EXCEPT ![k] =
                                  Append(@, Record(heap[n], Crcs(ds)))]
     /\ writing' = [writing EXCEPT !.left = @ \ {t}]
     /\ UNCHANGED <<vars, stage, target, table>>

SaveEventIfNew(t) ==
  LET k == writing.key
      n == eventDB[k].byTime[t]
  IN /\ stage = "events" /\ writing # None
     /\ t \in writing.left /\ \A s \in writing.left : t <= s
     /\ n \in DOMAIN v7 \/ ~Throws(Resolved(heap[n]))
     /\ \E ds \in {Encoded(View(heap[n]), target)} :
          /\ descriptors_target' = Intern(descriptors_target, ds)
          /\ v7' = Put(v7, n, Crcs(ds))
          /\ written' = [written EXCEPT ![k] = Append(@,
               IF Crc(ds[1]) \in DOMAIN descriptors_target THEN EmptyRecord
               ELSE Record(heap[n], Crcs(ds)))]
     /\ writing' = [writing EXCEPT !.left = @ \ {t}]
     /\ UNCHANGED <<vars, stage, target, table>>

(* The event with the next start time.  An event that has its EITdata_v7    *)
(* gets no length from get_v7.                                              *)
SaveEvent(t) ==
  LET k   == writing.key
      n   == eventDB[k].byTime[t]
  IN /\ stage = "events" /\ writing # None
     /\ t \in writing.left /\ \A s \in writing.left : t <= s
     /\ n \in DOMAIN v7 \/ ~Throws(Resolved(heap[n]))
     /\ IF n \in DOMAIN v7
          THEN /\ written' = [written EXCEPT ![k] = Append(@, EmptyRecord)]
               /\ UNCHANGED <<descriptors_target, v7>>
          ELSE \E content \in {View(heap[n])} :
               \E ds \in {Encoded(content, target)} :
                 /\ descriptors_target' = Intern(descriptors_target, ds)
                 /\ v7' = Put(v7, n, Crcs(ds))
                 /\ written' = [written EXCEPT ![k] =
                                  Append(@, Record(heap[n], Crcs(ds)))]
     /\ writing' = [writing EXCEPT !.left = @ \ {t}]
     /\ UNCHANGED <<vars, stage, target, table>>

(* The exception of an empty extended text ends the program. *)
AbortSave ==
  /\ stage = "events" /\ writing # None /\ writing.left # {}
  /\ LET n == eventDB[writing.key].byTime[Min(writing.left)]
     IN n \notin DOMAIN v7 /\ Throws(Resolved(heap[n]))
  /\ stage' = "aborted"
  /\ UNCHANGED <<vars, target, descriptors_target, v7, written, writing, table>>

EndService ==
  /\ stage = "events" /\ writing # None /\ writing.left = {}
  /\ writing' = None
  /\ UNCHANGED <<vars, stage, target, descriptors_target, v7, written, table>>

(* eventData::save, once the events of every service are written. *)
SaveTable ==
  /\ stage = "events" /\ writing = None /\ DOMAIN written = DOMAIN eventDB
  /\ table' = [id \in DOMAIN descriptors_target |-> descriptors_target[id].count]
  /\ stage' = "done"
  /\ UNCHANGED <<vars, target, descriptors_target, v7, written, writing>>

SaveStep ==
  \/ \E order \in Orders : BeginSave(order)
  \/ \E k \in Keys : SaveService(k)
  \/ writing # None /\ \E t \in writing.left : SaveEvent(t)
  \/ AbortSave
  \/ EndService
  \/ SaveTable

FileNext == (Next /\ UNCHANGED saveVars) \/ SaveStep

FileSpec == FileInit /\ [][FileNext]_fileVars
-----------------------------------------------------------------------------
(* get_v7 enters descriptors while events are written and the table comes   *)
(* last: each entry counts exactly the references of the records made, and  *)
(* each reference has its entry (dvb.cpp 363-372, 416-426).                 *)
TargetCountsExact == Counts(descriptors_target, v7)

(* The descriptor ids of the records in the file. *)
RecordIds ==
  LET at == UNION {{k} \X DOMAIN written[k] : k \in DOMAIN written}
  IN [p \in at |-> written[p[1]][p[2]].refs]

(* A finished file is complete in itself: it holds every service, and the   *)
(* table counts exactly the references its own records make, although an    *)
(* event that two services share was written once (dvb.cpp 249-250,         *)
(* 544-565).                                                                *)
FileSelfContained ==
  stage = "done" =>
    /\ DOMAIN written = DOMAIN eventDB
    /\ \A id \in DOMAIN table : table[id] = References(RecordIds, id) % RefMod
    /\ \A p \in DOMAIN RecordIds : \A i \in DOMAIN RecordIds[p] :
         RecordIds[p][i] \in DOMAIN table

(* A record without contents stands only where the event was already        *)
(* written under another service (dvb.cpp 249, epg.cpp 309-314).            *)
EmptyOnlyIfShared ==
  \A k \in DOMAIN written : \A i \in DOMAIN written[k] :
    written[k][i].len = 0 =>
      \E j \in DOMAIN written \ {k} :
        \E s \in DOMAIN eventDB[j].byTime, t \in DOMAIN eventDB[k].byTime :
          eventDB[j].byTime[s] = eventDB[k].byTime[t]

(* readme.txt, the closing note: "再从内存中写入目标文件" (then what is in   *)
(* memory is written to the target file).  No event of a finished file is   *)
(* left without its contents.                                               *)
EveryEventWritten ==
  stage = "done" =>
    \A k \in DOMAIN written : \A i \in DOMAIN written[k] : written[k][i].len # 0
-----------------------------------------------------------------------------
(* The refinement of EpgPromise.  What get_v7 misreads has texts nobody can *)
(* tell, and so has an event that makes it throw: of these the promise is   *)
(* the key and the start.  Other events whose title and text are too long   *)
(* for one descriptor are left out of both sides.                           *)
Unknown == [unknown |-> TRUE]

Texts(e) == IF Misread(e) \/ Throws(Resolved(e)) THEN Unknown ELSE View(e)

Memory ==
  LET programmes == UNION {{<<k, t, Texts(heap[eventDB[k].byTime[t]])>> :
                              t \in DOMAIN eventDB[k].byTime} : k \in DOMAIN eventDB}
  IN {p \in programmes : p[3] = Unknown \/ Fits(V7Short(p[3].title, p[3].text))}

Bytes(record) ==
  [i \in DOMAIN record.refs |-> descriptors_target[record.refs[i]].bytes]

(* What a reader of the file finds in a record. *)
Source(k, record) == heap[eventDB[k].byTime[record.start]]

TextsOf(k, record) ==
  IF Misread(Source(k, record)) THEN Unknown ELSE Content(Bytes(record))

IsReadable(k, record) ==
  record.len # 0 /\ (Misread(Source(k, record)) \/ Fits(Bytes(record)[1]))

File ==
  UNION {{<<k, written[k][i].start, TextsOf(k, written[k][i])>> :
            i \in {i \in DOMAIN written[k] : IsReadable(k, written[k][i])}} :
         k \in DOMAIN written}

Promised ==
  INSTANCE EpgPromise WITH
    memory <- IF stage = "idle" THEN {} ELSE Memory,
    file   <- File,
    stage  <- CASE stage = "idle" -> "loading"
                [] stage = "events" -> "saving"
                [] OTHER -> stage

(* Where no two services share an event, the saved file implements the      *)
(* promise: decoded with its own table it gives back every event in memory  *)
(* and nothing else, with its title, text and description unless its length *)
(* was misread, and the program only ends before its time at an event whose *)
(* texts it cannot read (epg.cpp 264-329, dvb.cpp 247-443).                 *)
ConversionKeepsPromise == Promised!Spec
=============================================================================
