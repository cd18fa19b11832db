------------------------------ MODULE EpgStore ------------------------------
(***************************************************************************)
(* The events epgen holds in memory and the three loaders that fill them   *)
(* (lib/epg.cpp, lib/dvb.cpp): ENIGMA_PLI_V5 files, whose events carry     *)
(* their descriptors; ENIGMA_EPG_V7 files, whose events carry ids of a     *)
(* descriptor table that follows them; and XMLTV documents.  Files are     *)
(* well formed; what is in them is chosen item by item.                    *)
(***************************************************************************)
EXTENDS Descriptors, Entities, TvTables

CONSTANTS
  Keys,          \* services (uniqueEPGKey), numbered in the order of memcmp
  Stamps,        \* start attributes of XMLTV programmes, as strings
  TimeOf,        \* the time_t mktimet_from_xmltv makes of each
  Times,         \* start times of file events
  IdMod,         \* 65536 in the code: event ids are __u16
  FileIds,       \* event ids found in files
  XmlIds,        \* event_id attributes, -1 where there is none
  Channels,      \* channel ids of an XMLTV document
  Names,         \* display names
  Titles, Descs, \* texts of XMLTV programmes
  V5Data,        \* descriptor lists of V5 events
  Statuses,      \* 0..15 in the code: the status bits of V5 events
  Beyond,        \* what the memory behind an event may be read as
  V7Data,        \* id lists of V7 events
  TableIds,      \* ids of a V7 file's descriptor table
  TableBytes,    \* descriptors of a V7 file's descriptor table
  TableCounts,   \* reference counts of a V7 file's descriptor table
  TableFiles,    \* the channel tables there may be, sequences of lines
  Formats,       \* the kinds of input considered
  MaxItems,      \* bound on services of a file, or elements of a document
  MaxEvents      \* bound on the events of a file, and on table entries

NoName == <<>>
NoId == -1

ASSUME StoreAssumption ==
  /\ Keys \subseteq Nat /\ InvalidKey \in Nat
  /\ \A k \in Keys : k <= InvalidKey
  /\ IdMod \in Nat \ {0}
  /\ FileIds \subseteq 0..(IdMod - 1)
  /\ XmlIds \subseteq Nat \cup {NoId}
  /\ Times \subseteq Nat /\ TimeOf \in [Stamps -> Nat]
  /\ Names \cup Titles \cup Descs \subseteq Seq(Nat)
  /\ \A t \in Titles : \A i \in DOMAIN t : t[i] # 0      \* C strings
  /\ TableFiles \subseteq Seq([key : Keys, name : Seq(Nat)])
  /\ V5Data \cup V7Data \subseteq Seq(Seq(Nat)) /\ TableBytes \subseteq Seq(Nat)
  /\ Statuses \subseteq Nat /\ Beyond \subseteq Seq(Seq(Nat))
  /\ \A data \in V5Data \cup Beyond : \A i \in DOMAIN data :
       HoldsText(data[i]) /\ HoldsTitle(data[i])
  /\ \A bytes \in TableBytes : HoldsText(bytes) /\ HoldsTitle(bytes)    \* well formed
  /\ MaxItems \in Nat /\ MaxEvents \in Nat
  /\ Formats \subseteq {"V5", "V7", "XMLTV"}

VARIABLES
  phase,            \* "start", "items", "table" or "loaded"
  source,           \* the format being loaded, "none" before or if refused
  todo,             \* the loader's count of items still to read
  service,          \* the service a file loader is filling (evMap, tmMap)
  programme,        \* the programme the XMLTV loader is storing
  data_endian,      \* the global of endian.cpp
  tvmap, tvnmap, tvamap,
  eventDB, maxEventID,
  heap,             \* the eventData objects in the order of their creation
  descriptors,      \* eventData::descriptors
  xmltvmap, xmltv_tsonid_map, done_channels

tvmaps == <<tvmap, tvnmap, tvamap>>
xmlmaps == <<xmltvmap, xmltv_tsonid_map, done_channels>>
store == <<eventDB, maxEventID, heap, descriptors>>
vars == <<phase, source, todo, service, programme, data_endian, tvmap, tvnmap,
          tvamap, eventDB, maxEventID, heap, descriptors, xmltvmap,
          xmltv_tsonid_map, done_channels>>

None == [none |-> TRUE]

NoEvents == [byId |-> Empty, byTime |-> Empty]

(* Mutant: insert() instead of operator[], which keeps an earlier event. *)
EnterFirst(maps, id, start, n) ==
  [byId |-> Put(maps.byId, id, n),
   byTime |-> IF start \in DOMAIN maps.byTime THEN maps.byTime
              ELSE Put(maps.byTime, start, n)]

(* Enter event n into the two maps of a service. *)
Enter(maps, id, start, n) ==
  [byId |-> Put(maps.byId, id, n), byTime |-> Put(maps.byTime, start, n)]

Redirected(k) == IF k \in DOMAIN tvmap THEN tvmap[k] ELSE k

Raised(id) == IF maxEventID < id THEN id ELSE maxEventID

Init ==
  /\ phase = "start" /\ source = "none" /\ todo = 0
  /\ service = None /\ programme = None
  /\ data_endian = "X"
  /\ \E lines \in TableFiles :
       LET t == LoadLines(NoTables, lines)
       IN tvmap = t.tvmap /\ tvnmap = t.tvnmap /\ tvamap = t.tvamap
  /\ eventDB = Empty /\ maxEventID = 0 /\ heap = <<>> /\ descriptors = Empty
  /\ xmltvmap = Empty /\ xmltv_tsonid_map = Empty /\ done_channels = {}
-----------------------------------------------------------------------------
(* ENIGMA_PLI_V5 and ENIGMA_EPG_V7 files.                                   *)

(* The magic number fixes the byte order, then the number of services is    *)
(* read.                                                                    *)
OpenFile(format, order) ==
  /\ phase = "start" /\ format \in Formats \cap {"V5", "V7"}
  /\ phase' = "items" /\ source' = format /\ data_endian' = order
  /\ todo' \in 0..MaxItems
  /\ UNCHANGED <<service, programme, tvmaps, store, xmlmaps>>

(* No file, a wrong magic number or an old format: nothing is loaded, and   *)
(* main goes on all the same.                                               *)
RefuseFile ==
  /\ phase = "start"
  /\ phase' = "loaded"
  /\ data_endian' \in {"X"} \cup Orders
  /\ UNCHANGED <<source, todo, service, programme, tvmaps, store, xmlmaps>>

ReadService(k) ==
  /\ phase = "items" /\ source \in {"V5", "V7"} /\ service = None /\ todo > 0
  /\ \E size \in {n \in 0..MaxEvents : Len(heap) + n <= MaxEvents} :
       service' = [key |-> Redirected(k), left |-> size, maps |-> NoEvents]
  /\ todo' = todo - 1
  /\ UNCHANGED <<phase, source, programme, data_endian, tvmaps, store, xmlmaps>>

(* The status bits of an event, which share a byte with the high nibble of  *)
(* its length, and the descriptors the memory behind it would make.  Only   *)
(* where the file is a big-endian V5 file do they make a difference.        *)
Surroundings ==
  IF source = "V5" /\ data_endian = "B" THEN Statuses \X Beyond ELSE {<<0, <<>>>>}

ReadEvent(id, start, data) ==
  LET n == Len(heap) + 1
  IN /\ service # None /\ service.left > 0
     /\ data \in IF source = "V5" THEN V5Data ELSE V7Data
     /\ \E s \in Surroundings :
          heap' = Append(heap, [order |-> data_endian, id |-> id, start |-> start,
                                inline |-> source = "V5", data |-> data,
                                status |-> s[1], behind |-> s[2]])
     /\ service' = [service EXCEPT !.left = @ - 1,
                                   !.maps = Enter(@, id, start, n)]
     /\ maxEventID' = Raised(id)
     /\ UNCHANGED <<phase, source, todo, programme, data_endian, tvmaps,
                    eventDB, descriptors, xmlmaps>>

(* The service replaces whatever its key held. *)
StoreService ==
  /\ service # None /\ service.left = 0
  /\ eventDB' = Put(eventDB, service.key, service.maps)
  /\ service' = None
  /\ UNCHANGED <<phase, source, todo, programme, data_endian, tvmaps,
                 maxEventID, heap, descriptors, xmlmaps>>

(* After the last service a V7 file holds the descriptor table, a V5 file   *)
(* nothing.  A V5 file may also end early.                                  *)
EndServices ==
  /\ phase = "items" /\ service = None
  /\ \/ source = "V5" /\ phase' = "loaded" /\ todo' = 0
     \/ source = "V7" /\ todo = 0 /\ phase' = "table" /\ todo' \in 0..MaxEvents
  /\ UNCHANGED <<source, service, programme, data_endian, tvmaps, store, xmlmaps>>

(* eventData::load: the last entry of an id is the one that stays. *)
ReadDescriptor(id, bytes) ==
  /\ phase = "table" /\ todo > 0
  /\ \E count \in TableCounts :
       descriptors' = Put(descriptors, id, [count |-> count, bytes |-> bytes])
  /\ todo' = todo - 1
  /\ UNCHANGED <<phase, source, service, programme, data_endian, tvmaps,
                 eventDB, maxEventID, heap, xmlmaps>>

EndTable ==
  /\ phase = "table" /\ todo = 0
  /\ phase' = "loaded"
  /\ UNCHANGED <<source, todo, service, programme, data_endian, tvmaps, store,
                 xmlmaps>>
-----------------------------------------------------------------------------
(* XMLTV documents.                                                         *)

(* With no channel table loaded the loader looks for one of its own. *)
OpenXmltv ==
  /\ phase = "start" /\ "XMLTV" \in Formats
  /\ phase' = "items" /\ source' = "XMLTV" /\ data_endian' = "B"
  /\ todo' \in 0..MaxItems
  /\ IF tvnmap # Empty THEN UNCHANGED tvmaps
     ELSE \E lines \in TableFiles :
            LET t == LoadLines([tvmap |-> tvmap, tvnmap |-> tvnmap, tvamap |-> tvamap],
                               lines)
            IN tvmap' = t.tvmap /\ tvnmap' = t.tvnmap /\ tvamap' = t.tvamap
  /\ UNCHANGED <<service, programme, store, xmlmaps>>

NextElement ==
  /\ phase = "items" /\ source = "XMLTV" /\ programme = None /\ todo > 0
  /\ todo' = todo - 1

(* A channel without a tsonid attribute only names its id. *)
ReadChannel(ch, name) ==
  /\ NextElement
  /\ xmltvmap' = Put(xmltvmap, ch, name)
  /\ UNCHANGED <<phase, source, service, programme, data_endian, tvmaps, store,
                 xmltv_tsonid_map, done_channels>>

(* A tsonid attribute enters key and name where the tables have neither. *)
ReadChannelTsonid(ch, name, k) ==
  /\ NextElement
  /\ xmltvmap' = Put(xmltvmap, ch, name)
  /\ xmltv_tsonid_map' = Put(xmltv_tsonid_map, ch, k)
  /\ tvamap' = PutNew(tvamap, k, name)
  /\ tvnmap' = PutNew(tvnmap, name, k)
  /\ UNCHANGED <<phase, source, service, programme, data_endian, tvmap, store,
                 done_channels>>

ChannelName(ch) == IF ch \in DOMAIN xmltvmap THEN xmltvmap[ch] ELSE NoName

(* The description is made to begin with the channel's name. *)
WithName(name, desc) ==
  IF name = NoName \/ IsPrefix(name, desc) THEN desc
  ELSE name \o <<Colon>> \o desc

Skipped(ch, stamp, title) ==
  LET name == ChannelName(ch)
  IN \/ <<name, stamp>> \in done_channels
     \/ ch \notin DOMAIN xmltv_tsonid_map
          /\ (name = NoName \/ name \notin DOMAIN tvnmap)
     \/ title = <<>>

SkipProgramme(ch, stamp, title) ==
  /\ NextElement
  /\ Skipped(ch, stamp, title)
  /\ UNCHANGED <<phase, source, service, programme, data_endian, tvmaps, store,
                 xmlmaps>>

(* The description of a programme, which may have no desc element. *)
Descriptions(ch) == {<<>>} \cup {WithName(ChannelName(ch), desc) : desc \in Descs}

(* The keys tvamap gives the name of a channel. *)
KeysOf(ch) == {k \in DOMAIN tvamap : tvamap[k] = ChannelName(ch)}

(* Every key of the channel's name is to get the programme.  (`said` keeps  *)
(* the title that was read: loading changes the other one.)                 *)
ReadProgramme(ch, stamp, id, title, desc) ==
  /\ NextElement
  /\ ~Skipped(ch, stamp, title)
  /\ programme' = [channel |-> ch, stamp |-> stamp, start |-> TimeOf[stamp],
                   id |-> id, said |-> title, title |-> title, desc |-> desc,
                   keys |-> KeysOf(ch)]
  /\ UNCHANGED <<phase, source, service, data_endian, tvmaps, store, xmlmaps>>

(* Mutants: the main service is emptied every time; a service of the same   *)
(* name is taken for the main one.                                          *)
WithServiceEmptied(k) ==
  LET main == Redirected(k)
      db   == IF main \in DOMAIN eventDB /\ main = k THEN eventDB
              ELSE Put(eventDB, main, NoEvents)
  IN IF k \in DOMAIN tvmap THEN Put(db, k, db[main]) ELSE db

WithServiceOfName(k) ==
  LET main == tvnmap[tvamap[k]]
      db   == IF main \in DOMAIN eventDB THEN eventDB
              ELSE Put(eventDB, main, NoEvents)
  IN Put(db, k, db[main])

(* loadepg_from_event_struct: a key that tvmap redirects starts over from a *)
(* copy of its main service, whose events the two then share.               *)
WithService(k) ==
  LET main == Redirected(k)
      db   == IF main \in DOMAIN eventDB THEN eventDB
              ELSE Put(eventDB, main, NoEvents)
  IN IF k \in DOMAIN tvmap THEN Put(db, k, db[main]) ELSE db

(* Mutants: an id that is not a __u16; the last id instead of the next.     *)
NewIdUnwrapped(id) == IF id = NoId THEN maxEventID + 1 ELSE id
NewIdLast(id) == (IF id = NoId THEN maxEventID ELSE id) % IdMod

NewId(id) == (IF id = NoId THEN maxEventID + 1 ELSE id) % IdMod

(* The next key gets what decoding leaves in the texts. *)
Decoded(p, k) ==
  [p EXCEPT !.keys = @ \ {k}, !.title = DecodedInPlace(@), !.desc = DecodedInPlace(@)]

(* An event for the next key, with the texts decoded. *)
LoadEventStruct(k) ==
  LET n  == Len(heap) + 1
      id == NewId(programme.id)
      ds == EventDescriptors(XmlShort(XmlDecode(programme.title)),
                             XmlDecode(programme.desc), "B")
  IN /\ programme # None /\ k \in programme.keys
     /\ \A other \in programme.keys : k <= other
     /\ descriptors' = Intern(descriptors, ds)
     /\ heap' = Append(heap, [order |-> "B", id |-> id,
                              start |-> programme.start, inline |-> FALSE,
                              data |-> Crcs(ds), status |-> 0, behind |-> <<>>])
     /\ eventDB' = [WithService(k) EXCEPT ![k] = Enter(@, id, programme.start, n)]
     /\ maxEventID' = Raised(id)
     /\ programme' = Decoded(programme, k)
     /\ UNCHANGED <<phase, source, todo, service, data_endian, tvmaps, xmlmaps>>

EndProgramme ==
  /\ programme # None /\ programme.keys = {}
  /\ done_channels' = done_channels
       \cup {<<ChannelName(programme.channel), programme.stamp>>}
  /\ programme' = None
  /\ UNCHANGED <<phase, source, todo, service, data_endian, tvmaps, store,
                 xmltvmap, xmltv_tsonid_map>>

EndXmltv ==
  /\ phase = "items" /\ source = "XMLTV" /\ programme = None /\ todo = 0
  /\ phase' = "loaded"
  /\ UNCHANGED <<source, todo, service, programme, data_endian, tvmaps, store,
                 xmlmaps>>
-----------------------------------------------------------------------------
LoadFile ==
  \/ \E format \in {"V5", "V7"}, order \in Orders : OpenFile(format, order)
  \/ RefuseFile
  \/ \E k \in Keys : ReadService(k)
  \/ \E id \in FileIds, start \in Times, data \in V5Data \cup V7Data :
       ReadEvent(id, start, data)
  \/ StoreService
  \/ EndServices
  \/ \E id \in TableIds, bytes \in TableBytes : ReadDescriptor(id, bytes)
  \/ EndTable

LoadXmltv ==
  \/ OpenXmltv
  \/ \E ch \in Channels, name \in Names :
       \/ ReadChannel(ch, name)
       \/ \E k \in Keys : ReadChannelTsonid(ch, name, k)
  \/ \E ch \in Channels, stamp \in Stamps, title \in Titles \cup {<<>>} :
       \/ SkipProgramme(ch, stamp, title)
       \/ \E id \in XmlIds, desc \in Descriptions(ch) :
            ReadProgramme(ch, stamp, id, title, desc)
  \/ \E k \in Keys : LoadEventStruct(k)
  \/ EndProgramme
  \/ EndXmltv

Next == LoadFile \/ LoadXmltv

Spec == Init /\ [][Next]_vars
-----------------------------------------------------------------------------
IsFun(f) == f = [x \in DOMAIN f |-> f[x]]

IsMap(f, D, R) ==
  /\ IsFun(f) /\ DOMAIN f \subseteq D
  /\ \A x \in DOMAIN f : f[x] \in R

IsMaps(m, events) ==
  /\ m = [byId |-> m.byId, byTime |-> m.byTime]
  /\ IsMap(m.byId, 0..(IdMod - 1), DOMAIN events)
  /\ IsMap(m.byTime, Nat, DOMAIN events)

EventData == [order : {"X"} \cup Orders, id : 0..(IdMod - 1), start : Nat,
              inline : BOOLEAN, data : Seq(Seq(Nat)), status : Nat,
              behind : Seq(Seq(Nat))]

IsService(s) ==
  /\ s = [key |-> s.key, left |-> s.left, maps |-> s.maps]
  /\ s.left \in Nat /\ IsMaps(s.maps, heap)

IsProgramme(p) ==
  /\ p = [channel |-> p.channel, stamp |-> p.stamp, start |-> p.start,
          id |-> p.id, said |-> p.said, title |-> p.title, desc |-> p.desc,
          keys |-> p.keys]
  /\ p.start \in Nat /\ p.id \in Nat \cup {NoId}
  /\ p.said \in Seq(Nat) /\ p.title \in Seq(Nat) /\ p.desc \in Seq(Nat)

(* Every variable has its type, and every pointer of the two maps of a      *)
(* service points to an event that was created.                             *)
TypeOK ==
  /\ phase \in {"start", "items", "table", "loaded"}
  /\ source \in {"none", "V5", "V7", "XMLTV"}
  /\ todo \in Nat /\ maxEventID \in 0..(IdMod - 1)
  /\ data_endian \in {"X"} \cup Orders
  /\ IsMap(xmltvmap, Channels, Names)
  /\ heap \in Seq(EventData)
  /\ IsFun(eventDB)
  /\ \A k \in DOMAIN eventDB : IsMaps(eventDB[k], heap)
  /\ service # None => IsService(service)
  /\ programme # None => IsProgramme(programme)

(* The two maps of a service tell one story: an event either one holds is   *)
(* the newest with its key, and the other map holds it or a newer one.      *)
Agree(m, events) ==
  /\ \A id \in DOMAIN m.byId :
       LET e == events[m.byId[id]]
       IN e.id = id /\ e.start \in DOMAIN m.byTime
            /\ m.byId[id] <= m.byTime[e.start]
  /\ \A t \in DOMAIN m.byTime :
       LET e == events[m.byTime[t]]
       IN e.start = t /\ e.id \in DOMAIN m.byId
            /\ m.byTime[t] <= m.byId[e.id]

(* Whatever is loaded, in whatever order, with services that replace or     *)
(* copy one another, byId and byTime of each service agree (epg.cpp         *)
(* 192-198, 244-250, 342, 471-473): saving by time loses nothing that an    *)
(* event of the same id did not replace.                                    *)
MapsAgree ==
  /\ \A k \in DOMAIN eventDB : Agree(eventDB[k], heap)
  /\ service # None => Agree(service.maps, heap)

(* A programme without an event_id gets an id no event of any service has,  *)
(* until the ids are used up: then newid wraps to 0 (epg.cpp 362).          *)
FreshIdStep ==
  (programme # None /\ Len(heap') > Len(heap) /\ programme.id = NoId
     /\ maxEventID + 1 < IdMod)
  => \A k \in DOMAIN eventDB : heap'[Len(heap')].id \notin DOMAIN eventDB[k].byId
FreshId == [][FreshIdStep]_vars

(* The descriptor ids of the events of the heap. *)
HeapIds == [n \in DOMAIN heap |-> heap[n].data]

(* XMLTV programmes share descriptors by content: each table entry counts   *)
(* exactly the references the events made so far hold (modulo the 16 bits   *)
(* of the count), and every reference has its entry (epg.cpp 399-407,       *)
(* 451-459).                                                                *)
SourceCountsExact == source = "XMLTV" => Counts(descriptors, HeapIds)

(* Two services hold the same eventData object only if the channel table    *)
(* redirects one of them (epg.cpp 342): what save does to an event of one   *)
(* service is then seen by the other.                                       *)
SharedOnlyByAlias ==
  \A k, j \in DOMAIN eventDB :
    (k # j /\ k \notin DOMAIN tvmap /\ j \notin DOMAIN tvmap)
    => \A s \in DOMAIN eventDB[k].byTime, t \in DOMAIN eventDB[j].byTime :
         eventDB[k].byTime[s] # eventDB[j].byTime[t]

(* A text with no ampersand escaped twice: decoding its ampersands leaves   *)
(* none to be decoded.                                                      *)
EscapedOnce(s) == DecodedInPlace(DecodedInPlace(s)) = DecodedInPlace(s)

(* When the loop over tvamap is done, every key with the channel's name     *)
(* holds the programme under its start time.  The first of them holds the   *)
(* title that was read, decoded, and so do all if none of its ampersands    *)
(* was escaped twice, although each key changes the title for the next      *)
(* (epg.cpp 354-356, 752-758); other titles, the ones too long for their    *)
(* descriptor included, do not disturb it (epg.cpp 399-407).                *)
ProgrammeReachesItsKeys ==
  (programme # None /\ programme.keys = {}) =>
    LET keys  == KeysOf(programme.channel)
        short == XmlShort(XmlDecode(programme.said))
    IN \A k \in keys :
         /\ k \in DOMAIN eventDB /\ programme.start \in DOMAIN eventDB[k].byTime
         /\ (\A j \in keys : k <= j) \/ EscapedOnce(programme.said) =>
              LET e == heap[eventDB[k].byTime[programme.start]]
              IN Fits(short) => descriptors[e.data[1]].bytes = short

(* A redirected service is started over from its main service at every      *)
(* programme, and still no start time a service had is lost, provided the   *)
(* two bear the same name and the main one is not redirected itself, so     *)
(* that the main service gets what the other gets (epg.cpp 334-342).        *)
Follows(k, main) == main \notin DOMAIN tvmap /\ tvamap[main] = tvamap[k]

NoStartLostStep ==
  source = "XMLTV" =>
    \A k \in DOMAIN eventDB :
      (k \in DOMAIN tvmap => Follows(k, tvmap[k]))
      => DOMAIN eventDB[k].byTime \subseteq DOMAIN eventDB'[k].byTime
NoStartLost == [][NoStartLostStep]_vars

(* readme.txt, on -o: an XMLTV channel needs a tsonid attribute or a line   *)
(* of the channel table, "如果某个频道没有相应的tsonid记录，将会放弃该频道的  *)
(* EPG数据" (a channel with no tsonid record has its EPG data dropped): the *)
(* programmes of a channel that has the attribute are stored.               *)
TsonidChannelStored ==
  (programme # None /\ programme.keys = {}
     /\ programme.channel \in DOMAIN xmltv_tsonid_map)
  => LET k == xmltv_tsonid_map[programme.channel]
     IN k \in DOMAIN eventDB /\ programme.start \in DOMAIN eventDB[k].byTime

(* The same line of readme.txt: a channel whose name the table lists has    *)
(* its record, so none of its programmes with a title is passed over,       *)
(* unless one of the same name and start was stored.                        *)
ListedChannelStoredStep ==
  \A ch \in Channels, stamp \in Stamps, title \in Titles :
    SkipProgramme(ch, stamp, title) =>
      \/ <<ChannelName(ch), stamp>> \in done_channels
      \/ Normal(ChannelName(ch)) \notin DOMAIN tvnmap
ListedChannelStored == [][ListedChannelStoredStep]_vars
=============================================================================
