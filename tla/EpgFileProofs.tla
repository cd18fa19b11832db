--------------------------- MODULE EpgFileProofs ----------------------------
(***************************************************************************)
(* What TLAPS proves of a conversion to an ENIGMA_EPG_V7 file: saving      *)
(* leaves the memory alone, the descriptor table counts exactly what the   *)
(* records refer to, only an event that was already written lacks its      *)
(* contents, and a conversion implements EpgPromise.                       *)
(***************************************************************************)
EXTENDS EpgFile, EpgStoreProofs, TLAPS

(* A loader that is done stays done: nothing is read while a file is saved. *)
StillLoading == (service # None \/ programme # None) => phase = "items"

LEMMA StepLoads == IdInv /\ StillLoading /\ [Next]_vars => StillLoading'
<1> SUFFICES ASSUME IdInv, StillLoading, [Next]_vars PROVE StillLoading'
  OBVIOUS
<1> USE DEF StillLoading, IdInv, OneLoader
<1>1. CASE LoadFile
  <2>1. ASSUME NEW format \in {"V5", "V7"}, NEW order \in Orders, OpenFile(format, order)
        PROVE  StillLoading'
    BY <2>1 DEF OpenFile
  <2>2. CASE RefuseFile
    BY <2>2 DEF RefuseFile
  <2>3. ASSUME NEW k \in Keys, ReadService(k) PROVE StillLoading'
    BY <2>3 DEF ReadService
  <2>4. ASSUME NEW id \in FileIds, NEW start \in Times, NEW data \in V5Data \cup V7Data,
               ReadEvent(id, start, data)
        PROVE  StillLoading'
    BY <2>4 DEF ReadEvent
  <2>5. CASE StoreService
    BY <2>5 DEF StoreService
  <2>6. CASE EndServices
    BY <2>6 DEF EndServices
  <2>7. ASSUME NEW id \in TableIds, NEW bytes \in TableBytes, ReadDescriptor(id, bytes)
        PROVE  StillLoading'
    BY <2>7 DEF ReadDescriptor
  <2>8. CASE EndTable
    BY <2>8 DEF EndTable
  <2> QED
    BY <1>1, <2>1, <2>2, <2>3, <2>4, <2>5, <2>6, <2>7, <2>8 DEF LoadFile
<1>2. CASE LoadXmltv
  BY <1>2 DEF LoadXmltv, OpenXmltv, ReadChannel, ReadChannelTsonid, SkipProgramme,
     ReadProgramme, LoadEventStruct, EndProgramme, EndXmltv, NextElement
<1>3. CASE UNCHANGED vars
  BY <1>3 DEF vars
<1> QED
  BY <1>1, <1>2, <1>3 DEF Next

LEMMA LoadedIsFinal ==
  ASSUME StillLoading, phase = "loaded", Next
  PROVE  FALSE
<1>1. service = None /\ programme = None
  BY DEF StillLoading
<1>2. ~LoadFile
  BY <1>1 DEF LoadFile, OpenFile, RefuseFile, ReadService, ReadEvent, StoreService,
     EndServices, ReadDescriptor, EndTable
<1>3. ~LoadXmltv
  BY <1>1 DEF LoadXmltv, OpenXmltv, ReadChannel, ReadChannelTsonid, SkipProgramme,
     ReadProgramme, LoadEventStruct, EndProgramme, EndXmltv, NextElement
<1> QED
  BY <1>2, <1>3 DEF Next

(* What saving does the loaders do not see: every property of them holds of *)
(* a conversion too.                                                        *)
LEMMA SavingKeepsMemory == SaveStep => UNCHANGED vars
BY DEF SaveStep, BeginSave, SaveService, SaveEvent, AbortSave, EndService, SaveTable

LEMMA FileLoads == FileSpec => Spec
<1>1. FileInit => Init
  BY DEF FileInit
<1>2. [FileNext]_fileVars => [Next]_vars
  BY SavingKeepsMemory DEF FileNext, fileVars
<1> QED
  BY <1>1, <1>2, PTL DEF FileSpec, Spec

LEMMA LoadsAlways == Spec => []StillLoading
<1>1. Init => StillLoading
  BY DEF Init, StillLoading
<1> QED
  BY <1>1, IdsAlways, StepLoads, PTL DEF Spec
-----------------------------------------------------------------------------
(* The descriptors in memory hold their texts: those of files do, and so do *)
(* those made for XMLTV programmes, their titles only if one byte tells the *)
(* length of each.  They hold whatever get_v7 may take them for.            *)
ShortTitles == "XMLTV" \in Formats => \A t \in Titles : Told(t)

Sound(d) == HoldsText(d) /\ (ShortTitles => HoldsTitle(d))

AllSound(data) == \A i \in DOMAIN data : Sound(data[i])

Readable ==
  /\ \A id \in DOMAIN descriptors :
       descriptors[id].bytes \in Seq(Nat) /\ Sound(descriptors[id].bytes)
  /\ \A n \in DOMAIN heap : heap[n].inline =>
       AllSound(heap[n].data) /\ AllSound(heap[n].behind)
  /\ source = "XMLTV" => "XMLTV" \in Formats
  /\ (programme # None /\ ShortTitles) => Told(programme.title)

(* Decoding makes no text longer.                                           *)
LEMMA DecodedTold ==
  ASSUME NEW s \in Seq(Nat), Told(s)
  PROVE  Told(XmlDecode(s)) /\ Told(DecodedInPlace(s))
<1>1. {32, 38, 60, 62} \subseteq Nat
  OBVIOUS
<1>2. /\ DecodedInPlace(s) \in Seq(Nat) /\ Len(DecodedInPlace(s)) <= Len(s)
      /\ XmlDecode(s) \in Seq(Nat) /\ Len(XmlDecode(s)) <= Len(s)
  BY <1>1, DecodedFacts
<1>3. /\ Len(s) \in Nat /\ Len(s) + 1 < LenMod /\ LenMod \in Nat
      /\ Len(DecodedInPlace(s)) \in Nat /\ Len(XmlDecode(s)) \in Nat
  BY <1>2, DescriptorAssumption DEF Told, DescriptorAssumption
<1> QED
  BY <1>2, <1>3 DEF Told

LEMMA StepReadable == TypeOK /\ IdInv /\ ReachInv /\ Readable /\ [Next]_vars => Readable'
<1> SUFFICES ASSUME TypeOK, IdInv, ReachInv, Readable, [Next]_vars PROVE Readable'
  OBVIOUS
<1>1. ASSUME UNCHANGED <<heap, descriptors, source>>,
             programme' # None => programme # None /\ programme'.title = programme.title
      PROVE  Readable'
  BY <1>1 DEF Readable
<1>2. ASSUME NEW id \in FileIds, NEW start \in Times, NEW data \in V5Data \cup V7Data,
             ReadEvent(id, start, data)
      PROVE  Readable'
  <2>1. PICK s \in Surroundings : heap' = Append(heap, FileEvent(id, start, data, s))
    BY <1>2, EventRead
  <2> DEFINE e == FileEvent(id, start, data, s)
  <2>2. e \in EventData /\ heap' = Append(heap, e) /\ UNCHANGED descriptors
    BY <1>2, <2>1, FileEventType DEF ReadEvent
  <2>3. source = "V5" => AllSound(data)
    BY <1>2, StoreAssumption DEF ReadEvent, StoreAssumption, Sound, AllSound
  <2>4. AllSound(s[2])
    <3>1. CASE s \in Statuses \X Beyond
      <4>1. s[2] \in Beyond
        BY <3>1
      <4> QED
        BY <4>1, StoreAssumption DEF StoreAssumption, Sound, AllSound
    <3>2. CASE s = <<0, <<>>>>
      BY <3>2 DEF AllSound
    <3> QED
      BY <3>1, <3>2 DEF Surroundings
  <2>5. e.inline => AllSound(e.data) /\ AllSound(e.behind)
    BY <2>3, <2>4 DEF FileEvent
  <2> HIDE DEF e
  <2>6. /\ heap'[Len(heap) + 1] = e /\ \A n \in DOMAIN heap : heap'[n] = heap[n]
        /\ DOMAIN heap' = DOMAIN heap \cup {Len(heap) + 1}
    <3>1. heap \in Seq(EventData)
      BY DEF TypeOK
    <3> QED
      BY <2>2, <3>1
  <2>7. UNCHANGED <<source, programme>>
    BY <1>2 DEF ReadEvent
  <2> QED
    BY <2>2, <2>5, <2>6, <2>7 DEF Readable
<1>3. ASSUME NEW id \in TableIds, NEW bytes \in TableBytes, ReadDescriptor(id, bytes)
      PROVE  Readable'
  <2>1. bytes \in Seq(Nat) /\ Sound(bytes)
    BY StoreAssumption DEF StoreAssumption, Sound
  <2>2. PICK count \in TableCounts :
          descriptors' = Put(descriptors, id, [count |-> count, bytes |-> bytes])
    BY <1>3 DEF ReadDescriptor
  <2> DEFINE entry == [count |-> count, bytes |-> bytes]
             t     == Put(descriptors, id, entry)
  <2>3. DOMAIN t = DOMAIN descriptors \cup {id}
    BY PutDomain
  <2>4. t[id] = entry /\ entry.bytes = bytes
    BY PutValue
  <2>5. \A y \in DOMAIN descriptors : y # id => t[y] = descriptors[y]
    BY PutOther
  <2>6. descriptors' = t /\ UNCHANGED <<heap, source, programme>>
    BY <1>3, <2>2 DEF ReadDescriptor
  <2> HIDE DEF t, entry
  <2> QED
    BY <2>1, <2>3, <2>4, <2>5, <2>6 DEF Readable
<1>4. ASSUME NEW k \in Keys, LoadEventStruct(k) PROVE Readable'
  <2> DEFINE id == NewId(programme.id)
             title == XmlDecode(programme.title)
             desc  == XmlDecode(programme.desc)
             short == XmlShort(title)
             chunks == Chunks(desc)
             exts == [i \in DOMAIN chunks |-> ExtendedEvent(i, chunks[i], "B")]
             ds == EventDescriptors(short, desc, "B")
             e  == [order |-> "B", id |-> id, start |-> programme.start,
                    inline |-> FALSE, data |-> Crcs(ds), status |-> 0,
                    behind |-> <<>>]
  <2>0. /\ programme # None /\ programme.id \in Nat \cup {NoId}
        /\ programme.title \in Seq(Nat \ {0}) /\ programme.title \in Seq(Nat)
        /\ programme.desc \in Seq(Nat)
        /\ ShortTitles => Told(programme.title)
    BY <1>4 DEF LoadEventStruct, TypeOK, IsProgramme, ReachInv, TitleInv, Readable
  <2>1. /\ programme # None /\ title \in Seq(Nat) /\ desc \in Seq(Nat)
        /\ \A i \in DOMAIN title : title[i] # 0
        /\ ShortTitles => Told(title)
    <3>1. title \in Seq(Nat) /\ \A i \in DOMAIN title : title[i] # 0
      BY <2>0, DecodedTitle
    <3>2. desc \in Seq(Nat)
      BY <2>0, DecodedType
    <3>3. Told(programme.title) => Told(title)
      BY <2>0, DecodedTold
    <3> QED
      BY <2>0, <3>1, <3>2, <3>3
  <2>2. e \in EventData /\ ~e.inline
    <3>1. id \in 0..(IdMod - 1)
      BY <2>0, NewIdFacts
    <3> QED
      BY <2>0, <3>1, StructType
  <2>3. heap' = Append(heap, e) /\ descriptors' = Intern(descriptors, ds)
    BY <1>4 DEF LoadEventStruct
  <2> HIDE DEF title, desc
  <2>4. ds \in Seq(Seq(Nat))
    BY <2>1, XmlDescriptors
  <2>5. \A i \in DOMAIN ds : Sound(ds[i])
    <3>1. Sound(short)
      <4>1. short[1] = ShortTag
        BY <2>1, XmlShortTight
      <4>2. HoldsText(short)
        BY <4>1 DEF HoldsText, ShortTag, ExtendedTag
      <4>3. ShortTitles => HoldsTitle(short)
        BY <2>1, XmlShortHolds
      <4> QED
        BY <4>2, <4>3 DEF Sound
    <3>2. chunks \in Seq(Seq(Nat))
      BY <2>1, ChunksType
    <3>3. DOMAIN exts = DOMAIN chunks /\ \A i \in DOMAIN chunks : Sound(exts[i])
      <4> HIDE DEF chunks
      <4>1. \A i \in DOMAIN chunks : i \in Nat \ {0} /\ chunks[i] \in Seq(Nat)
        BY <3>2
      <4> QED
        BY <4>1, ExtendedHoldsText, ExtendedHoldsTitle DEF Sound
    <3>4. ds = <<short>> \o exts /\ \E n \in Nat : DOMAIN exts = 1..n
      <4>1. ds = <<short>> \o exts
        BY DEF EventDescriptors
      <4> HIDE DEF chunks, exts
      <4> QED
        BY <3>2, <3>3, <4>1
    <3> HIDE DEF chunks, exts, short, ds
    <3>5. /\ DOMAIN ds = 1..(Len(exts) + 1) /\ Len(exts) \in Nat /\ ds[1] = short
          /\ \A i \in 2..(Len(exts) + 1) : ds[i] = exts[i - 1] /\ i - 1 \in DOMAIN exts
      BY <3>4
    <3>6. \A i \in DOMAIN ds : i = 1 \/ i \in 2..(Len(exts) + 1)
      BY <3>5
    <3> QED
      BY <3>1, <3>3, <3>5, <3>6
  <2> HIDE DEF ds, e
  <2>6. \A c \in DOMAIN descriptors' :
          \/ c \in DOMAIN descriptors /\ descriptors'[c].bytes = descriptors[c].bytes
          \/ \E i \in DOMAIN ds : descriptors'[c].bytes = ds[i]
    <3> TAKE c \in DOMAIN descriptors'
    <3>1. CASE c \in DOMAIN descriptors
      BY <2>3, <3>1 DEF Intern
    <3>2. CASE c \notin DOMAIN descriptors
      <4>1. Uses(ds, c) \in SUBSET Nat /\ Uses(ds, c) # {}
        BY <2>3, <2>4, <3>2 DEF Intern, Uses
      <4>2. Min(Uses(ds, c)) \in Uses(ds, c)
        BY <4>1, MinNat
      <4>3. Min(Uses(ds, c)) \in DOMAIN ds
        BY <4>2 DEF Uses
      <4>4. descriptors'[c].bytes = ds[Min(Uses(ds, c))]
        BY <2>3, <3>2 DEF Intern
      <4> QED
        BY <4>3, <4>4
    <3> QED
      BY <3>1, <3>2
  <2>7. /\ heap'[Len(heap) + 1] = e /\ \A n \in DOMAIN heap : heap'[n] = heap[n]
        /\ DOMAIN heap' = DOMAIN heap \cup {Len(heap) + 1}
    <3>1. heap \in Seq(EventData)
      BY DEF TypeOK
    <3> QED
      BY <2>2, <2>3, <3>1
  <2>8. \A i \in DOMAIN ds : ds[i] \in Seq(Nat)
    BY <2>4
  <2>9. /\ source' = source /\ programme' # None
        /\ programme'.title = DecodedInPlace(programme.title)
    <3>1. /\ programme' = Decoded(programme, k) /\ source' = source
          /\ programme = [channel |-> programme.channel, stamp |-> programme.stamp,
                          start |-> programme.start, id |-> programme.id,
                          said |-> programme.said, title |-> programme.title,
                          desc |-> programme.desc, keys |-> programme.keys]
      BY <1>4 DEF LoadEventStruct, TypeOK, IsProgramme
    <3>2. programme' = [channel |-> programme.channel, stamp |-> programme.stamp,
                        start |-> programme.start, id |-> programme.id,
                        said |-> programme.said,
                        title |-> DecodedInPlace(programme.title),
                        desc |-> DecodedInPlace(programme.desc),
                        keys |-> programme.keys \ {k}]
      BY <3>1 DEF Decoded
    <3> QED
      BY <3>1, <3>2 DEF None
  <2>10. Told(programme.title) => Told(DecodedInPlace(programme.title))
    BY <2>0, DecodedTold
  <2> QED
    BY <2>0, <2>2, <2>5, <2>6, <2>7, <2>8, <2>9, <2>10 DEF Readable
<1>5. ASSUME NEW format \in {"V5", "V7"}, NEW order \in Orders, OpenFile(format, order)
      PROVE  Readable'
  BY <1>5 DEF OpenFile, Readable, store
<1>6. ASSUME OpenXmltv PROVE Readable'
  BY <1>6 DEF OpenXmltv, Readable, store
<1>7. ASSUME NEW ch \in Channels, NEW stamp \in Stamps, NEW title \in Titles \cup {<<>>},
             NEW id \in XmlIds, NEW desc \in Descriptions(ch),
             ReadProgramme(ch, stamp, id, title, desc)
      PROVE  Readable'
  <2>1. /\ programme'.title = title /\ title # <<>> /\ source = "XMLTV"
        /\ UNCHANGED <<heap, descriptors, source>>
    BY <1>7 DEF ReadProgramme, Skipped, NextElement, store
  <2>2. ShortTitles => Told(title)
    BY <2>1 DEF Readable, ShortTitles
  <2> QED
    BY <2>1, <2>2 DEF Readable
<1>8. CASE LoadFile
  BY <1>1, <1>2, <1>3, <1>5, <1>8 DEF LoadFile, RefuseFile, ReadService, StoreService,
     EndServices, EndTable, store
<1>9. CASE LoadXmltv
  BY <1>1, <1>4, <1>6, <1>7, <1>9 DEF LoadXmltv, ReadChannel, ReadChannelTsonid,
     SkipProgramme, EndProgramme, EndXmltv, store
<1> QED
  BY <1>1, <1>8, <1>9 DEF Next, vars

LEMMA ReadableAlways == Spec => []Readable
<1>1. Init => Readable
  BY DEF Init, Readable, Empty
<1> QED
  BY <1>1, TypeCorrect, IdsAlways, ReachAlways, StepReadable, PTL DEF Spec

(* What an event refers to can be read, so it has a description, and as     *)
(* many descriptors are made of it as a number tells.                       *)
ReadableLists == {s \in Seq(Seq(Nat)) : \A i \in DOMAIN s : Sound(s[i])}

FindsIds(f, ids) ==
  f = [i \in 0..Len(ids) |->
         IF i = 0 THEN <<>>
         ELSE IF ids[i] \in DOMAIN descriptors
                THEN Append(f[i - 1], descriptors[ids[i]].bytes)
         ELSE f[i - 1]]

LEMMA FoundReadable ==
  ASSUME Readable, NEW ids, Len(ids) \in Nat
  PROVE  Found(ids)[Len(ids)] \in ReadableLists
<1> DEFINE F == Found(ids)
           n == Len(ids)
           S == ReadableLists
           g == [p \in (1..n) \X S |->
                   IF ids[p[1]] \in DOMAIN descriptors
                     THEN Append(p[2], descriptors[ids[p[1]]].bytes)
                   ELSE p[2]]
<1>1. <<>> \in S
  BY DEF ReadableLists
<1>2. \A i \in 1..n, s \in S : ids[i] \in DOMAIN descriptors =>
        Append(s, descriptors[ids[i]].bytes) \in S
  <2> TAKE i \in 1..n, s \in S
  <2> DEFINE b == descriptors[ids[i]].bytes
  <2> HAVE ids[i] \in DOMAIN descriptors
  <2>1. b \in Seq(Nat) /\ Sound(b)
    BY DEF Readable
  <2>2. s \in Seq(Seq(Nat)) /\ \A j \in DOMAIN s : Sound(s[j])
    BY DEF ReadableLists
  <2> HIDE DEF b, S
  <2>3. /\ Append(s, b) \in Seq(Seq(Nat))
        /\ \A j \in DOMAIN Append(s, b) : Append(s, b)[j] = b \/ (j \in DOMAIN s /\ Append(s, b)[j] = s[j])
    BY <2>1, <2>2
  <2>4. \A j \in DOMAIN Append(s, b) : Sound(Append(s, b)[j])
    BY <2>1, <2>2, <2>3
  <2> QED
    BY <2>3, <2>4 DEF S, ReadableLists, b
<1> HIDE DEF S
<1>3. g \in [(1..n) \X S -> S]
  <2>1. \A i \in 1..n, s \in S :
          (IF ids[i] \in DOMAIN descriptors THEN Append(s, descriptors[ids[i]].bytes) ELSE s) \in S
    BY <1>2
  <2> QED
    BY <2>1
<1>4. \E f : FindsIds(f, ids)
  <2>1. PICK f : Repeats(f, S, <<>>, n, g)
    <3>1. n \in Nat
      OBVIOUS
    <3> HIDE DEF g, n
    <3> QED
      BY <3>1, <1>1, <1>3, RepetitionExists
  <2>2. /\ f \in [0..n -> S]
        /\ f = [i \in 0..n |-> IF i = 0 THEN <<>> ELSE g[<<i, f[i - 1]>>]]
    BY <2>1 DEF Repeats
  <2>3. \A i \in 0..n : i # 0 => i \in 1..n /\ f[i - 1] \in S
    <3>1. n \in Nat /\ f \in [0..n -> S]
      BY <2>2
    <3> HIDE DEF g, n
    <3> QED
      BY <3>1
  <2>4. \A i \in 0..n : i # 0 =>
          g[<<i, f[i - 1]>>] = IF ids[i] \in DOMAIN descriptors
                                 THEN Append(f[i - 1], descriptors[ids[i]].bytes)
                               ELSE f[i - 1]
    BY <2>3
  <2>5. f = [i \in 0..n |-> IF i = 0 THEN <<>>
                            ELSE IF ids[i] \in DOMAIN descriptors
                                   THEN Append(f[i - 1], descriptors[ids[i]].bytes)
                            ELSE f[i - 1]]
    <3> HIDE DEF g, n
    <3> QED
      BY <2>2, <2>4
  <2> QED
    BY <2>5 DEF FindsIds
<1>5. F = CHOOSE f : FindsIds(f, ids)
  BY DEF Found, FindsIds
<1>6. FindsIds(F, ids)
  <2> HIDE DEF F
  <2> QED
    BY <1>4, <1>5
<1> HIDE DEF F, g
<1>7. \A i \in 0..n :
        F[i] = IF i = 0 THEN <<>>
               ELSE IF ids[i] \in DOMAIN descriptors
                      THEN Append(F[i - 1], descriptors[ids[i]].bytes)
               ELSE F[i - 1]
  BY <1>6 DEF FindsIds
<1> DEFINE T == {i \in 0..n : F[i] \notin S}
<1>8. ASSUME T # {} PROVE FALSE
  <2>1. T \in SUBSET Nat
    OBVIOUS
  <2>2. Min(T) \in T /\ \A y \in T : Min(T) <= y
    <3> HIDE DEF T
    <3> QED
      BY <1>8, <2>1, MinNat
  <2>3. PICK m \in T : \A y \in T : m <= y
    BY <2>2
  <2>4. m \in 0..n /\ F[m] \notin S
    OBVIOUS
  <2>5. m # 0
    BY <1>1, <1>7, <2>4
  <2>6. m \in 1..n /\ m - 1 \in 0..n /\ ~(m <= m - 1)
    BY <2>4, <2>5
  <2>7. F[m - 1] \in S
    BY <2>3, <2>6
  <2>8. F[m] = IF ids[m] \in DOMAIN descriptors THEN Append(F[m - 1], descriptors[ids[m]].bytes)
               ELSE F[m - 1]
    BY <1>7, <2>4, <2>5
  <2> QED
    BY <1>2, <2>4, <2>6, <2>7, <2>8
<1>9. n \in 0..n
  OBVIOUS
<1> QED
  BY <1>8, <1>9 DEF F, S

LEMMA BeforeReadable ==
  ASSUME NEW data \in Seq(Seq(Nat)), AllSound(data), NEW len
  PROVE  Before(data, len) \in ReadableLists
<1> DEFINE behind == {i \in DOMAIN data : Ends(data)[i - 1] >= len}
           at == Min(behind)
<1>1. data \in ReadableLists
  BY DEF ReadableLists, AllSound
<1>2. behind \in SUBSET Nat /\ behind \subseteq DOMAIN data
  OBVIOUS
<1>3. Before(data, len) = IF behind = {} THEN data ELSE SubSeq(data, 1, at - 1)
  BY DEF Before
<1> HIDE DEF behind
<1>4. ASSUME behind # {} PROVE SubSeq(data, 1, at - 1) \in ReadableLists
  <2>0. at \in behind
    BY <1>2, <1>4, MinNat
  <2> HIDE DEF at
  <2>1. at \in DOMAIN data /\ DOMAIN data = 1..Len(data) /\ Len(data) \in Nat
    BY <1>2, <2>0
  <2> DEFINE front == SubSeq(data, 1, at - 1)
  <2>2. /\ front \in Seq(Seq(Nat)) /\ DOMAIN front = 1..(at - 1)
        /\ \A i \in 1..(at - 1) : front[i] = data[i] /\ i \in DOMAIN data
    BY <2>1
  <2> HIDE DEF front
  <2>3. \A i \in DOMAIN front : Sound(front[i])
    BY <2>2 DEF AllSound
  <2> QED
    BY <2>2, <2>3 DEF ReadableLists, front
<1> QED
  BY <1>1, <1>3, <1>4

LEMMA TakenReadable ==
  ASSUME NEW e \in EventData, AllSound(e.data), AllSound(e.behind)
  PROVE  Taken(e) \in ReadableLists
<1>1. e.data \in Seq(Seq(Nat)) /\ e.behind \in Seq(Seq(Nat))
  BY DEF EventData
<1> DEFINE data   == e.data
           behind == e.behind
           len    == HighRead(e) * LenMod + (Ends(e.data)[Len(e.data)] % LenMod)
<1>2. /\ data \in ReadableLists
      /\ \A i \in DOMAIN data : Sound(data[i])
      /\ \A i \in DOMAIN behind : Sound(behind[i])
  BY <1>1 DEF AllSound, ReadableLists
<1>3. Before(data, len) \in ReadableLists
  BY <1>1, BeforeReadable
<1>4. Taken(e) \in {data, Before(data, len), data \o behind}
  <2> DEFINE high == HighRead(e)
             true == TrueHigh(e)
             before == Before(data, len)
             joined == data \o behind
  <2>1. Taken(e) = CASE high = true -> data [] high < true -> before [] OTHER -> joined
    BY DEF Taken
  <2> HIDE DEF high, true, before, joined, data
  <2>2. Taken(e) \in {data, before, joined}
    <3>1. CASE high = true
      BY <2>1, <3>1, Zenon
    <3>2. CASE high # true /\ high < true
      BY <2>1, <3>2, Zenon
    <3>3. CASE high # true /\ ~(high < true)
      BY <2>1, <3>3, Zenon
    <3> QED
      BY <3>1, <3>2, <3>3
  <2> QED
    BY <2>2 DEF before, joined, data
<1>5. data \o behind \in ReadableLists
  <2> HIDE DEF data, behind
  <2>1. data \in Seq(Seq(Nat)) /\ behind \in Seq(Seq(Nat))
    BY <1>1 DEF data, behind
  <2>2. /\ data \o behind \in Seq(Seq(Nat))
        /\ \A i \in DOMAIN (data \o behind) :
             \/ i \in DOMAIN data /\ (data \o behind)[i] = data[i]
             \/ i - Len(data) \in DOMAIN behind /\ (data \o behind)[i] = behind[i - Len(data)]
    BY <2>1
  <2>3. \A i \in DOMAIN (data \o behind) : Sound((data \o behind)[i])
    BY <1>2, <2>2
  <2> QED
    BY <2>2, <2>3 DEF ReadableLists
<1> HIDE DEF len, data, behind
<1> QED
  BY <1>2, <1>3, <1>4, <1>5

LEMMA ResolvedReadable ==
  ASSUME TypeOK, Readable, NEW n \in DOMAIN heap
  PROVE  Resolved(heap[n]) \in ReadableLists
<1> DEFINE e == heap[n]
<1>1. e \in EventData /\ e.data \in Seq(Seq(Nat)) /\ e.inline \in BOOLEAN
  <2>1. heap \in Seq(EventData)
    BY DEF TypeOK
  <2>2. e \in EventData
    BY <2>1
  <2> QED
    BY <2>2 DEF EventData
<1>2. CASE e.inline
  <2>1. Taken(e) \in ReadableLists
    BY <1>1, <1>2, TakenReadable DEF Readable
  <2> QED
    BY <1>2, <2>1 DEF Resolved
<1>3. CASE ~e.inline /\ e.order = data_endian
  <2>1. Found(e.data)[Len(e.data)] \in ReadableLists
    BY <1>1, FoundReadable
  <2> QED
    BY <1>3, <2>1 DEF Resolved
<1>4. CASE ~e.inline /\ e.order # data_endian
  BY <1>4 DEF Resolved, ReadableLists
<1> QED
  BY <1>2, <1>3, <1>4

IsList(s) == \E n \in Nat : DOMAIN s = 1..n

LEMMA EncodedList ==
  ASSUME TypeOK, Readable, NEW n \in DOMAIN heap, NEW order
  PROVE  IsList(Encoded(View(heap[n]), order))
<1> DEFINE ds      == Resolved(heap[n])
           view    == View(heap[n])
           short   == V7Short(view.title, view.text)
           chunks  == Chunks(view.desc)
           exts    == [i \in DOMAIN chunks |-> ExtendedEvent(i, chunks[i], order)]
<1>1. ds \in Seq(Seq(Nat)) /\ \A i \in DOMAIN ds : HoldsText(ds[i])
  BY ResolvedReadable DEF ReadableLists, Sound
<1>2. view.desc = Content(ds).desc
  BY DEF View, Content
<1> HIDE DEF ds
<1>3. view.desc \in Seq(Nat)
  BY <1>1, <1>2, DescriptionType
<1>4. Encoded(view, order) = <<short>> \o exts
  BY DEF Encoded, EventDescriptors
<1> HIDE DEF view, short
<1>5. chunks \in Seq(Seq(Nat))
  BY <1>3, ChunksType
<1> HIDE DEF chunks
<1>6. \E m \in Nat : DOMAIN exts = 1..m
  BY <1>5
<1> HIDE DEF exts
<1>7. IsList(<<short>> \o exts)
  <2>1. DOMAIN (<<short>> \o exts) = 1..(Len(exts) + 1) /\ Len(exts) \in Nat
    BY <1>6
  <2> QED
    BY <2>1 DEF IsList
<1> QED
  BY <1>4, <1>7 DEF view
-----------------------------------------------------------------------------
(* What has been written so far: services of the memory, each as a list of  *)
(* records, and of the service that is being written what is left of it.    *)
IsRecords(w) == \E S : w \in Seq(S)

Idle == written = Empty /\ v7 = Empty /\ descriptors_target = Empty /\ writing = None

WritesInv ==
  /\ stage = "idle" => Idle
  /\ stage # "idle" => phase = "loaded"
  /\ IsFun(written) /\ DOMAIN written \subseteq DOMAIN eventDB
  /\ \A k \in DOMAIN written : IsRecords(written[k])
  /\ writing # None =>
       /\ writing = [key |-> writing.key, left |-> writing.left]
       /\ writing.key \in DOMAIN written
       /\ writing.left \subseteq DOMAIN eventDB[writing.key].byTime

(* One more record in a service that has been begun.                        *)
LEMMA RecordAppended ==
  ASSUME NEW w, IsRecords(w), NEW r
  PROVE  /\ IsRecords(Append(w, r)) /\ Len(w) \in Nat
         /\ DOMAIN Append(w, r) = DOMAIN w \cup {Len(w) + 1}
         /\ Len(w) + 1 \notin DOMAIN w /\ Append(w, r)[Len(w) + 1] = r
         /\ \A i \in DOMAIN w : Append(w, r)[i] = w[i]
<1>1. PICK S : w \in Seq(S)
  BY DEF IsRecords
<1>2. w \in Seq(S \cup {r}) /\ r \in S \cup {r}
  BY <1>1
<1>3. Append(w, r) \in Seq(S \cup {r})
  BY <1>2
<1>4. /\ DOMAIN Append(w, r) = 1..(Len(w) + 1) /\ DOMAIN w = 1..Len(w) /\ Len(w) \in Nat
      /\ Append(w, r)[Len(w) + 1] = r
      /\ \A i \in 1..Len(w) : Append(w, r)[i] = w[i]
  BY <1>2
<1>5. IsRecords(Append(w, r))
  BY <1>3 DEF IsRecords
<1> QED
  BY <1>4, <1>5

LEMMA RecordAdded ==
  ASSUME WritesInv, NEW k \in DOMAIN written, NEW r,
         written' = [written EXCEPT ![k] = Append(@, r)],
         NEW m, m = Len(written[k]) + 1
  PROVE  /\ IsFun(written)' /\ DOMAIN written' = DOMAIN written
         /\ written'[k] = Append(written[k], r)
         /\ \A j \in DOMAIN written \ {k} : written'[j] = written[j]
         /\ \A j \in DOMAIN written : IsRecords(written'[j])
         /\ IsAdded(<<k, m>>, RecordIds, RecordIds') /\ RecordIds'[<<k, m>>] = r.refs
<1>1. IsFun(written) /\ \A j \in DOMAIN written : IsRecords(written[j])
  BY DEF WritesInv
<1>2. IsFun(written') /\ DOMAIN written' = DOMAIN written
  BY <1>1 DEF IsFun
<1>3. written'[k] = Append(written[k], r)
  BY <1>1
<1>4. \A j \in DOMAIN written \ {k} : written'[j] = written[j]
  BY <1>1
<1>5. /\ IsRecords(written'[k]) /\ DOMAIN written'[k] = DOMAIN written[k] \cup {m}
      /\ m \notin DOMAIN written[k] /\ written'[k][m] = r
      /\ \A i \in DOMAIN written[k] : written'[k][i] = written[k][i]
  BY <1>1, <1>3, RecordAppended
<1>6. \A j \in DOMAIN written : IsRecords(written'[j])
  BY <1>1, <1>4, <1>5
<1> DEFINE at    == UNION {{j} \X DOMAIN written[j] : j \in DOMAIN written}
           later == UNION {{j} \X DOMAIN written'[j] : j \in DOMAIN written'}
<1>7. later = at \cup {<<k, m>>} /\ <<k, m>> \notin at
  BY <1>2, <1>4, <1>5
<1>8. \A p \in at : written'[p[1]][p[2]] = written[p[1]][p[2]]
  BY <1>4, <1>5
<1>9. /\ RecordIds = [p \in at |-> written[p[1]][p[2]].refs]
      /\ RecordIds' = [p \in later |-> written'[p[1]][p[2]].refs]
  BY DEF RecordIds
<1> HIDE DEF at, later
<1>10. IsAdded(<<k, m>>, RecordIds, RecordIds')
  <2>1. DOMAIN RecordIds = at /\ DOMAIN RecordIds' = later
    BY <1>9
  <2>2. ASSUME NEW p \in at PROVE RecordIds'[p] = RecordIds[p]
    <3>1. RecordIds[p] = written[p[1]][p[2]].refs /\ RecordIds'[p] = written'[p[1]][p[2]].refs
      BY <1>7, <1>9
    <3> QED
      BY <1>8, <3>1
  <2> QED
    BY <1>7, <2>1, <2>2 DEF IsAdded
<1>11. RecordIds'[<<k, m>>] = r.refs
  BY <1>5, <1>7, <1>9
<1> QED
  BY <1>2, <1>3, <1>4, <1>6, <1>10, <1>11

(* What writing an event does.                                              *)
LEMMA EventWritten ==
  ASSUME NEW t \in writing.left, SaveEvent(t),
         NEW k, k = writing.key, NEW n, n = eventDB[k].byTime[t],
         NEW ds, ds = Encoded(View(heap[n]), target)
  PROVE  /\ \/ /\ n \in DOMAIN v7 /\ UNCHANGED <<v7, descriptors_target>>
               /\ written' = [written EXCEPT ![k] = Append(@, EmptyRecord)]
            \/ /\ n \notin DOMAIN v7
               /\ v7' = Put(v7, n, Crcs(ds))
               /\ descriptors_target' = Intern(descriptors_target, ds)
               /\ written' = [written EXCEPT ![k] = Append(@, Record(heap[n], Crcs(ds)))]
         /\ n \notin DOMAIN v7 => ~Throws(Resolved(heap[n]))
         /\ writing # None /\ stage = "events"
         /\ writing' = [writing EXCEPT !.left = @ \ {t}]
         /\ UNCHANGED <<vars, stage, target, table>>
BY DEF SaveEvent

LEMMA IdleWrites == Idle /\ stage = "idle" => WritesInv
BY DEF Idle, WritesInv, IsFun, Empty

LEMMA StepWrites ==
  TypeOK /\ StillLoading /\ WritesInv /\ [FileNext]_fileVars => WritesInv'
<1> SUFFICES ASSUME TypeOK, StillLoading, WritesInv, [FileNext]_fileVars
             PROVE  WritesInv'
  OBVIOUS
<1>1. ASSUME Next, UNCHANGED saveVars PROVE WritesInv'
  <2>1. stage = "idle"
    BY <1>1, LoadedIsFinal DEF WritesInv
  <2>2. Idle' /\ stage' = "idle"
    BY <1>1, <2>1 DEF WritesInv, saveVars, Idle
  <2> QED
    BY <2>2 DEF Idle, WritesInv, IsFun, Empty
<1>2. CASE UNCHANGED fileVars
  BY <1>2 DEF fileVars, vars, saveVars, WritesInv, Idle
<1>3. ASSUME NEW order \in Orders, BeginSave(order) PROVE WritesInv'
  BY <1>3 DEF BeginSave, vars, WritesInv, Idle
<1>4. ASSUME NEW k \in Keys, SaveService(k) PROVE WritesInv'
  <2> DEFINE w == Put(written, k, <<>>)
  <2>1. IsFun(w) /\ DOMAIN w = DOMAIN written \cup {k}
    BY PutDomain
  <2>2. w[k] = <<>>
    BY PutValue
  <2>3. \A j \in DOMAIN written : j # k => w[j] = written[j]
    BY PutOther
  <2>4. /\ written' = w /\ writing' = [key |-> k, left |-> DOMAIN eventDB[k].byTime]
        /\ k \in DOMAIN eventDB /\ stage = "events" /\ UNCHANGED <<stage, phase, eventDB>>
    BY <1>4 DEF SaveService, vars
  <2>5. IsRecords(<<>>)
    BY DEF IsRecords
  <2> HIDE DEF w
  <2> QED
    BY <2>1, <2>2, <2>3, <2>4, <2>5 DEF WritesInv
<1>5. ASSUME NEW t \in writing.left, SaveEvent(t) PROVE WritesInv'
  <2> DEFINE k == writing.key
  <2>1. /\ \E r : written' = [written EXCEPT ![k] = Append(@, r)]
        /\ writing # None /\ stage = "events"
        /\ writing' = [writing EXCEPT !.left = @ \ {t}]
        /\ UNCHANGED <<stage, phase, eventDB>>
    BY <1>5, EventWritten DEF vars
  <2>2. k \in DOMAIN written
    BY <2>1 DEF WritesInv
  <2>3. /\ IsFun(written)' /\ DOMAIN written' = DOMAIN written
        /\ \A j \in DOMAIN written : IsRecords(written'[j])
    BY <2>1, <2>2, RecordAdded
  <2>4. writing' = [key |-> writing.key, left |-> writing.left \ {t}]
    BY <2>1 DEF WritesInv
  <2> QED
    BY <2>1, <2>3, <2>4 DEF WritesInv
<1>6. CASE AbortSave \/ EndService \/ SaveTable
  BY <1>6 DEF AbortSave, EndService, SaveTable, vars, WritesInv
<1> QED
  BY <1>1, <1>2, <1>3, <1>4, <1>5, <1>6 DEF FileNext, SaveStep
-----------------------------------------------------------------------------
(* Why the counts of the target's table are exact, in memory and in the     *)
(* file: each list of ids that get_v7 makes stands in exactly one record,   *)
(* and the records of events that were written before list nothing.         *)
Counted ==
  /\ \A id : IsFiniteSet(Places(v7, id)) /\ IsFiniteSet(Places(RecordIds, id))
  /\ \A id : References(RecordIds, id) = References(v7, id)
  /\ Counts(descriptors_target, v7)
  /\ \A p \in DOMAIN RecordIds : \A i \in DOMAIN RecordIds[p] :
       RecordIds[p][i] \in DOMAIN descriptors_target

Finished ==
  stage = "done" =>
    /\ DOMAIN written = DOMAIN eventDB
    /\ table = [id \in DOMAIN descriptors_target |-> descriptors_target[id].count]

(* A service that is begun has no records yet.                              *)
LEMMA ServiceBegun ==
  ASSUME NEW k, k \notin DOMAIN written, written' = Put(written, k, <<>>)
  PROVE  RecordIds' = RecordIds
<1>1. DOMAIN written' = DOMAIN written \cup {k}
  BY PutDomain
<1>2. DOMAIN written'[k] = {}
  <2>1. written'[k] = <<>>
    BY PutValue
  <2> QED
    BY <2>1
<1>3. \A j \in DOMAIN written : written'[j] = written[j]
  BY PutOther
<1> DEFINE at    == UNION {{j} \X DOMAIN written[j] : j \in DOMAIN written}
           later == UNION {{j} \X DOMAIN written'[j] : j \in DOMAIN written'}
<1>4. later = at
  BY <1>1, <1>2, <1>3
<1>5. \A p \in at : written'[p[1]][p[2]].refs = written[p[1]][p[2]].refs
  BY <1>3
<1>6. /\ RecordIds = [p \in at |-> written[p[1]][p[2]].refs]
      /\ RecordIds' = [p \in later |-> written'[p[1]][p[2]].refs]
  BY DEF RecordIds
<1> HIDE DEF at, later
<1> QED
  BY <1>4, <1>5, <1>6

(* The event that is written is one of the heap.                            *)
LEMMA WrittenEvent ==
  ASSUME TypeOK, WritesInv, writing # None, NEW t \in writing.left
  PROVE  /\ writing.key \in DOMAIN written /\ writing.key \in DOMAIN eventDB
         /\ t \in DOMAIN eventDB[writing.key].byTime
         /\ eventDB[writing.key].byTime[t] \in DOMAIN heap
<1>1. /\ writing.key \in DOMAIN written /\ writing.key \in DOMAIN eventDB
      /\ t \in DOMAIN eventDB[writing.key].byTime
  BY DEF WritesInv
<1>2. IsMaps(eventDB[writing.key], heap)
  BY <1>1 DEF TypeOK
<1> QED
  BY <1>1, <1>2 DEF IsMaps, IsMap

LEMMA EventCounted ==
  ASSUME TypeOK, Readable, WritesInv, Counted,
         NEW t \in writing.left, SaveEvent(t)
  PROVE  Counted'
<1> DEFINE k  == writing.key
           n  == eventDB[k].byTime[t]
           ds == Encoded(View(heap[n]), target)
           m  == Len(written[k]) + 1
<1>1. k \in DOMAIN written /\ n \in DOMAIN heap
  BY WrittenEvent DEF SaveEvent
<1>2. IsFiniteSet(DOMAIN ds) /\ DOMAIN Crcs(ds) = DOMAIN ds
  <2>1. IsList(ds)
    BY <1>1, EncodedList
  <2> HIDE DEF ds
  <2>2. PICK l \in Nat : DOMAIN ds = 1..l
    BY <2>1 DEF IsList
  <2>3. IsFiniteSet(1..l)
    BY FS_Interval
  <2> QED
    BY <2>2, <2>3 DEF Crcs
<1>3. \/ /\ n \in DOMAIN v7 /\ UNCHANGED <<v7, descriptors_target>>
         /\ written' = [written EXCEPT ![k] = Append(@, EmptyRecord)]
      \/ /\ n \notin DOMAIN v7
         /\ v7' = Put(v7, n, Crcs(ds))
         /\ descriptors_target' = Intern(descriptors_target, ds)
         /\ written' = [written EXCEPT ![k] = Append(@, Record(heap[n], Crcs(ds)))]
  BY EventWritten
<1>4. /\ \A id : IsFiniteSet(Places(v7, id)) /\ IsFiniteSet(Places(RecordIds, id))
      /\ \A id : References(RecordIds, id) = References(v7, id)
      /\ Counts(descriptors_target, v7)
      /\ \A p \in DOMAIN RecordIds : \A i \in DOMAIN RecordIds[p] :
           RecordIds[p][i] \in DOMAIN descriptors_target
  BY DEF Counted
<1> HIDE DEF ds, n, k, m
<1>5. CASE n \in DOMAIN v7
  <2>1. IsAdded(<<k, m>>, RecordIds, RecordIds') /\ RecordIds'[<<k, m>>] = EmptyRecord.refs
    BY <1>1, <1>3, <1>5, RecordAdded DEF m
  <2>2. EmptyRecord.refs = <<>>
    BY DEF EmptyRecord
  <2>3. DOMAIN RecordIds'[<<k, m>>] = {}
    BY <2>1, <2>2
  <2>4. \A id : PlacesIn(RecordIds'[<<k, m>>], id) = {}
    BY <2>3 DEF PlacesIn
  <2>5. Cardinality({}) = 0 /\ IsFiniteSet(DOMAIN RecordIds'[<<k, m>>])
    BY <2>3, FS_EmptySet
  <2>6. ASSUME NEW id
        PROVE  IsFiniteSet(Places(RecordIds', id)) /\ References(RecordIds', id) = References(RecordIds, id)
    <3>1. IsFiniteSet(Places(RecordIds, id)) /\ IsAdded(<<k, m>>, RecordIds, RecordIds')
      BY <1>4, <2>1
    <3>2. IsFiniteSet(Places(RecordIds', id)) /\ References(RecordIds, id) \in Nat
      BY <2>5, <3>1, ReferencesGrow
    <3>3. References(RecordIds', id)
            = References(RecordIds, id) + Cardinality(PlacesIn(RecordIds'[<<k, m>>], id))
      BY <2>5, <3>1, ReferencesGrow
    <3> QED
      BY <2>4, <2>5, <3>2, <3>3
  <2>7. \A p \in DOMAIN RecordIds' : \A i \in DOMAIN RecordIds'[p] :
          RecordIds'[p][i] \in DOMAIN descriptors_target
    BY <1>4, <2>1, <2>3 DEF IsAdded
  <2>8. v7' = v7 /\ descriptors_target' = descriptors_target
    BY <1>3, <1>5
  <2> QED
    BY <1>4, <2>6, <2>7, <2>8 DEF Counted
<1>6. CASE n \notin DOMAIN v7
  <2>1. /\ v7' = Put(v7, n, Crcs(ds)) /\ descriptors_target' = Intern(descriptors_target, ds)
        /\ written' = [written EXCEPT ![k] = Append(@, Record(heap[n], Crcs(ds)))]
    BY <1>3, <1>6
  <2>2. Record(heap[n], Crcs(ds)).refs = Crcs(ds)
    BY DEF Record
  <2>3. IsAdded(<<k, m>>, RecordIds, RecordIds') /\ RecordIds'[<<k, m>>] = Crcs(ds)
    BY <1>1, <2>1, <2>2, RecordAdded DEF m
  <2>4. IsAdded(n, v7, v7')
    <3>1. DOMAIN v7' = DOMAIN v7 \cup {n}
      BY <2>1, PutDomain
    <3>2. \A x \in DOMAIN v7 : v7'[x] = v7[x]
      BY <1>6, <2>1, PutOther
    <3> QED
      BY <1>6, <3>1, <3>2 DEF IsAdded
  <2>5. v7'[n] = Crcs(ds)
    BY <2>1, PutValue
  <2>6. IsFiniteSet(DOMAIN v7'[n]) /\ IsFiniteSet(DOMAIN RecordIds'[<<k, m>>])
    BY <1>2, <2>3, <2>5
  <2>7. ASSUME NEW id
        PROVE  /\ IsFiniteSet(Places(RecordIds', id))
               /\ References(RecordIds', id) = References(v7', id)
    <3>1. /\ IsFiniteSet(Places(RecordIds', id))
          /\ References(RecordIds', id)
               = References(RecordIds, id) + Cardinality(PlacesIn(RecordIds'[<<k, m>>], id))
      BY <1>4, <2>3, <2>6, ReferencesGrow
    <3>2. References(v7', id) = References(v7, id) + Cardinality(PlacesIn(v7'[n], id))
      BY <1>4, <2>4, <2>6, ReferencesGrow
    <3> QED
      BY <1>4, <2>3, <2>5, <3>1, <3>2
  <2>8. Counts(Intern(descriptors_target, ds), v7')
    BY <1>2, <1>4, <2>4, <2>5, InternCounts
  <2>9. \A id : IsFiniteSet(Places(v7', id))
    BY <1>2, <1>4, <2>4, <2>5, InternCounts
  <2>10. DOMAIN descriptors_target \subseteq DOMAIN descriptors_target'
    BY <2>1 DEF Intern
  <2>11. \A i \in DOMAIN Crcs(ds) : Crcs(ds)[i] \in DOMAIN descriptors_target'
    BY <2>1, <2>5, <2>8, <2>4 DEF Counts, IsAdded
  <2>12. \A p \in DOMAIN RecordIds' : \A i \in DOMAIN RecordIds'[p] :
           RecordIds'[p][i] \in DOMAIN descriptors_target'
    BY <1>4, <2>3, <2>10, <2>11 DEF IsAdded
  <2> QED
    BY <2>1, <2>7, <2>8, <2>9, <2>12 DEF Counted
<1> QED
  BY <1>5, <1>6

LEMMA StepCounted ==
  TypeOK /\ Readable /\ WritesInv /\ Counted /\ [FileNext]_fileVars => Counted'
<1> SUFFICES ASSUME TypeOK, Readable, WritesInv, Counted, [FileNext]_fileVars
             PROVE  Counted'
  OBVIOUS
<1>1. ASSUME UNCHANGED <<v7, written, descriptors_target>> PROVE Counted'
  <2>1. RecordIds' = RecordIds
    BY <1>1 DEF RecordIds
  <2> QED
    BY <1>1, <2>1 DEF Counted
<1>2. ASSUME NEW k \in Keys, SaveService(k) PROVE Counted'
  <2>1. RecordIds' = RecordIds
    BY <1>2, ServiceBegun DEF SaveService
  <2>2. v7' = v7 /\ descriptors_target' = descriptors_target
    BY <1>2 DEF SaveService
  <2> QED
    BY <2>1, <2>2 DEF Counted
<1>3. ASSUME writing # None, NEW t \in writing.left, SaveEvent(t) PROVE Counted'
  BY <1>3, EventCounted
<1>4. CASE SaveStep
  BY <1>1, <1>2, <1>3, <1>4 DEF SaveStep, BeginSave, AbortSave, EndService, SaveTable
<1> QED
  BY <1>1, <1>4 DEF FileNext, fileVars, saveVars

LEMMA StepFinished ==
  StillLoading /\ WritesInv /\ Finished /\ [FileNext]_fileVars => Finished'
<1> SUFFICES ASSUME StillLoading, WritesInv, Finished, [FileNext]_fileVars
             PROVE  Finished'
  OBVIOUS
<1>1. ASSUME Next, UNCHANGED saveVars PROVE Finished'
  BY <1>1, LoadedIsFinal DEF WritesInv, saveVars, Finished
<1>2. CASE SaveTable
  BY <1>2 DEF SaveTable, vars, Finished
<1>3. ASSUME NEW t \in writing.left, SaveEvent(t) PROVE Finished'
  BY <1>3 DEF SaveEvent, Finished
<1>4. CASE SaveStep
  BY <1>2, <1>3, <1>4 DEF SaveStep, BeginSave, SaveService, AbortSave, EndService, Finished
<1>5. CASE UNCHANGED fileVars
  BY <1>5 DEF fileVars, vars, saveVars, store, Finished
<1> QED
  BY <1>1, <1>4, <1>5 DEF FileNext

(* Nothing is written before saving begins.                                 *)
LEMMA InitSaved == FileInit => WritesInv /\ Counted /\ Finished
<1> SUFFICES ASSUME FileInit PROVE WritesInv /\ Counted /\ Finished
  OBVIOUS
<1>1. /\ stage = "idle" /\ written = Empty /\ v7 = Empty /\ descriptors_target = Empty
      /\ writing = None
  BY DEF FileInit
<1>2. WritesInv
  BY <1>1, IdleWrites DEF Idle
<1>3. DOMAIN Empty = {}
  BY DEF Empty
<1>4. DOMAIN RecordIds = {}
  BY <1>1, <1>3 DEF RecordIds
<1>5. \A id : Places(v7, id) = {} /\ Places(RecordIds, id) = {}
  BY <1>1, <1>3, <1>4 DEF Places
<1>6. Counts(descriptors_target, v7)
  BY <1>1, <1>3 DEF Counts
<1>7. Counted
  BY <1>4, <1>5, <1>6, FS_EmptySet DEF Counted, References
<1> QED
  BY <1>1, <1>2, <1>7 DEF Finished

LEMMA SavedAlways == FileSpec => [](WritesInv /\ Counted /\ Finished)
<1>1. WritesInv /\ Counted /\ Finished /\ TypeOK /\ StillLoading /\ Readable
        /\ [FileNext]_fileVars => (WritesInv /\ Counted /\ Finished)'
  BY StepWrites, StepCounted, StepFinished
<1> QED
  BY <1>1, InitSaved, FileLoads, TypeCorrect, LoadsAlways, ReadableAlways, PTL DEF FileSpec

(* The table that get_v7 fills while events are written counts exactly what *)
(* their EITdata_v7 refer to, for any memory a loader can leave (dvb.cpp    *)
(* 363-372, 416-426).                                                       *)
THEOREM TargetCountsAlwaysExact == FileSpec => []TargetCountsExact
<1>1. Counted => TargetCountsExact
  BY DEF Counted, TargetCountsExact
<1> QED
  BY <1>1, SavedAlways, PTL

(* A finished file needs nothing outside it: every service is there, every  *)
(* id of a record has its descriptor, and each count is that of the file's  *)
(* own references (epg.cpp 276-326, dvb.cpp 247-250, 544-565).              *)
THEOREM FilesAreSelfContained == FileSpec => []FileSelfContained
<1>1. Counted /\ Finished => FileSelfContained
  <2> SUFFICES ASSUME Counted, Finished, stage = "done"
               PROVE  /\ DOMAIN written = DOMAIN eventDB
                      /\ \A id \in DOMAIN table : table[id] = References(RecordIds, id) % RefMod
                      /\ \A p \in DOMAIN RecordIds : \A i \in DOMAIN RecordIds[p] :
                           RecordIds[p][i] \in DOMAIN table
    BY DEF FileSelfContained
  <2>1. /\ DOMAIN written = DOMAIN eventDB
        /\ table = [id \in DOMAIN descriptors_target |-> descriptors_target[id].count]
    BY DEF Finished
  <2>2. \A id \in DOMAIN table : table[id] = References(RecordIds, id) % RefMod
    BY <2>1 DEF Counted, Counts
  <2> QED
    BY <2>1, <2>2 DEF Counted
<1> QED
  BY <1>1, SavedAlways, PTL
-----------------------------------------------------------------------------
(* Why only a shared event loses its contents: an event has its EITdata_v7  *)
(* only since a service wrote it under some start time, which is no longer  *)
(* among those the service has left.                                        *)
Pending(j, s) == writing # None /\ writing.key = j /\ s \in writing.left

WrittenOnce ==
  \A n \in DOMAIN v7 :
    \E j \in DOMAIN written : \E s \in DOMAIN eventDB[j].byTime :
      eventDB[j].byTime[s] = n /\ ~Pending(j, s)

SharedWith(k, j) ==
  \E s \in DOMAIN eventDB[j].byTime, t \in DOMAIN eventDB[k].byTime :
    eventDB[j].byTime[s] = eventDB[k].byTime[t]

(* The length byte of an event with contents is not 0, as it is a multiple  *)
(* of 4 and 10 more.                                                        *)
LEMMA LengthNotNull == \A m \in Nat : (10 + 4 * m) % 256 # 0
<1> TAKE m \in Nat
<1>1. 10 + 4 * m \in Int
  OBVIOUS
<1>2. ASSUME NEW x \in Int, x % 256 = 0 PROVE \E q \in Int : x = 256 * q
  <2>1. x = 256 * (x \div 256) + (x % 256) /\ x \div 256 \in Int
    OBVIOUS
  <2> QED
    BY <1>2, <2>1
<1>3. ASSUME (10 + 4 * m) % 256 = 0 PROVE FALSE
  <2>1. PICK q \in Int : 10 + 4 * m = 256 * q
    BY <1>1, <1>2, <1>3
  <2> QED
    BY <2>1
<1> QED
  BY <1>3

(* An event that is written again belongs to a service written before.      *)
LEMMA WrittenBefore ==
  ASSUME MapsAgree, WrittenOnce, TypeOK, WritesInv,
         writing # None, NEW t \in writing.left,
         eventDB[writing.key].byTime[t] \in DOMAIN v7
  PROVE  \E j \in DOMAIN written \ {writing.key} : SharedWith(writing.key, j)
<1> DEFINE k == writing.key
           n == eventDB[k].byTime[t]
<1>1. k \in DOMAIN eventDB /\ t \in DOMAIN eventDB[k].byTime
  BY WrittenEvent
<1>2. PICK j \in DOMAIN written :
        \E s \in DOMAIN eventDB[j].byTime : eventDB[j].byTime[s] = n /\ ~Pending(j, s)
  BY DEF WrittenOnce
<1>3. \A y \in DOMAIN eventDB[k].byTime : heap[eventDB[k].byTime[y]].start = y
  BY <1>1 DEF MapsAgree, Agree
<1>4. ASSUME j = k PROVE FALSE
  <2>1. PICK s \in DOMAIN eventDB[k].byTime : eventDB[k].byTime[s] = n /\ ~Pending(k, s)
    BY <1>2, <1>4
  <2>2. s = t
    BY <1>1, <1>3, <2>1
  <2> QED
    BY <2>1, <2>2 DEF Pending
<1> QED
  BY <1>1, <1>2, <1>4 DEF SharedWith

LEMMA StepOnce ==
  StillLoading /\ WritesInv /\ WrittenOnce /\ [FileNext]_fileVars => WrittenOnce'
<1> SUFFICES ASSUME StillLoading, WritesInv, WrittenOnce, [FileNext]_fileVars
             PROVE  WrittenOnce'
  OBVIOUS
<1>1. ASSUME Next, UNCHANGED saveVars PROVE WrittenOnce'
  <2>1. v7' = Empty
    BY <1>1, LoadedIsFinal DEF WritesInv, Idle, saveVars
  <2>2. DOMAIN v7' = {}
    BY <2>1 DEF Empty
  <2> QED
    BY <2>2 DEF WrittenOnce
<1>2. ASSUME UNCHANGED <<v7, written, writing, eventDB>> PROVE WrittenOnce'
  BY <1>2 DEF WrittenOnce, Pending
<1>3. ASSUME NEW k \in Keys, SaveService(k) PROVE WrittenOnce'
  <2>1. DOMAIN written' = DOMAIN written \cup {k}
    BY <1>3, PutDomain DEF SaveService
  <2>2. /\ writing'.key = k /\ k \notin DOMAIN written
        /\ v7' = v7 /\ eventDB' = eventDB
    BY <1>3 DEF SaveService, vars
  <2> QED
    BY <2>1, <2>2 DEF WrittenOnce, Pending
<1>4. CASE EndService
  <2>1. writing' = None /\ UNCHANGED <<v7, written, eventDB>>
    BY <1>4 DEF EndService, vars
  <2> QED
    BY <2>1 DEF WrittenOnce, Pending
<1>5. ASSUME writing # None, NEW t \in writing.left, SaveEvent(t) PROVE WrittenOnce'
  <2> DEFINE k  == writing.key
             n  == eventDB[k].byTime[t]
             ds == Encoded(View(heap[n]), target)
  <2>1. /\ DOMAIN v7' \subseteq DOMAIN v7 \cup {n}
        /\ \E r : written' = [written EXCEPT ![k] = Append(@, r)]
    <3>1. DOMAIN Put(v7, n, Crcs(ds)) = DOMAIN v7 \cup {n}
      BY PutDomain
    <3> QED
      BY <1>5, <3>1, EventWritten
  <2>2. DOMAIN written' = DOMAIN written
    BY <2>1
  <2>3. writing' = [key |-> k, left |-> writing.left \ {t}]
    BY <1>5, EventWritten DEF WritesInv
  <2>4. /\ k \in DOMAIN written /\ t \in DOMAIN eventDB[k].byTime /\ eventDB' = eventDB
    BY <1>5, EventWritten DEF WritesInv, vars
  <2>5. \A j, s : Pending(j, s)' => Pending(j, s) /\ ~(j = k /\ s = t)
    BY <1>5, <2>3 DEF Pending
  <2> HIDE DEF ds
  <2> QED
    BY <2>1, <2>2, <2>4, <2>5 DEF WrittenOnce
<1>6. CASE SaveStep
  BY <1>2, <1>3, <1>4, <1>5, <1>6 DEF SaveStep, BeginSave, AbortSave, SaveTable, vars, store
<1> QED
  BY <1>1, <1>2, <1>6 DEF FileNext, fileVars, vars, saveVars, store

LEMMA OnceAlways == FileSpec => []WrittenOnce
<1>1. FileInit => WrittenOnce
  BY DEF FileInit, WrittenOnce, Empty
<1> QED
  BY <1>1, StepOnce, SavedAlways, FileLoads, LoadsAlways, PTL DEF FileSpec

LEMMA StepShared ==
  TypeOK /\ Readable /\ MapsAgree /\ StillLoading /\ WritesInv /\ WrittenOnce
    /\ EmptyOnlyIfShared /\ [FileNext]_fileVars => EmptyOnlyIfShared'
<1> SUFFICES ASSUME TypeOK, Readable, MapsAgree, StillLoading, WritesInv, WrittenOnce,
                    EmptyOnlyIfShared, [FileNext]_fileVars
             PROVE  EmptyOnlyIfShared'
  OBVIOUS
<1>1. ASSUME Next, UNCHANGED saveVars PROVE EmptyOnlyIfShared'
  <2>1. written' = Empty
    BY <1>1, LoadedIsFinal DEF WritesInv, Idle, saveVars
  <2>2. DOMAIN written' = {}
    BY <2>1 DEF Empty
  <2> QED
    BY <2>2 DEF EmptyOnlyIfShared
<1>2. ASSUME UNCHANGED <<written, eventDB>> PROVE EmptyOnlyIfShared'
  BY <1>2 DEF EmptyOnlyIfShared
<1>3. ASSUME NEW k \in Keys, SaveService(k) PROVE EmptyOnlyIfShared'
  <2> DEFINE w == Put(written, k, <<>>)
  <2>1. /\ written' = w /\ eventDB' = eventDB /\ k \notin DOMAIN written
    BY <1>3 DEF SaveService, vars
  <2>2. DOMAIN w = DOMAIN written \cup {k}
    BY PutDomain
  <2>3. w[k] = <<>>
    BY PutValue
  <2>4. \A j \in DOMAIN written : w[j] = written[j]
    BY <2>1, PutOther
  <2> HIDE DEF w
  <2>5. DOMAIN w[k] = {}
    BY <2>3
  <2> QED
    BY <2>1, <2>2, <2>4, <2>5 DEF EmptyOnlyIfShared
<1>4. ASSUME writing # None, NEW t \in writing.left, SaveEvent(t) PROVE EmptyOnlyIfShared'
  <2> DEFINE k  == writing.key
             n  == eventDB[k].byTime[t]
             ds == Encoded(View(heap[n]), target)
             m  == Len(written[k]) + 1
  <2>1. k \in DOMAIN written /\ n \in DOMAIN heap /\ eventDB' = eventDB
    BY <1>4, WrittenEvent, EventWritten DEF vars
  <2>2. PICK r : /\ written' = [written EXCEPT ![k] = Append(@, r)]
                 /\ n \notin DOMAIN v7 => r = Record(heap[n], Crcs(ds))
    <3>1. \/ n \in DOMAIN v7 /\ written' = [written EXCEPT ![k] = Append(@, EmptyRecord)]
          \/ /\ n \notin DOMAIN v7
             /\ written' = [written EXCEPT ![k] = Append(@, Record(heap[n], Crcs(ds)))]
      BY <1>4, EventWritten
    <3> HIDE DEF n, k, ds
    <3> QED
      BY <3>1
  <2>3. /\ DOMAIN written' = DOMAIN written /\ written'[k] = Append(written[k], r)
        /\ \A j \in DOMAIN written \ {k} : written'[j] = written[j]
    BY <2>1, <2>2, RecordAdded
  <2>4. /\ DOMAIN written'[k] = DOMAIN written[k] \cup {m} /\ written'[k][m] = r
        /\ \A i \in DOMAIN written[k] : written'[k][i] = written[k][i]
    BY <2>1, <2>3, RecordAppended DEF WritesInv
  <2>5. r.len = 0 => n \in DOMAIN v7
    <3>1. IsList(ds)
      BY <2>1, EncodedList
    <3> HIDE DEF ds
    <3>2. IsList(Crcs(ds))
      BY <3>1 DEF IsList, Crcs
    <3>3. Len(Crcs(ds)) \in Nat
      BY <3>2 DEF IsList
    <3>4. Record(heap[n], Crcs(ds)).len = (10 + 4 * Len(Crcs(ds))) % 256
      BY DEF Record
    <3>5. Record(heap[n], Crcs(ds)).len # 0
      BY <3>3, <3>4, LengthNotNull
    <3> QED
      BY <2>2, <3>5
  <2>6. n \in DOMAIN v7 => \E j \in DOMAIN written \ {k} : SharedWith(k, j)
    BY <1>4, WrittenBefore
  <2> HIDE DEF k, n, ds, m
  <2>7. \A j \in DOMAIN written : \A i \in DOMAIN written[j] :
          written[j][i].len = 0 => \E l \in DOMAIN written \ {j} : SharedWith(j, l)
    BY DEF EmptyOnlyIfShared, SharedWith
  <2>8. \A j \in DOMAIN written : \A i \in DOMAIN written'[j] :
          written'[j][i].len = 0 => \E l \in DOMAIN written \ {j} : SharedWith(j, l)
    BY <2>3, <2>4, <2>5, <2>6, <2>7
  <2> QED
    BY <2>1, <2>3, <2>8 DEF EmptyOnlyIfShared, SharedWith
<1>5. CASE SaveStep
  BY <1>2, <1>3, <1>4, <1>5 DEF SaveStep, BeginSave, AbortSave, EndService, SaveTable,
     vars, store
<1> QED
  BY <1>1, <1>2, <1>5 DEF FileNext, fileVars, vars, saveVars, store

(* Without sharing, writing loses nothing: a record lacks its contents only *)
(* where another service of the file wrote the same event (dvb.cpp 249,     *)
(* epg.cpp 309-314).                                                        *)
THEOREM OnlySharedEventsAreEmpty == FileSpec => []EmptyOnlyIfShared
<1>1. FileInit => EmptyOnlyIfShared
  BY DEF FileInit, EmptyOnlyIfShared, Empty
<1> QED
  BY <1>1, StepShared, SavedAlways, OnceAlways, FileLoads, TypeCorrect, LoadsAlways,
     ReadableAlways, MapsAlwaysAgree, PTL DEF FileSpec
-----------------------------------------------------------------------------
(* Why a finished file gives the memory back.  What get_v7 makes of an      *)
(* event, however it was read: texts of a length one byte tells, so that    *)
(* its descriptors have ids of their own.                                   *)
LEMMA ViewTold ==
  ASSUME TypeOK, Readable, ShortTitles, NEW n \in DOMAIN heap,
         NEW view, view = View(heap[n])
  PROVE  /\ Told(view.title) /\ Told(view.text) /\ view.desc \in Seq(Nat)
         /\ view = [title |-> view.title, text |-> view.text, desc |-> view.desc]
<1> DEFINE ds == Resolved(heap[n])
           c  == Content(ds)
<1>1. /\ ds \in Seq(Seq(Nat)) /\ \A i \in DOMAIN ds : HoldsText(ds[i])
      /\ \A i \in DOMAIN ds : HoldsTitle(ds[i])
  BY ResolvedReadable DEF ReadableLists, Sound
<1>2. c = [title |-> c.title, text |-> c.text, desc |-> c.desc]
  BY DEF Content
<1>3. view = IF heap[n].inline
               THEN [c EXCEPT !.text = SubSeq(@, 1, Min({Len(@), LenMod - 5}))]
             ELSE c
  BY DEF View
<1> HIDE DEF ds
<1>4. c.desc \in Seq(Nat) /\ Told(c.title) /\ Told(c.text)
  BY <1>1, DescriptionType, ContentTold
<1> HIDE DEF c
<1>5. CASE heap[n].inline
  <2> DEFINE cut == Min({Len(c.text), LenMod - 5})
             t   == SubSeq(c.text, 1, cut)
  <2>1. /\ view = [title |-> c.title, text |-> t, desc |-> c.desc]
    BY <1>2, <1>3, <1>5
  <2>2. c.text \in Seq(Nat) /\ Len(c.text) \in Nat /\ Len(c.text) + 1 < LenMod
    BY <1>4 DEF Told
  <2>3. LenMod - 5 \in Nat
    BY DescriptorAssumption DEF DescriptorAssumption
  <2>4. cut \in Nat /\ cut <= Len(c.text)
    <3> DEFINE S == {Len(c.text), LenMod - 5}
    <3>1. S \in SUBSET Nat /\ S # {}
      BY <2>2, <2>3
    <3>2. Len(c.text) \in S
      OBVIOUS
    <3> HIDE DEF S
    <3>3. Min(S) \in S /\ \A y \in S : Min(S) <= y
      BY <3>1, MinNat
    <3> QED
      BY <3>1, <3>2, <3>3 DEF S
  <2> HIDE DEF cut
  <2>5. t \in Seq(Nat) /\ Len(t) = cut
    <3>1. 1 <= cut + 1 /\ cut - 1 + 1 = cut
      BY <2>4
    <3> QED
      BY <2>2, <2>4, <3>1, SubSeqFacts
  <2> HIDE DEF t
  <2>6. Told(t)
    <3>1. Len(t) + 1 < LenMod
      <4>1. LenMod \in Nat
        BY DescriptorAssumption DEF DescriptorAssumption
      <4> QED
        BY <2>2, <2>4, <2>5, <4>1
    <3> QED
      BY <2>5, <3>1 DEF Told
  <2> QED
    BY <1>4, <2>1, <2>6
<1>6. CASE ~heap[n].inline
  BY <1>2, <1>3, <1>4, <1>6
<1> QED
  BY <1>5, <1>6

LEMMA EventMade ==
  ASSUME TypeOK, Readable, ShortTitles, NEW n \in DOMAIN heap,
         NEW view, view = View(heap[n]), NEW order
  PROVE  IsMadeOf(Encoded(view, order), V7Short(view.title, view.text))
<1>1. Told(view.title) /\ Told(view.text) /\ view.desc \in Seq(Nat)
  BY ViewTold
<1>2. Encoded(view, order) = EventDescriptors(V7Short(view.title, view.text), view.desc, order)
  BY DEF Encoded
<1> QED
  BY <1>1, <1>2, EncodedMade

(* Of each id the table holds the descriptor the id was made of.            *)
MadeTable == ShortTitles => IsMadeTable(descriptors_target)

LEMMA StepMade == TypeOK /\ Readable /\ WritesInv /\ MadeTable /\ [FileNext]_fileVars => MadeTable'
<1> SUFFICES ASSUME TypeOK, Readable, WritesInv, MadeTable, [FileNext]_fileVars, ShortTitles
             PROVE  IsMadeTable(descriptors_target')
  BY DEF MadeTable
<1>1. IsMadeTable(descriptors_target)
  BY DEF MadeTable
<1>2. ASSUME writing # None, NEW t \in writing.left, SaveEvent(t)
      PROVE  IsMadeTable(descriptors_target')
  <2> DEFINE n    == eventDB[writing.key].byTime[t]
             view == View(heap[n])
             ds   == Encoded(view, target)
  <2>1. n \in DOMAIN heap
    BY <1>2, WrittenEvent
  <2>2. descriptors_target' \in {descriptors_target, Intern(descriptors_target, ds)}
    BY <1>2, EventWritten
  <2> HIDE DEF n
  <2>3. IsMadeOf(ds, V7Short(view.title, view.text))
    BY <2>1, EventMade
  <2> HIDE DEF view, ds
  <2>4. IsMadeTable(Intern(descriptors_target, ds))
    BY <1>1, <2>3, InternMade DEF IsMadeOf
  <2> QED
    BY <1>1, <2>2, <2>4
<1>3. CASE UNCHANGED descriptors_target
  BY <1>1, <1>3
<1>4. CASE SaveStep
  BY <1>2, <1>3, <1>4 DEF SaveStep, BeginSave, SaveService, AbortSave, EndService, SaveTable
<1> QED
  BY <1>3, <1>4 DEF FileNext, fileVars, saveVars
-----------------------------------------------------------------------------
(* Where no key in memory is redirected no two services share an event, and *)
(* there is a record with contents of every event that was written, and of  *)
(* no other.                                                                *)
NothingRedirected == source = "XMLTV" => DOMAIN eventDB \cap DOMAIN tvmap = {}

IsWritten(k, t) ==
  k \in DOMAIN written /\ t \in DOMAIN eventDB[k].byTime /\ ~Pending(k, t)

EventRecord(k, t) ==
  Record(heap[eventDB[k].byTime[t]],
         Crcs(Encoded(View(heap[eventDB[k].byTime[t]]), target)))

Breaks(k, t) == Throws(Resolved(heap[eventDB[k].byTime[t]]))

Kept ==
  /\ \A k \in DOMAIN written : \A i \in DOMAIN written[k] :
       \E t : IsWritten(k, t) /\ written[k][i] = EventRecord(k, t)
  /\ \A k, t : IsWritten(k, t) =>
       /\ \E i \in DOMAIN written[k] : written[k][i] = EventRecord(k, t)
       /\ ~Breaks(k, t)

(* What get_v7 makes of an event depends on the memory alone.               *)
FoundIn(ids, known) ==
  LET upTo[n \in 0..Len(ids)] ==
        IF n = 0 THEN <<>>
        ELSE IF ids[n] \in DOMAIN known
               THEN Append(upTo[n - 1], known[ids[n]].bytes)
        ELSE upTo[n - 1]
  IN upTo

ResolvedIn(e, known, order) ==
  CASE e.inline -> Taken(e)
    [] ~e.inline /\ e.order = order -> FoundIn(e.data, known)[Len(e.data)]
    [] OTHER -> <<>>

LEMMA ViewKept ==
  ASSUME UNCHANGED <<heap, descriptors, data_endian>>, NEW n
  PROVE  /\ View(heap[n])' = View(heap[n])
         /\ Throws(Resolved(heap[n]))' = Throws(Resolved(heap[n]))
         /\ Texts(heap[n])' = Texts(heap[n])
<1>1. \A ids : Found(ids) = FoundIn(ids, descriptors)
  BY DEF Found, FoundIn
<1>2. \A ids : Found(ids)' = FoundIn(ids, descriptors')
  BY DEF Found, FoundIn
<1>3. Resolved(heap[n]) = ResolvedIn(heap[n], descriptors, data_endian)
  BY <1>1 DEF Resolved, ResolvedIn
<1>4. Resolved(heap[n])' = ResolvedIn(heap'[n], descriptors', data_endian')
  BY <1>2 DEF Resolved, ResolvedIn
<1>5. Resolved(heap[n])' = Resolved(heap[n])
  BY <1>3, <1>4
<1>6. View(heap[n])' = View(heap[n])
  BY <1>5 DEF View
<1>7. Throws(Resolved(heap[n]))' = Throws(Resolved(heap[n]))
  BY <1>5
<1>8. Misread(heap[n])' = Misread(heap[n])
  OBVIOUS
<1> QED
  BY <1>6, <1>7, <1>8 DEF Texts

LEMMA RecordKept ==
  ASSUME UNCHANGED <<eventDB, heap, descriptors, data_endian, target>>, NEW k, NEW t
  PROVE  EventRecord(k, t)' = EventRecord(k, t) /\ Breaks(k, t)' = Breaks(k, t)
<1> DEFINE n == eventDB[k].byTime[t]
<1>1. View(heap[n])' = View(heap[n])
  BY ViewKept
<1>2. Crcs(Encoded(View(heap[n]), target))' = Crcs(Encoded(View(heap[n]), target))
  BY <1>1 DEF Encoded
<1>3. Throws(Resolved(heap[n]))' = Throws(Resolved(heap[n]))
  BY ViewKept
<1> QED
  BY <1>2, <1>3 DEF EventRecord, Record, Breaks

LEMMA NewEvent ==
  ASSUME ApartInv, NothingRedirected, MapsAgree, WrittenOnce, TypeOK, WritesInv,
         writing # None, NEW t \in writing.left
  PROVE  eventDB[writing.key].byTime[t] \notin DOMAIN v7
<1>1. SUFFICES ASSUME NEW j \in DOMAIN written \ {writing.key}, SharedWith(writing.key, j)
               PROVE  FALSE
  BY WrittenBefore
<1>2. writing.key \in DOMAIN eventDB /\ j \in DOMAIN eventDB /\ j # writing.key
  BY DEF WritesInv
<1>3. Unshared(writing.key) /\ Unshared(j)
  BY <1>2 DEF NothingRedirected, Unshared
<1>4. Apart(eventDB[j], eventDB[writing.key])
  BY <1>2, <1>3 DEF ApartInv
<1> QED
  BY <1>1, <1>4 DEF Apart, SharedWith

(* What is written stays written.                                           *)
LEMMA StaysWritten ==
  ASSUME WritesInv, SaveStep
  PROVE  \A k, t : IsWritten(k, t) => IsWritten(k, t)'
<1> SUFFICES ASSUME NEW k, NEW t, IsWritten(k, t) PROVE IsWritten(k, t)'
  OBVIOUS
<1>1. UNCHANGED eventDB
  BY SavingKeepsMemory DEF vars, store
<1>2. CASE UNCHANGED <<written, writing>>
  BY <1>1, <1>2 DEF IsWritten, Pending
<1>3. ASSUME NEW j \in Keys, SaveService(j) PROVE IsWritten(k, t)'
  <2>1. /\ j \notin DOMAIN written /\ written' = Put(written, j, <<>>) /\ writing'.key = j
    BY <1>3 DEF SaveService
  <2>2. DOMAIN written' = DOMAIN written \cup {j}
    BY <2>1, PutDomain
  <2> QED
    BY <1>1, <2>1, <2>2 DEF IsWritten, Pending
<1>4. ASSUME writing # None, NEW s \in writing.left, SaveEvent(s) PROVE IsWritten(k, t)'
  <2>1. /\ \E r : written' = [written EXCEPT ![writing.key] = Append(@, r)]
        /\ writing' = [writing EXCEPT !.left = @ \ {s}]
    BY <1>4, EventWritten
  <2>2. DOMAIN written' = DOMAIN written
    BY <2>1
  <2>3. writing' = [key |-> writing.key, left |-> writing.left \ {s}]
    BY <1>4, <2>1 DEF WritesInv
  <2> QED
    BY <1>1, <1>4, <2>2, <2>3 DEF IsWritten, Pending
<1>5. CASE EndService
  BY <1>1, <1>5 DEF EndService, IsWritten, Pending
<1> QED
  BY <1>2, <1>3, <1>4, <1>5 DEF SaveStep, BeginSave, AbortSave, SaveTable

LEMMA StepKept ==
  TypeOK /\ StillLoading /\ ApartInv /\ NothingRedirected /\ MapsAgree /\ WrittenOnce
    /\ WritesInv /\ Kept /\ [FileNext]_fileVars => Kept'
<1> SUFFICES ASSUME TypeOK, StillLoading, ApartInv, NothingRedirected, MapsAgree, WrittenOnce,
                    WritesInv, Kept, [FileNext]_fileVars
             PROVE  Kept'
  OBVIOUS
<1>1. ASSUME written' = Empty PROVE Kept'
  <2>1. DOMAIN written' = {}
    BY <1>1 DEF Empty
  <2> QED
    BY <2>1 DEF Kept, IsWritten
<1>2. CASE Next /\ UNCHANGED saveVars
  BY <1>1, <1>2, LoadedIsFinal DEF WritesInv, Idle, saveVars
<1>3. CASE UNCHANGED fileVars
  <2>1. UNCHANGED <<written, writing, eventDB>>
    BY <1>3 DEF fileVars, vars, saveVars, store
  <2>2. \A k, t : EventRecord(k, t)' = EventRecord(k, t) /\ Breaks(k, t)' = Breaks(k, t)
    BY <1>3, RecordKept DEF fileVars, vars, saveVars, store
  <2>3. \A k, t : IsWritten(k, t)' <=> IsWritten(k, t)
    BY <2>1 DEF IsWritten, Pending
  <2> QED
    BY <2>1, <2>2, <2>3 DEF Kept
<1>4. ASSUME NEW order \in Orders, BeginSave(order) PROVE Kept'
  BY <1>1, <1>4 DEF BeginSave, WritesInv, Idle
<1>5. ASSUME SaveStep, UNCHANGED target
      PROVE  \A k, t : EventRecord(k, t)' = EventRecord(k, t) /\ Breaks(k, t)' = Breaks(k, t)
  BY <1>5, SavingKeepsMemory, RecordKept DEF vars, store
<1> HIDE DEF EventRecord, Breaks
<1>6. ASSUME SaveStep, UNCHANGED <<target, written>>,
             \A k, t : IsWritten(k, t)' => IsWritten(k, t)
      PROVE  Kept'
  BY <1>5, <1>6, StaysWritten DEF Kept
<1>7. ASSUME NEW k \in Keys, SaveService(k) PROVE Kept'
  <2> DEFINE w == Put(written, k, <<>>)
  <2>1. /\ written' = w /\ k \notin DOMAIN written /\ UNCHANGED <<eventDB, target>>
        /\ writing' = [key |-> k, left |-> DOMAIN eventDB[k].byTime]
        /\ writing = None /\ SaveStep
    BY <1>7 DEF SaveService, SaveStep, vars, store
  <2>2. DOMAIN w = DOMAIN written \cup {k}
    BY PutDomain
  <2>3. w[k] = <<>>
    BY PutValue
  <2>4. \A j \in DOMAIN written : w[j] = written[j]
    BY <2>1, PutOther
  <2> HIDE DEF w
  <2>5. DOMAIN w[k] = {}
    BY <2>3
  <2>6. \A j, t : IsWritten(j, t)' => j # k /\ IsWritten(j, t)
    BY <2>1, <2>2 DEF IsWritten, Pending, None
  <2>7. \A j, t : EventRecord(j, t)' = EventRecord(j, t) /\ Breaks(j, t)' = Breaks(j, t)
    BY <1>5, <2>1
  <2>8. \A j, t : IsWritten(j, t) => IsWritten(j, t)'
    BY <2>1, StaysWritten
  <2>9. \A j, t : IsWritten(j, t) => j \in DOMAIN written
    BY DEF IsWritten
  <2> QED
    BY <2>1, <2>2, <2>4, <2>5, <2>6, <2>7, <2>8, <2>9 DEF Kept
<1>8. ASSUME writing # None, NEW t \in writing.left, SaveEvent(t) PROVE Kept'
  <2> DEFINE k  == writing.key
             n  == eventDB[k].byTime[t]
             ds == Encoded(View(heap[n]), target)
             r  == Record(heap[n], Crcs(ds))
             m  == Len(written[k]) + 1
  <2>1. k \in DOMAIN written /\ t \in DOMAIN eventDB[k].byTime /\ n \notin DOMAIN v7
    BY <1>8, WrittenEvent, NewEvent
  <2>0. ~Breaks(k, t)
    BY <1>8, <2>1, EventWritten DEF Breaks
  <2>2. /\ written' = [written EXCEPT ![k] = Append(@, r)]
        /\ writing' = [writing EXCEPT !.left = @ \ {t}] /\ UNCHANGED <<eventDB, target>>
    BY <1>8, <2>1, EventWritten DEF vars, store
  <2>3. r = EventRecord(k, t)
    BY DEF EventRecord
  <2>4. SaveStep
    BY <1>8 DEF SaveStep
  <2>5. writing' = [key |-> k, left |-> writing.left \ {t}] /\ IsRecords(written[k])
    BY <1>8, <2>1, <2>2 DEF WritesInv
  <2> HIDE DEF r
  <2>6. /\ DOMAIN written' = DOMAIN written /\ written'[k] = Append(written[k], r)
        /\ \A j \in DOMAIN written \ {k} : written'[j] = written[j]
    BY <2>1, <2>2, RecordAdded
  <2>7. /\ DOMAIN written'[k] = DOMAIN written[k] \cup {m} /\ written'[k][m] = r
        /\ \A i \in DOMAIN written[k] : written'[k][i] = written[k][i]
    BY <2>5, <2>6, RecordAppended
  <2>8. \A j, s : IsWritten(j, s)' <=> IsWritten(j, s) \/ (j = k /\ s = t)
    <3>1. writing' # None
      BY <2>5 DEF None
    <3>2. \A j, s : Pending(j, s)' <=> (j = k /\ s \in writing.left \ {t})
      BY <2>5, <3>1 DEF Pending
    <3>3. \A j, s : Pending(j, s) <=> (j = k /\ s \in writing.left)
      BY <1>8 DEF Pending
    <3> HIDE DEF k
    <3> QED
      BY <2>1, <2>2, <2>6, <3>2, <3>3 DEF IsWritten
  <2>9. \A j, s : EventRecord(j, s)' = EventRecord(j, s) /\ Breaks(j, s)' = Breaks(j, s)
    BY <1>5, <2>2, <2>4
  <2>10. \A j, s : IsWritten(j, s) => j \in DOMAIN written
    BY DEF IsWritten
  <2> HIDE DEF k, n, ds, m
  <2>11. \A j \in DOMAIN written' : \A i \in DOMAIN written'[j] :
           \E s : IsWritten(j, s)' /\ written'[j][i] = EventRecord(j, s)'
    BY <2>3, <2>6, <2>7, <2>8, <2>9 DEF Kept
  <2>12. \A j, s : IsWritten(j, s)' =>
           /\ \E i \in DOMAIN written'[j] : written'[j][i] = EventRecord(j, s)'
           /\ ~Breaks(j, s)'
    BY <2>0, <2>3, <2>6, <2>7, <2>8, <2>9, <2>10 DEF Kept
  <2> QED
    BY <2>11, <2>12 DEF Kept
<1>9. CASE EndService
  <2>1. /\ writing.left = {} /\ UNCHANGED <<written, eventDB, target>> /\ SaveStep
    BY <1>9 DEF EndService, SaveStep, vars, store
  <2>2. \A k, t : IsWritten(k, t)' => IsWritten(k, t)
    BY <2>1 DEF IsWritten, Pending
  <2> QED
    BY <1>6, <2>1, <2>2
<1>10. CASE AbortSave \/ SaveTable
  <2>1. UNCHANGED <<written, writing, eventDB, target>> /\ SaveStep
    BY <1>10 DEF AbortSave, SaveTable, SaveStep, vars, store
  <2>2. \A k, t : IsWritten(k, t)' => IsWritten(k, t)
    BY <2>1 DEF IsWritten, Pending
  <2> QED
    BY <1>6, <2>1, <2>2
<1> QED
  BY <1>2, <1>3, <1>4, <1>7, <1>8, <1>9, <1>10 DEF FileNext, SaveStep
-----------------------------------------------------------------------------
(* A record gives back the texts of the event it was made of, unless that   *)
(* is too long for its first descriptor.                                    *)
Entry(k, t) == <<k, t, Texts(heap[eventDB[k].byTime[t]])>>

FitsTexts(c) == c = Unknown \/ Fits(V7Short(c.title, c.text))

FitsEntry(k, t) == FitsTexts(Texts(heap[eventDB[k].byTime[t]]))

LEMMA ViewKnown == \A e : View(e) # Unknown
<1> TAKE e
<1> DEFINE c == Content(Resolved(e))
<1>1. "title" \in DOMAIN c
  BY DEF Content
<1> HIDE DEF c
<1>2. "title" \in DOMAIN View(e)
  BY <1>1 DEF View, c
<1>3. "title" \notin DOMAIN Unknown
  BY DEF Unknown
<1> QED
  BY <1>2, <1>3

LEMMA RecordReads ==
  ASSUME TypeOK, Readable, ShortTitles, MapsAgree, MadeTable,
         NEW k \in DOMAIN eventDB, NEW t \in DOMAIN eventDB[k].byTime, ~Breaks(k, t),
         NEW r, r = EventRecord(k, t),
         \A i \in DOMAIN r.refs : r.refs[i] \in DOMAIN descriptors_target
  PROVE  /\ r.start = t
         /\ IsReadable(k, r) <=> FitsEntry(k, t)
         /\ IsReadable(k, r) => TextsOf(k, r) = Texts(heap[eventDB[k].byTime[t]])
<1> DEFINE n     == eventDB[k].byTime[t]
           view  == View(heap[n])
           short == V7Short(view.title, view.text)
           ds    == Encoded(view, target)
           bs    == FromTable(descriptors_target, ds)
<1>1. n \in DOMAIN heap /\ heap[n].start = t
  <2>1. IsMaps(eventDB[k], heap) /\ Agree(eventDB[k], heap)
    BY DEF TypeOK, MapsAgree
  <2> QED
    BY <2>1 DEF IsMaps, IsMap, Agree
<1>2. /\ r.len = (10 + 4 * Len(Crcs(ds))) % 256 /\ r.start = heap[n].start
      /\ r.refs = Crcs(ds)
  BY DEF EventRecord, Record
<1>3. /\ Told(view.title) /\ Told(view.text) /\ view.desc \in Seq(Nat)
      /\ view = [title |-> view.title, text |-> view.text, desc |-> view.desc]
  BY <1>1, ViewTold
<1>4. IsMadeOf(ds, short)
  BY <1>1, EventMade
<1>5. ds = EventDescriptors(short, view.desc, target)
  BY DEF Encoded
<1>6. /\ Misread(heap[n]) => Texts(heap[n]) = Unknown /\ FitsEntry(k, t)
      /\ ~Misread(heap[n]) => Texts(heap[n]) = view /\ (FitsEntry(k, t) <=> Fits(short))
  BY ViewKnown DEF FitsEntry, FitsTexts, Texts, Breaks
<1>0. Source(k, r) = heap[n]
  BY <1>1, <1>2 DEF Source
<1> HIDE DEF n, view, ds, short
<1>7. /\ ds \in Seq(Seq(Nat)) /\ 1 \in DOMAIN ds /\ ds[1] = short
      /\ \A i \in DOMAIN ds : IsMade(ds[i]) /\ (i # 1 => Fits(ds[i]))
  BY <1>4 DEF IsMadeOf
<1>8. /\ DOMAIN Crcs(ds) = DOMAIN ds /\ \A i \in DOMAIN ds : Crcs(ds)[i] = Crc(ds[i])
  BY DEF Crcs
<1>9. Bytes(r) = bs
  BY <1>2, <1>8 DEF Bytes, FromTable
<1>10. r.len # 0
  <2>1. Len(Crcs(ds)) = Len(ds)
    BY <1>7, <1>8
  <2>2. Len(ds) \in Nat
    BY <1>7
  <2> QED
    BY <1>2, <2>1, <2>2, LengthNotNull
<1>11. \A i \in DOMAIN ds : Crc(ds[i]) \in DOMAIN descriptors_target
  BY <1>2, <1>8
<1>12. IsMadeTable(descriptors_target)
  BY DEF MadeTable
<1> HIDE DEF bs
<1>13. /\ Fits(bs[1]) <=> Fits(short)
       /\ Fits(short) => bs = ds
  BY <1>4, <1>11, <1>12, TableReadsBack DEF bs
<1>14. /\ IsReadable(k, r) <=> Misread(heap[n]) \/ Fits(short)
       /\ Misread(heap[n]) => TextsOf(k, r) = Unknown
       /\ ~Misread(heap[n]) => TextsOf(k, r) = Content(Bytes(r))
  BY <1>0, <1>7, <1>9, <1>10, <1>13 DEF IsReadable, TextsOf
<1>15. ASSUME Fits(short) PROVE Content(ds) = view
  <2>1. view.title \in Seq(Nat) /\ view.text \in Seq(Nat) /\ view.desc \in Seq(Nat)
    BY <1>3 DEF Told
  <2>2. Fits(V7Short(view.title, view.text))
    BY <1>15 DEF short
  <2>3. Content(EventDescriptors(V7Short(view.title, view.text), view.desc, target))
          = [title |-> view.title, text |-> view.text, desc |-> view.desc]
    BY <2>1, <2>2, WrittenReadsBack
  <2> QED
    BY <1>3, <1>5, <2>3 DEF short
<1> QED
  BY <1>1, <1>2, <1>6, <1>7, <1>9, <1>13, <1>14, <1>15 DEF view, n

(* So the file and the memory consist of such entries, the file of those    *)
(* that were written.                                                       *)
FileHolds ==
  \A p : p \in File <=> \E k, t : IsWritten(k, t) /\ FitsEntry(k, t) /\ p = Entry(k, t)

LEMMA FileFacts ==
  TypeOK /\ Readable /\ ShortTitles /\ MapsAgree /\ WritesInv /\ MadeTable /\ Counted /\ Kept
    => FileHolds
<1> SUFFICES ASSUME TypeOK, Readable, ShortTitles, MapsAgree, WritesInv, MadeTable,
                    Counted, Kept
             PROVE  FileHolds
  OBVIOUS
<1>1. \A p : p \in File <=>
        \E k \in DOMAIN written : \E i \in DOMAIN written[k] :
          /\ IsReadable(k, written[k][i])
          /\ p = <<k, written[k][i].start, TextsOf(k, written[k][i])>>
  BY DEF File, IsReadable
<1>2. ASSUME NEW k \in DOMAIN written, NEW i \in DOMAIN written[k]
      PROVE  \A j \in DOMAIN written[k][i].refs :
               written[k][i].refs[j] \in DOMAIN descriptors_target
  <2>1. <<k, i>> \in DOMAIN RecordIds /\ RecordIds[<<k, i>>] = written[k][i].refs
    BY DEF RecordIds
  <2> QED
    BY <2>1 DEF Counted
<1>3. ASSUME NEW k, NEW t, IsWritten(k, t), ~Breaks(k, t), NEW i \in DOMAIN written[k],
             written[k][i] = EventRecord(k, t)
      PROVE  /\ IsReadable(k, written[k][i]) <=> FitsEntry(k, t)
             /\ FitsEntry(k, t) =>
                  <<k, written[k][i].start, TextsOf(k, written[k][i])>> = Entry(k, t)
  <2>1. k \in DOMAIN written /\ k \in DOMAIN eventDB /\ t \in DOMAIN eventDB[k].byTime
    BY <1>3 DEF IsWritten, WritesInv
  <2> DEFINE r == written[k][i]
  <2>2. \A j \in DOMAIN r.refs : r.refs[j] \in DOMAIN descriptors_target
    BY <1>2, <2>1
  <2>3. r = EventRecord(k, t)
    BY <1>3
  <2> HIDE DEF r
  <2>4. r.start = t
    BY <1>3, <2>1, <2>2, <2>3, RecordReads
  <2>5. IsReadable(k, r) <=> FitsEntry(k, t)
    BY <1>3, <2>1, <2>2, <2>3, RecordReads
  <2>6. IsReadable(k, r) => TextsOf(k, r) = Texts(heap[eventDB[k].byTime[t]])
    BY <1>3, <2>1, <2>2, <2>3, RecordReads
  <2> QED
    BY <2>4, <2>5, <2>6 DEF r, Entry
<1>4. ASSUME NEW p \in File
      PROVE  \E k, t : IsWritten(k, t) /\ FitsEntry(k, t) /\ p = Entry(k, t)
  <2>1. PICK k \in DOMAIN written : \E i \in DOMAIN written[k] :
          /\ IsReadable(k, written[k][i])
          /\ p = <<k, written[k][i].start, TextsOf(k, written[k][i])>>
    BY <1>1
  <2>2. PICK i \in DOMAIN written[k] :
          /\ IsReadable(k, written[k][i])
          /\ p = <<k, written[k][i].start, TextsOf(k, written[k][i])>>
    BY <2>1
  <2>3. PICK t : IsWritten(k, t) /\ written[k][i] = EventRecord(k, t)
    BY DEF Kept
  <2>4. ~Breaks(k, t)
    BY <2>3 DEF Kept
  <2> QED
    BY <1>3, <2>2, <2>3, <2>4
<1>5. ASSUME NEW k, NEW t, IsWritten(k, t), FitsEntry(k, t)
      PROVE  Entry(k, t) \in File
  <2>1. PICK i \in DOMAIN written[k] : written[k][i] = EventRecord(k, t)
    BY <1>5 DEF Kept
  <2>2. k \in DOMAIN written /\ ~Breaks(k, t)
    BY <1>5 DEF IsWritten, Kept
  <2> QED
    BY <1>1, <1>3, <1>5, <2>1, <2>2
<1> QED
  BY <1>4, <1>5 DEF FileHolds

IsLoaded(k, t) == k \in DOMAIN eventDB /\ t \in DOMAIN eventDB[k].byTime

MemoryHolds ==
  \A p : p \in Memory <=> \E k, t : IsLoaded(k, t) /\ FitsEntry(k, t) /\ p = Entry(k, t)

LEMMA MemoryFacts == MemoryHolds
<1> DEFINE views == UNION {{Entry(k, t) : t \in DOMAIN eventDB[k].byTime} : k \in DOMAIN eventDB}
           IsFit(q) == FitsTexts(q[3])
<1>1. Memory = {q \in views : IsFit(q)}
  BY DEF Memory, Entry, FitsTexts
<1>2. \A k, t : IsFit(Entry(k, t)) <=> FitsEntry(k, t)
  BY DEF Entry, FitsEntry
<1> HIDE DEF IsFit
<1>3. \A q : q \in views <=> \E k, t : IsLoaded(k, t) /\ q = Entry(k, t)
  BY DEF IsLoaded
<1> HIDE DEF views
<1> QED
  BY <1>1, <1>2, <1>3 DEF MemoryHolds
-----------------------------------------------------------------------------
(* The refinement: loading stutters, beginning to save ends the promise's   *)
(* loading, every step of saving adds entries of the memory or none, and    *)
(* when the table is written no entry is missing.                           *)
ShownMemory == IF stage = "idle" THEN {} ELSE Memory

ShownStage ==
  CASE stage = "idle" -> "loading"
    [] stage = "events" -> "saving"
    [] OTHER -> stage

Shown == <<ShownMemory, File, ShownStage>>

LEMMA FileKept ==
  UNCHANGED <<written, descriptors_target, eventDB, heap>> => UNCHANGED File
<1> SUFFICES ASSUME UNCHANGED <<written, descriptors_target, eventDB, heap>>
             PROVE  File' = File
  OBVIOUS
<1>1. ASSUME NEW k, NEW i
      PROVE  /\ TextsOf(k, written[k][i])' = TextsOf(k, written[k][i])
             /\ IsReadable(k, written[k][i])' = IsReadable(k, written[k][i])
  <2> DEFINE r == written[k][i]
  <2>1. Misread(Source(k, r))' = Misread(Source(k, r))
    BY DEF Source
  <2>2. Bytes(r)' = Bytes(r) /\ r' = r
    BY DEF Bytes
  <2> HIDE DEF r
  <2> QED
    BY <2>1, <2>2 DEF TextsOf, IsReadable, r
<1> QED
  BY <1>1 DEF File

LEMMA EntryKept ==
  ASSUME UNCHANGED vars, NEW k, NEW t
  PROVE  Entry(k, t)' = Entry(k, t) /\ FitsEntry(k, t)' = FitsEntry(k, t)
<1> DEFINE n == eventDB[k].byTime[t]
<1>1. UNCHANGED <<eventDB, heap, descriptors, data_endian>>
  BY DEF vars, store
<1>2. Texts(heap[n])' = Texts(heap[n])
  BY <1>1, ViewKept
<1> QED
  BY <1>2 DEF Entry, FitsEntry

LEMMA MemoryKept == UNCHANGED vars => UNCHANGED Memory
<1>1. MemoryHolds /\ MemoryHolds'
  BY MemoryFacts, PTL
<1> SUFFICES ASSUME UNCHANGED vars PROVE Memory' = Memory
  OBVIOUS
<1>2. \A k, t : Entry(k, t)' = Entry(k, t) /\ FitsEntry(k, t)' = FitsEntry(k, t)
  BY EntryKept
<1>3. \A k, t : IsLoaded(k, t)' <=> IsLoaded(k, t)
  BY DEF IsLoaded, vars, store
<1>4. \A p : p \in Memory' <=> p \in Memory
  BY <1>1, <1>2, <1>3 DEF MemoryHolds
<1> QED
  BY <1>4

LEMMA InitPromised == FileInit => Promised!Init
<1> SUFFICES ASSUME FileInit PROVE ShownMemory = {} /\ File = {} /\ ShownStage = "loading"
  BY DEF Promised!Init, ShownMemory, ShownStage
<1>1. stage = "idle" /\ written = Empty
  BY DEF FileInit
<1>2. File = {}
  BY <1>1 DEF File, Empty
<1> QED
  BY <1>1, <1>2 DEF ShownMemory, ShownStage

(* The program breaks off at an event that has not been written and whose   *)
(* texts nobody can tell.                                                   *)
LEMMA BreaksUnread ==
  ASSUME TypeOK, WritesInv, FileHolds, MemoryHolds, AbortSave
  PROVE  \E p \in Memory \ File : p[3] = Unknown
<1> DEFINE k == writing.key
           t == Min(writing.left)
<1>1. writing # None /\ writing.left # {} /\ Throws(Resolved(heap[eventDB[k].byTime[t]]))
  BY DEF AbortSave
<1>2. k \in DOMAIN eventDB /\ writing.left \subseteq DOMAIN eventDB[k].byTime
  BY <1>1 DEF WritesInv
<1>3. IsMaps(eventDB[k], heap)
  BY <1>2 DEF TypeOK
<1>4. writing.left \in SUBSET Nat
  BY <1>2, <1>3 DEF IsMaps, IsMap
<1>5. t \in writing.left
  BY <1>1, <1>4, MinNat
<1> HIDE DEF t, k
<1>6. Entry(k, t) = <<k, t, Unknown>> /\ FitsEntry(k, t)
  BY <1>1 DEF Entry, FitsEntry, FitsTexts, Texts
<1>7. Entry(k, t) \in Memory
  BY <1>2, <1>5, <1>6 DEF MemoryHolds, IsLoaded
<1>8. Entry(k, t) \notin File
  <2>1. ASSUME NEW j, NEW s, IsWritten(j, s), Entry(k, t) = Entry(j, s) PROVE FALSE
    <3>1. j = k /\ s = t
      BY <2>1 DEF Entry
    <3>2. Pending(k, t)
      BY <1>1, <1>5 DEF Pending, k
    <3> QED
      BY <2>1, <3>1, <3>2 DEF IsWritten
  <2> QED
    BY <2>1 DEF FileHolds
<1> QED
  BY <1>6, <1>7, <1>8

LEMMA StepPromised ==
  TypeOK /\ StillLoading /\ WritesInv /\ WritesInv' /\ FileHolds /\ FileHolds'
    /\ [FileNext]_fileVars => [Promised!Next]_Shown
<1>1. MemoryHolds
  BY MemoryFacts
<1> SUFFICES ASSUME TypeOK, StillLoading, WritesInv, WritesInv', FileHolds,
                    FileHolds', [FileNext]_fileVars
             PROVE  [Promised!Next]_Shown
  OBVIOUS
<1>2. stage = "idle" => File = {}
  BY DEF WritesInv, Idle, File, Empty
<1>3. CASE Next /\ UNCHANGED saveVars
  <2>1. stage = "idle" /\ stage' = "idle"
    BY <1>3, LoadedIsFinal DEF WritesInv, saveVars
  <2>2. written = Empty /\ written' = Empty
    BY <2>1 DEF WritesInv, Idle
  <2>3. File = {} /\ File' = {}
    BY <2>2 DEF File, Empty
  <2> QED
    BY <2>1, <2>3 DEF Shown, ShownMemory, ShownStage
<1>4. CASE UNCHANGED fileVars
  <2>1. /\ UNCHANGED vars /\ UNCHANGED stage
        /\ UNCHANGED <<written, descriptors_target, eventDB, heap>>
    BY <1>4 DEF fileVars, saveVars, vars
  <2> QED
    BY <2>1, MemoryKept, FileKept DEF Shown, ShownMemory, ShownStage
<1>5. ASSUME NEW order \in Orders, BeginSave(order) PROVE Promised!Next
  <2>1. stage = "idle" /\ stage' = "events" /\ UNCHANGED File
    BY <1>5, FileKept DEF BeginSave, vars
  <2> QED
    BY <2>1 DEF Promised!Next, Promised!Load
<1>6. ASSUME SaveStep, stage = "events", UNCHANGED stage PROVE Promised!Next
  <2>1. UNCHANGED Memory
    BY <1>6, SavingKeepsMemory, MemoryKept
  <2>2. \A k, t : IsWritten(k, t) => IsWritten(k, t)'
    BY <1>6, StaysWritten
  <2>3. \A k, t : Entry(k, t)' = Entry(k, t) /\ FitsEntry(k, t)' = FitsEntry(k, t)
    BY <1>6, SavingKeepsMemory, EntryKept
  <2>4. \A k, t : IsWritten(k, t)' => IsLoaded(k, t)
    <3>1. DOMAIN written' \subseteq DOMAIN eventDB' /\ eventDB' = eventDB
      BY <1>6, SavingKeepsMemory DEF WritesInv, vars, store
    <3> QED
      BY <3>1 DEF IsWritten, IsLoaded
  <2>5. File \subseteq File'
    BY <2>2, <2>3 DEF FileHolds
  <2>6. File' \subseteq Memory
    BY <1>1, <2>3, <2>4 DEF FileHolds, MemoryHolds
  <2> QED
    BY <1>6, <2>1, <2>5, <2>6 DEF Promised!Next, Promised!Save
<1>7. CASE AbortSave
  <2>1. /\ stage = "events" /\ stage' = "aborted" /\ UNCHANGED vars
        /\ UNCHANGED <<written, descriptors_target, eventDB, heap>>
    BY <1>7 DEF AbortSave, vars
  <2>2. \E p \in Memory \ File : p[3] = Unknown
    BY <1>1, <1>7, BreaksUnread
  <2>3. UNCHANGED <<Memory, File>>
    BY <2>1, FileKept, MemoryKept
  <2> QED
    BY <2>1, <2>2, <2>3 DEF Promised!Next, Promised!Abort
<1>8. CASE SaveTable
  <2>1. /\ stage = "events" /\ stage' = "done" /\ UNCHANGED vars
        /\ UNCHANGED <<written, descriptors_target, eventDB, heap>>
        /\ writing = None /\ DOMAIN written = DOMAIN eventDB
    BY <1>8 DEF SaveTable, vars
  <2>2. \A k, t : IsWritten(k, t) <=> IsLoaded(k, t)
    BY <2>1 DEF IsWritten, IsLoaded, Pending
  <2>3. File = Memory
    BY <1>1, <2>2 DEF FileHolds, MemoryHolds
  <2> QED
    BY <2>1, <2>3, FileKept, MemoryKept DEF Promised!Next, Promised!Finish
<1>9. CASE SaveStep
  <2>1. ASSUME NEW k \in Keys, SaveService(k) PROVE stage = "events" /\ UNCHANGED stage
    BY <2>1 DEF SaveService
  <2>2. ASSUME writing # None, NEW t \in writing.left, SaveEvent(t)
        PROVE  stage = "events" /\ UNCHANGED stage
    BY <2>2 DEF SaveEvent
  <2>3. CASE EndService
    BY <1>6, <1>9, <2>3 DEF EndService
  <2> QED
    BY <1>5, <1>6, <1>7, <1>8, <1>9, <2>1, <2>2, <2>3 DEF SaveStep
<1> QED
  BY <1>3, <1>4, <1>9 DEF FileNext

LEMMA PromiseFromShown ==
  FileInit /\ [][Promised!Next]_Shown => ConversionKeepsPromise
<1>1. [][Promised!Next]_Shown => [][Promised!Next]_(Promised!vars)
  BY DEF Shown, ShownMemory, ShownStage, Promised!vars
<1> QED
  BY <1>1, InitPromised DEF ConversionKeepsPromise, Promised!Spec

(* A conversion, from any source the loaders take to a file of either byte  *)
(* order, keeps the promise of the readme wherever no service in memory is  *)
(* redirected and the XMLTV titles fit a length byte: the finished file,    *)
(* decoded with its own table, gives back every event in memory, with its   *)
(* title, text and description unless get_v7 misread its length, a file     *)
(* that is not finished holds nothing else, and only an event with an empty *)
(* extended text breaks the writing off (epg.cpp 264-329, dvb.cpp 247-443). *)
THEOREM ConversionsKeepThePromise ==
  ASSUME ShortTitles
  PROVE  FileSpec /\ []NothingRedirected => ConversionKeepsPromise
<1>1. TypeOK /\ StillLoading /\ ApartInv /\ NothingRedirected /\ MapsAgree /\ WrittenOnce
        /\ WritesInv /\ Kept /\ Readable /\ MadeTable /\ [FileNext]_fileVars
        => (Kept /\ MadeTable)'
  BY StepKept, StepMade
<1>2. FileInit => Kept /\ MadeTable
  BY DEF FileInit, Kept, MadeTable, IsMadeTable, IsWritten, Empty
<1>3. TypeOK /\ Readable /\ MapsAgree /\ WritesInv /\ MadeTable /\ Counted /\ Kept
        => FileHolds
  BY FileFacts
<1> QED
  BY <1>1, <1>2, <1>3, StepPromised, InitPromised, PromiseFromShown, SavedAlways, FileLoads,
     TypeCorrect, LoadsAlways, ApartAlways, MapsAlwaysAgree, ReadableAlways, OnceAlways,
     PTL DEF FileSpec

(* No key is redirected by tables without a line of the invalid key, the    *)
(* only one uniqueEPGKey's comparison tells from others (epg.cpp 508-521).  *)
PlainTables ==
  "XMLTV" \in Formats =>
    \A lines \in TableFiles : \A i \in DOMAIN lines : lines[i].key # InvalidKey

IsPlain(t) == t.tvmap = Empty /\ \A name \in DOMAIN t.tvnmap : t.tvnmap[name] # InvalidKey

LEMMA LinePlain ==
  ASSUME NEW t, IsPlain(t), NEW line, line.key # InvalidKey
  PROVE  IsPlain(EnterLine(t, line))
<1> DEFINE name  == Normal(line.name)
           taken == name \in DOMAIN t.tvnmap /\ Differ(t.tvnmap[name], line.key)
           N == Put(t.tvnmap, name, line.key)
           u == EnterLine(t, line)
<1>1. ~taken
  BY DEF IsPlain, Differ
<1>2. u.tvmap = t.tvmap /\ u.tvnmap = N
  BY <1>1 DEF EnterLine
<1>3. DOMAIN N = DOMAIN t.tvnmap \cup {name}
  BY PutDomain
<1>4. N[name] = line.key
  BY PutValue
<1>5. \A x \in DOMAIN t.tvnmap : x # name => N[x] = t.tvnmap[x]
  BY PutOther
<1> HIDE DEF N, u, name
<1> QED
  BY <1>2, <1>3, <1>4, <1>5 DEF IsPlain, u

LEMMA LinesPlain ==
  ASSUME NEW t, NEW lines, Len(lines) \in Nat,
         \A i \in 1..Len(lines) : lines[i].key # InvalidKey
  PROVE  LoadLines(t, lines).tvmap = Empty
<1> DEFINE S == {i \in 0..Len(lines) : ~IsPlain(Loaded(t, lines)[i])}
<1>1. IsPlain(Loaded(t, lines)[0])
  <2>1. Loaded(t, lines)[0] = Cleared(t)
    BY LoadedLines
  <2> QED
    BY <2>1 DEF IsPlain, Cleared, Empty
<1>2. \A i \in 1..Len(lines) :
        Loaded(t, lines)[i] = EnterLine(Loaded(t, lines)[i - 1], lines[i])
  BY LoadedLines
<1>3. ASSUME S # {} PROVE FALSE
  <2>1. S \in SUBSET Nat
    OBVIOUS
  <2>2. Min(S) \in S /\ \A y \in S : Min(S) <= y
    <3> HIDE DEF S
    <3> QED
      BY <1>3, <2>1, MinNat
  <2>3. PICK m \in S : \A y \in S : m <= y
    BY <2>2
  <2>4. m # 0
    BY <1>1, <2>3
  <2>5. m \in 1..Len(lines) /\ m - 1 \in 0..Len(lines) /\ m - 1 \notin S
    BY <2>3, <2>4
  <2> QED
    BY <1>2, <2>3, <2>5, LinePlain
<1> QED
  BY <1>3 DEF LoadLines, IsPlain

LEMMA TablesPlain ==
  ASSUME NEW t, NEW lines \in TableFiles, "XMLTV" \in Formats, PlainTables
  PROVE  LoadLines(t, lines).tvmap = Empty
<1>1. lines \in Seq([key : Keys, name : Seq(Nat)])
  BY StoreAssumption DEF StoreAssumption
<1>2. Len(lines) \in Nat /\ DOMAIN lines = 1..Len(lines)
  BY <1>1
<1>3. \A i \in 1..Len(lines) : lines[i].key # InvalidKey
  BY <1>2 DEF PlainTables
<1> QED
  BY <1>2, <1>3, LinesPlain

(* An XMLTV document is loaded with no redirected key.                      *)
Unredirected ==
  /\ ("XMLTV" \in Formats /\ PlainTables) => tvmap = Empty
  /\ source = "XMLTV" => "XMLTV" \in Formats

LEMMA StepUnredirected == IdInv /\ Unredirected /\ [Next]_vars => Unredirected'
<1> SUFFICES ASSUME IdInv, Unredirected, [Next]_vars PROVE Unredirected'
  OBVIOUS
<1>1. CASE UNCHANGED <<source, tvmap>>
  BY <1>1 DEF Unredirected
<1>2. CASE OpenXmltv
  <2>1. source' = "XMLTV" /\ "XMLTV" \in Formats
    BY <1>2 DEF OpenXmltv
  <2>2. \/ UNCHANGED tvmap
        \/ \E lines \in TableFiles : tvmap' = LoadLines(Tables, lines).tvmap
    BY <1>2 DEF OpenXmltv, tvmaps, Tables
  <2>3. PlainTables => tvmap' = Empty
    <3>1. UNCHANGED tvmap => (PlainTables => tvmap' = Empty)
      BY <2>1 DEF Unredirected
    <3> QED
      BY <2>1, <2>2, <3>1, TablesPlain
  <2> QED
    BY <2>1, <2>3 DEF Unredirected
<1>3. ASSUME NEW format \in {"V5", "V7"}, NEW order \in Orders, OpenFile(format, order)
      PROVE  Unredirected'
  BY <1>3 DEF OpenFile, tvmaps, Unredirected
<1>4. CASE LoadFile
  <2>1. CASE RefuseFile \/ StoreService \/ EndServices \/ EndTable
    BY <1>1, <2>1 DEF RefuseFile, StoreService, EndServices, EndTable, tvmaps
  <2>2. ASSUME NEW k \in Keys, ReadService(k) PROVE Unredirected'
    BY <1>1, <2>2 DEF ReadService, tvmaps
  <2>3. ASSUME NEW id, NEW start, NEW data, ReadEvent(id, start, data) PROVE Unredirected'
    BY <1>1, <2>3 DEF ReadEvent, tvmaps
  <2>4. ASSUME NEW id, NEW bytes, ReadDescriptor(id, bytes) PROVE Unredirected'
    BY <1>1, <2>4 DEF ReadDescriptor, tvmaps
  <2> QED
    BY <1>3, <1>4, <2>1, <2>2, <2>3, <2>4 DEF LoadFile
<1>5. CASE LoadXmltv
  BY <1>1, <1>2, <1>5 DEF LoadXmltv, ReadChannel, ReadChannelTsonid, SkipProgramme,
     ReadProgramme, LoadEventStruct, EndProgramme, EndXmltv, NextElement, tvmaps
<1> QED
  BY <1>1, <1>4, <1>5 DEF Next, vars

LEMMA InitUnredirected == Init => Unredirected
<1> SUFFICES ASSUME Init PROVE Unredirected
  OBVIOUS
<1>1. PICK lines \in TableFiles : tvmap = LoadLines(NoTables, lines).tvmap
  BY DEF Init
<1>2. ("XMLTV" \in Formats /\ PlainTables) => tvmap = Empty
  BY <1>1, TablesPlain
<1>3. source # "XMLTV"
  BY DEF Init
<1> QED
  BY <1>2, <1>3 DEF Unredirected

(* So every conversion of a file, and every conversion of an XMLTV document *)
(* under such tables and with titles a length byte tells, keeps the promise *)
(* (readme.txt, the closing note), as far as its events are read by the     *)
(* length they have (dvb.cpp 302, 320).                                     *)
THEOREM PlainConversionsKeepThePromise ==
  ASSUME ShortTitles, PlainTables
  PROVE  FileSpec => ConversionKeepsPromise
<1>1. Unredirected => NothingRedirected
  BY DEF Unredirected, NothingRedirected, Empty
<1> QED
  BY <1>1, InitUnredirected, StepUnredirected, IdsAlways, FileLoads,
     ConversionsKeepThePromise, PTL DEF Spec
=============================================================================
