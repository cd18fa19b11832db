--------------------------- MODULE EpgStoreProofs ---------------------------
(***************************************************************************)
(* What TLAPS proves of EpgStore, whatever is loaded from files or XMLTV   *)
(* documents of any size, over any constants: its state is of its type,    *)
(* the two maps of a service tell one story, ids are fresh, an event is    *)
(* shared only by redirection, programmes reach their keys, the counts of  *)
(* the descriptors are exact and no start time is lost.  It starts with    *)
(* facts about the operators of Descriptors, for texts of any length and   *)
(* any width of the length byte.                                           *)
(***************************************************************************)
EXTENDS EpgStore, Lemmas, SequenceTheorems, FiniteSetTheorems, TLAPS

LEMMA FirstCutType ==
  ASSUME NEW desc \in Seq(Nat)
  PROVE  FirstCut(desc) \in Nat
<1> DEFINE colons == {i \in DOMAIN desc : desc[i] = Colon}
<1>1. CASE colons = {}
  BY <1>1, DescriptorAssumption DEF FirstCut, DescriptorAssumption
<1>2. CASE colons # {}
  <2>1. colons \subseteq Nat
    OBVIOUS
  <2> QED
    BY <1>2, <2>1, MinNat, DescriptorAssumption DEF FirstCut, DescriptorAssumption
<1> QED
  BY <1>1, <1>2

(* A chunk is a stretch of the text it is cut from.                         *)
LEMMA ChunksType ==
  ASSUME NEW desc \in Seq(Nat)
  PROVE  Chunks(desc) \in Seq(Seq(Nat))
<1> DEFINE W       == ChunkWidth + 1
           first   == Min({FirstCut(desc) + 1, Len(desc)})
           more    == (Len(desc) - first + ChunkWidth) \div W
           end(i)  == Min({Len(desc), first + (i - 1) * W})
           start(i) == IF i = 1 THEN 1 ELSE end(i - 1) + 1
<1>1. ChunkWidth \in Nat /\ W \in Nat \ {0}
  BY DescriptorAssumption DEF DescriptorAssumption
<1>2. first \in Nat /\ first <= Len(desc)
  <2>1. {FirstCut(desc) + 1, Len(desc)} \in SUBSET Nat
    BY FirstCutType
  <2> QED
    BY <2>1, MinNat
<1>3. more \in Nat
  <2>1. Len(desc) - first + ChunkWidth \in Nat
    BY <1>1, <1>2
  <2> HIDE DEF first, W
  <2> QED
    BY <1>1, <2>1
<1>4. \A i \in Nat \ {0} : end(i) \in Nat /\ end(i) <= Len(desc)
  <2> TAKE i \in Nat \ {0}
  <2>1. (i - 1) * W \in Nat
    BY <1>1
  <2>2. {Len(desc), first + (i - 1) * W} \in SUBSET Nat
    BY <1>2, <2>1
  <2> HIDE DEF first, W
  <2> QED
    BY <2>2, MinNat
<1>5. \A i \in 1..(more + 1) : SubSeq(desc, start(i), end(i)) \in Seq(Nat)
  <2> TAKE i \in 1..(more + 1)
  <2>1. i \in Nat \ {0} /\ (i # 1 => i - 1 \in Nat \ {0})
    BY <1>3
  <2>2. end(i) \in Nat /\ end(i) <= Len(desc) /\ start(i) \in Nat \ {0}
    <3>1. end(i) \in Nat /\ end(i) <= Len(desc)
      BY <1>4, <2>1
    <3>2. i # 1 => end(i - 1) \in Nat
      BY <1>4, <2>1
    <3> HIDE DEF end
    <3> QED
      BY <3>1, <3>2
  <2>3. \A j \in start(i)..end(i) : desc[j] \in Nat
    BY <2>2
  <2> HIDE DEF start, end
  <2> QED
    BY <2>2, <2>3, SubSeqProperties
<1>6. CASE desc = <<>>
  BY <1>6 DEF Chunks
<1>7. CASE desc # <<>>
  <2>1. Chunks(desc) = [i \in 1..(more + 1) |-> SubSeq(desc, start(i), end(i))]
    BY <1>7 DEF Chunks
  <2> HIDE DEF start, end, more
  <2> QED
    BY <1>3, <1>5, <2>1
<1> QED
  BY <1>6, <1>7
-----------------------------------------------------------------------------
(* A descriptor never announces more bytes than it has, so that the CRC and *)
(* the copies that trust its length byte stay inside it; it may announce    *)
(* fewer (dvb.cpp 344, 385; epg.cpp 382, 417).                              *)
Announced(d) == d \in Seq(Nat) /\ Len(d) >= 2 /\ d[2] \in Nat /\ d[2] + 2 <= Len(d)

LEMMA RemainderBound ==
  ASSUME NEW n \in Nat
  PROVE  n % LenMod \in Nat /\ n % LenMod <= n
BY DescriptorAssumption, Z3 DEF DescriptorAssumption

(* n bytes of which the second is the length byte; whatever is appended     *)
(* leaves it where it is.                                                   *)
Begun(d, size, n) == d \in Seq(Nat) /\ Len(d) = n /\ n \in Nat /\ n >= 2 /\ d[2] = size

LEMMA Prolonged ==
  ASSUME NEW d, NEW size, NEW n, Begun(d, size, n), NEW t \in Seq(Nat),
         NEW total, total = n + Len(t)
  PROVE  Begun(d \o t, size, total)
<1>1. d \in Seq(Nat) /\ Len(d) = n /\ n \in Nat /\ n >= 2 /\ d[2] = size
  BY DEF Begun
<1>2. Len(t) \in Nat
  OBVIOUS
<1>3. d \o t \in Seq(Nat) /\ Len(d \o t) = Len(d) + Len(t)
  BY <1>1, ConcatProperties
<1>4. (d \o t)[2] = d[2]
  <2>1. 2 \in 1..(Len(d) + Len(t)) /\ 2 <= Len(d)
    BY <1>1, <1>2
  <2> QED
    BY <1>1, <2>1, ConcatProperties
<1> QED
  BY <1>1, <1>2, <1>3, <1>4 DEF Begun

LEMMA BegunAnnounced ==
  ASSUME NEW d, NEW size \in Nat, NEW n, Begun(d, size, n), size + 2 <= n
  PROVE  Announced(d)
BY DEF Begun, Announced

LEMMA ShortEventAnnounced ==
  ASSUME NEW name \in Seq(Nat), NEW rest \in Seq(Nat)
  PROVE  Announced(ShortEvent(name, rest))
<1> DEFINE size == (Len(name) + Len(rest) + 5) % LenMod
           head == <<ShortTag, size>>
           mid  == <<(Len(name) + 1) % LenMod, UTF8>>
<1>1. size \in Nat /\ size <= Len(name) + Len(rest) + 5
  BY RemainderBound
<1>2. (Len(name) + 1) % LenMod \in Nat
  BY RemainderBound
<1>3. head \in Seq(Nat) /\ Len(head) = 2 /\ head[2] = size
  BY <1>1 DEF ShortTag
<1>4. Lang \in Seq(Nat) /\ Len(Lang) = 3
  BY DEF Lang
<1>5. mid \in Seq(Nat) /\ Len(mid) = 2
  BY <1>2 DEF UTF8
<1>6. ShortEvent(name, rest) = head \o Lang \o mid \o name \o rest
  BY DEF ShortEvent
<1> HIDE DEF size, head, mid
<1>7. Begun(head, size, 2)
  BY <1>3 DEF Begun
<1>8. Begun(head \o Lang, size, 2 + Len(Lang))
  BY <1>4, <1>7, Prolonged
<1>9. Begun(head \o Lang \o mid, size, 2 + Len(Lang) + Len(mid))
  BY <1>5, <1>8, Prolonged
<1>10. Begun(head \o Lang \o mid \o name, size, 2 + Len(Lang) + Len(mid) + Len(name))
  BY <1>9, Prolonged
<1>11. Begun(head \o Lang \o mid \o name \o rest, size,
             2 + Len(Lang) + Len(mid) + Len(name) + Len(rest))
  BY <1>10, Prolonged
<1>12. Len(name) \in Nat /\ Len(rest) \in Nat
  OBVIOUS
<1> QED
  BY <1>1, <1>4, <1>5, <1>6, <1>11, <1>12, BegunAnnounced

LEMMA ExtendedEventAnnounced ==
  ASSUME NEW i \in Nat \ {0}, NEW chunk \in Seq(Nat), NEW order
  PROVE  Announced(ExtendedEvent(i, chunk, order))
<1> DEFINE size == (Len(chunk) + 7) % LenMod
           head == <<ExtendedTag, size, ChunkNumber(i, order)>>
           mid  == <<0, (Len(chunk) + 1) % LenMod, UTF8>>
<1>1. size \in Nat /\ size <= Len(chunk) + 7
  BY RemainderBound
<1>2. (Len(chunk) + 1) % LenMod \in Nat
  BY RemainderBound
<1>3. ChunkNumber(i, order) \in Nat
  BY DEF ChunkNumber
<1>4. head \in Seq(Nat) /\ Len(head) = 3 /\ head[2] = size
  BY <1>1, <1>3 DEF ExtendedTag
<1>5. Lang \in Seq(Nat) /\ Len(Lang) = 3
  BY DEF Lang
<1>6. mid \in Seq(Nat) /\ Len(mid) = 3
  BY <1>2 DEF UTF8
<1>7. ExtendedEvent(i, chunk, order) = head \o Lang \o mid \o chunk
  BY DEF ExtendedEvent
<1> HIDE DEF size, head, mid
<1>8. Begun(head, size, 3)
  BY <1>4 DEF Begun
<1>9. Begun(head \o Lang, size, 3 + Len(Lang))
  BY <1>5, <1>8, Prolonged
<1>10. Begun(head \o Lang \o mid, size, 3 + Len(Lang) + Len(mid))
  BY <1>6, <1>9, Prolonged
<1>11. Begun(head \o Lang \o mid \o chunk, size,
             3 + Len(Lang) + Len(mid) + Len(chunk))
  BY <1>10, Prolonged
<1>12. Len(chunk) \in Nat
  OBVIOUS
<1> QED
  BY <1>1, <1>5, <1>6, <1>7, <1>11, <1>12, BegunAnnounced

(* Every descriptor made for an event, of whatever texts, announces no more *)
(* bytes than were allocated for it (dvb.cpp 338-431, epg.cpp 380-466).     *)
THEOREM DescriptorsAnnounced ==
  ASSUME NEW short, Announced(short), NEW desc \in Seq(Nat), NEW order
  PROVE  /\ EventDescriptors(short, desc, order) \in Seq(Seq(Nat))
         /\ \A i \in DOMAIN EventDescriptors(short, desc, order) :
              Announced(EventDescriptors(short, desc, order)[i])
<1> DEFINE chunks == Chunks(desc)
           exts   == [i \in DOMAIN chunks |-> ExtendedEvent(i, chunks[i], order)]
<1>1. chunks \in Seq(Seq(Nat))
  BY ChunksType
<1>2. \A i \in DOMAIN chunks : Announced(ExtendedEvent(i, chunks[i], order))
  <2> TAKE i \in DOMAIN chunks
  <2>1. i \in Nat \ {0} /\ chunks[i] \in Seq(Nat)
    <3> HIDE DEF chunks
    <3> QED
      BY <1>1
  <2> QED
    BY <2>1, ExtendedEventAnnounced
<1>3. exts \in Seq(Seq(Nat)) /\ \A i \in DOMAIN exts : Announced(exts[i])
  <2>1. DOMAIN chunks = 1..Len(chunks) /\ Len(chunks) \in Nat
    <3> HIDE DEF chunks
    <3> QED
      BY <1>1
  <2>2. \A i \in 1..Len(chunks) : ExtendedEvent(i, chunks[i], order) \in Seq(Nat)
    BY <1>2, <2>1 DEF Announced
  <2>3. exts = [i \in 1..Len(chunks) |-> ExtendedEvent(i, chunks[i], order)]
    BY <2>1
  <2>4. exts \in Seq(Seq(Nat))
    <3> HIDE DEF chunks, exts
    <3> QED
      BY <2>1, <2>2, <2>3
  <2> QED
    BY <1>2, <2>4
<1>4. EventDescriptors(short, desc, order) = <<short>> \o exts
  BY DEF EventDescriptors
<1>5. <<short>> \in Seq(Seq(Nat))
  BY DEF Announced
<1> HIDE DEF exts
<1> QED
  BY <1>3, <1>4, <1>5

LEMMA CrcType ==
  ASSUME NEW d, Announced(d)
  PROVE  Crc(d) \in Seq(Nat)
<1>1. \A i \in 1..(d[2] + 2) : d[i] \in Nat
  BY DEF Announced
<1> QED
  BY <1>1, SubSeqProperties DEF Crc, Announced

LEMMA CrcsType ==
  ASSUME NEW ds \in Seq(Seq(Nat)), \A i \in DOMAIN ds : Announced(ds[i])
  PROVE  Crcs(ds) \in Seq(Seq(Nat)) /\ Len(Crcs(ds)) = Len(ds)
<1>1. \A i \in 1..Len(ds) : Crc(ds[i]) \in Seq(Nat)
  BY CrcType
<1>2. Crcs(ds) = [i \in 1..Len(ds) |-> Crc(ds[i])] /\ Len(ds) \in Nat
  BY DEF Crcs
<1> QED
  BY <1>1, <1>2
-----------------------------------------------------------------------------
(* Entering descriptors in a table forgets none that was there, gives every *)
(* new reference its entry, and leaves the bytes of a known id alone        *)
(* (dvb.cpp 363-372, epg.cpp 399-407).                                      *)
THEOREM InternKeeps ==
  ASSUME NEW table, NEW ds
  PROVE  LET t == Intern(table, ds)
         IN /\ DOMAIN table \subseteq DOMAIN t
            /\ \A i \in DOMAIN Crcs(ds) : Crcs(ds)[i] \in DOMAIN t
            /\ \A id \in DOMAIN table : t[id].bytes = table[id].bytes
BY DEF Intern, Crcs
-----------------------------------------------------------------------------
(* Where the bytes of a short descriptor are, and when two descriptors of   *)
(* one id are the same.                                                     *)
LEMMA ConcatAt ==
  ASSUME NEW s \in Seq(Nat), NEW t \in Seq(Nat)
  PROVE  /\ s \o t \in Seq(Nat) /\ Len(s \o t) = Len(s) + Len(t)
         /\ \A i \in 1..Len(s) : (s \o t)[i] = s[i]
         /\ \A i \in 1..Len(t) : (s \o t)[Len(s) + i] = t[i]
<1>1. Len(s) \in Nat /\ Len(t) \in Nat
  OBVIOUS
<1>2. /\ s \o t \in Seq(Nat) /\ Len(s \o t) = Len(s) + Len(t)
      /\ \A i \in 1..(Len(s) + Len(t)) :
           (s \o t)[i] = IF i <= Len(s) THEN s[i] ELSE t[i - Len(s)]
  BY ConcatProperties
<1>3. \A i \in 1..Len(t) : /\ Len(s) + i \in 1..(Len(s) + Len(t))
                           /\ ~(Len(s) + i <= Len(s)) /\ (Len(s) + i) - Len(s) = i
  BY <1>1
<1>4. \A i \in 1..Len(t) : (s \o t)[Len(s) + i] = t[i]
  BY <1>2, <1>3
<1>5. \A i \in 1..Len(s) : i \in 1..(Len(s) + Len(t)) /\ i <= Len(s)
  BY <1>1
<1> QED
  BY <1>2, <1>4, <1>5

HasBytes(d, name, rest) ==
  /\ d \in Seq(Nat) /\ Len(d) = 7 + Len(name) + Len(rest)
  /\ d[1] = ShortTag /\ d[2] = (Len(name) + Len(rest) + 5) % LenMod
  /\ d[6] = (Len(name) + 1) % LenMod
  /\ \A i \in 1..Len(name) : d[7 + i] = name[i]
  /\ \A i \in 1..Len(rest) : d[7 + Len(name) + i] = rest[i]

LEMMA ShortEventBytes ==
  ASSUME NEW name \in Seq(Nat), NEW rest \in Seq(Nat)
  PROVE  HasBytes(ShortEvent(name, rest), name, rest)
<1> DEFINE size == (Len(name) + Len(rest) + 5) % LenMod
           text == (Len(name) + 1) % LenMod
           head == <<ShortTag, size>> \o Lang \o <<text, UTF8>>
<1>1. Len(name) \in Nat /\ Len(rest) \in Nat
  OBVIOUS
<1>2. size \in Nat /\ text \in Nat
  BY <1>1, RemainderBound, SMTT(30)
<1> HIDE DEF size, text
<1>3. /\ head \in Seq(Nat) /\ Len(head) = 7
      /\ head[1] = ShortTag /\ head[2] = size /\ head[6] = text
  BY <1>2 DEF Lang, ShortTag, UTF8
<1> HIDE DEF head
<1>4. /\ head \o name \in Seq(Nat) /\ Len(head \o name) = 7 + Len(name)
      /\ \A i \in 1..7 : (head \o name)[i] = head[i]
      /\ \A i \in 1..Len(name) : (head \o name)[7 + i] = name[i]
  <2>1. /\ head \o name \in Seq(Nat) /\ Len(head \o name) = Len(head) + Len(name)
        /\ \A i \in 1..Len(head) : (head \o name)[i] = head[i]
        /\ \A i \in 1..Len(name) : (head \o name)[Len(head) + i] = name[i]
    BY <1>3, ConcatAt, Zenon
  <2> QED
    BY <1>3, <2>1, Zenon
<1> DEFINE e == head \o name \o rest
<1>5. /\ e \in Seq(Nat) /\ Len(e) = 7 + Len(name) + Len(rest)
      /\ \A i \in 1..(7 + Len(name)) : e[i] = (head \o name)[i]
      /\ \A i \in 1..Len(rest) : e[7 + Len(name) + i] = rest[i]
  <2> DEFINE h == head \o name
  <2>1. /\ h \o rest \in Seq(Nat) /\ Len(h \o rest) = Len(h) + Len(rest)
        /\ \A i \in 1..Len(h) : (h \o rest)[i] = h[i]
        /\ \A i \in 1..Len(rest) : (h \o rest)[Len(h) + i] = rest[i]
    BY <1>4, ConcatAt, Zenon
  <2> QED
    BY <1>4, <2>1, Zenon
<1> HIDE DEF e
<1>6. e[1] = ShortTag /\ e[2] = size /\ e[6] = text
  <2>1. {1, 2, 6} \subseteq 1..(7 + Len(name)) /\ {1, 2, 6} \subseteq 1..7
    BY <1>1
  <2> QED
    BY <1>3, <1>4, <1>5, <2>1
<1>7. \A i \in 1..Len(name) : e[7 + i] = name[i]
  <2>1. \A i \in 1..Len(name) : 7 + i \in 1..(7 + Len(name))
    BY <1>1
  <2> QED
    BY <1>4, <1>5, <2>1
<1>8. ShortEvent(name, rest) = e
  BY DEF ShortEvent, e, head, size, text
<1> QED
  BY <1>5, <1>6, <1>7, <1>8 DEF size, text, HasBytes

(* An overlong short descriptor does not end in a 0 where its length byte   *)
(* makes it end, as one that fits does: their titles are texts without 0.   *)
Tight(d) ==
  d[1] = ShortTag /\ d[2] >= 6 => Len(d) = d[2] + 2 \/ d[d[2] + 2] # 0

LEMMA XmlShortTight ==
  ASSUME NEW title \in Seq(Nat), \A i \in DOMAIN title : title[i] # 0
  PROVE  /\ Announced(XmlShort(title)) /\ Tight(XmlShort(title))
         /\ XmlShort(title)[1] = ShortTag
         /\ Fits(XmlShort(title)) =>
              XmlShort(title)[2] >= 6 /\ XmlShort(title)[XmlShort(title)[2] + 2] = 0
<1> DEFINE d == XmlShort(title)
<1> DEFINE zero == <<0>>
<1>1. zero \in Seq(Nat) /\ Len(zero) = 1 /\ zero[1] = 0 /\ Len(title) \in Nat
  OBVIOUS
<1>2. d = ShortEvent(title, zero)
  BY DEF XmlShort
<1> HIDE DEF zero, d
<1>3. Announced(d)
  BY <1>1, <1>2, ShortEventAnnounced
<1>4. /\ Len(d) = Len(title) + 8 /\ d[1] = ShortTag /\ d[2] = (Len(title) + 6) % LenMod
      /\ \A i \in 1..Len(title) : d[7 + i] = title[i]
      /\ d[Len(title) + 8] = 0
  <2>1. /\ Len(d) = 7 + Len(title) + Len(zero) /\ d[1] = ShortTag
        /\ d[2] = (Len(title) + Len(zero) + 5) % LenMod
        /\ \A i \in 1..Len(title) : d[7 + i] = title[i]
        /\ \A i \in 1..Len(zero) : d[7 + Len(title) + i] = zero[i]
    BY <1>1, <1>2, ShortEventBytes DEF HasBytes
  <2>2. 7 + Len(title) + 1 = Len(title) + 8 /\ Len(title) + 1 + 5 = Len(title) + 6
    BY <1>1
  <2>3. d[7 + Len(title) + 1] = 0
    BY <1>1, <2>1
  <2> QED
    BY <1>1, <2>1, <2>2, <2>3
<1>5. Len(title) \in Nat /\ \A i \in 1..Len(title) : title[i] # 0
  OBVIOUS
<1>6. Tight(d)
  <2> SUFFICES ASSUME d[2] >= 6, Len(d) # d[2] + 2
               PROVE  d[d[2] + 2] # 0
    BY DEF Tight
  <2>1. d[2] \in Nat /\ d[2] + 2 <= Len(d)
    BY <1>3 DEF Announced
  <2>2. PICK i \in 1..Len(title) : d[2] + 2 = 7 + i
    <3>1. d[2] - 5 \in 1..Len(title) /\ d[2] + 2 = 7 + (d[2] - 5)
      BY <1>4, <1>5, <2>1, SMTT(30)
    <3> QED
      BY <3>1
  <2> QED
    BY <1>4, <1>5, <2>2
<1>7. Fits(d) => d[2] >= 6 /\ d[d[2] + 2] = 0
  <2> SUFFICES ASSUME Fits(d) PROVE d[2] >= 6 /\ d[d[2] + 2] = 0
    OBVIOUS
  <2>1. d[2] \in Nat /\ Len(title) + 8 = d[2] + 2
    BY <1>3, <1>4 DEF Fits, Announced
  <2> QED
    BY <1>4, <1>5, <2>1
<1> QED
  BY <1>3, <1>4, <1>6, <1>7 DEF d

LEMMA ExtendedEventBytes ==
  ASSUME NEW i \in Nat \ {0}, NEW chunk \in Seq(Nat), NEW order,
         NEW d, d = ExtendedEvent(i, chunk, order)
  PROVE  /\ d \in Seq(Nat) /\ Len(d) = 9 + Len(chunk) /\ d[1] = ExtendedTag
         /\ d[2] = (Len(chunk) + 7) % LenMod /\ d[8] = (Len(chunk) + 1) % LenMod
         /\ \A j \in 1..Len(chunk) : d[9 + j] = chunk[j]
<1> DEFINE head == <<ExtendedTag, (Len(chunk) + 7) % LenMod, ChunkNumber(i, order)>>
                     \o Lang \o <<0, (Len(chunk) + 1) % LenMod, UTF8>>
<1>1. (Len(chunk) + 7) % LenMod \in Nat /\ (Len(chunk) + 1) % LenMod \in Nat
  BY RemainderBound, SMTT(30)
<1>2. ChunkNumber(i, order) \in Nat
  BY DEF ChunkNumber
<1>3. /\ head \in Seq(Nat) /\ Len(head) = 9 /\ head[1] = ExtendedTag
      /\ head[2] = (Len(chunk) + 7) % LenMod /\ head[8] = (Len(chunk) + 1) % LenMod
  BY <1>1, <1>2 DEF Lang, ExtendedTag, UTF8
<1>4. d = head \o chunk
  BY DEF ExtendedEvent
<1> HIDE DEF head
<1>5. /\ head \o chunk \in Seq(Nat) /\ Len(head \o chunk) = Len(head) + Len(chunk)
      /\ \A j \in 1..Len(head) : (head \o chunk)[j] = head[j]
      /\ \A j \in 1..Len(chunk) : (head \o chunk)[Len(head) + j] = chunk[j]
  <2>1. head \in Seq(Nat)
    BY <1>3
  <2> QED
    BY <2>1, ConcatAt
<1>6. d \in Seq(Nat) /\ Len(d) = 9 + Len(chunk)
  BY <1>3, <1>4, <1>5
<1>7. \A j \in 1..9 : d[j] = head[j]
  BY <1>3, <1>4, <1>5
<1>8. \A j \in 1..Len(chunk) : d[9 + j] = chunk[j]
  BY <1>3, <1>4, <1>5
<1>9. d[1] = head[1] /\ d[2] = head[2] /\ d[8] = head[8]
  BY <1>7
<1> QED
  BY <1>3, <1>6, <1>8, <1>9

LEMMA ExtendedEventTight ==
  ASSUME NEW i \in Nat \ {0}, NEW chunk \in Seq(Nat), NEW order
  PROVE  Tight(ExtendedEvent(i, chunk, order))
<1>1. ExtendedEvent(i, chunk, order)[1] = ExtendedTag /\ ExtendedTag # ShortTag
  BY ExtendedEventBytes DEF ShortTag, ExtendedTag
<1> QED
  BY <1>1 DEF Tight

LEMMA ExtendedHoldsText ==
  ASSUME NEW i \in Nat \ {0}, NEW chunk \in Seq(Nat), NEW order
  PROVE  HoldsText(ExtendedEvent(i, chunk, order))
<1> DEFINE d == ExtendedEvent(i, chunk, order)
<1>1. Len(d) = 9 + Len(chunk) /\ d[8] = (Len(chunk) + 1) % LenMod
  BY ExtendedEventBytes
<1>2. (Len(chunk) + 1) % LenMod \in Nat /\ (Len(chunk) + 1) % LenMod <= Len(chunk) + 1
  BY RemainderBound
<1> HIDE DEF d
<1>3. HoldsText(d)
  BY <1>1, <1>2 DEF HoldsText
<1> QED
  BY <1>3 DEF d

(* The id of a descriptor that fits belongs to no other.                    *)
LEMMA SameCrcSame ==
  ASSUME NEW d, Announced(d), Fits(d), d[1] = ShortTag, d[2] >= 6, d[d[2] + 2] = 0,
         NEW b, Announced(b), Tight(b), Crc(b) = Crc(d)
  PROVE  b = d
<1>1. d \in Seq(Nat) /\ d[2] \in Nat /\ Len(d) = d[2] + 2
  BY DEF Announced, Fits
<1>2. b \in Seq(Nat) /\ b[2] \in Nat /\ b[2] + 2 <= Len(b) /\ Len(b) \in Nat
  <2>1. b \in Seq(Nat) /\ b[2] \in Nat /\ b[2] + 2 <= Len(b)
    BY DEF Announced
  <2>2. Len(b) \in Nat
    BY <2>1
  <2> QED
    BY <2>1, <2>2
<1>3. Crc(d) = d
  BY <1>1, SubSeqFull DEF Crc
<1>4. /\ Len(Crc(b)) = b[2] + 2
      /\ \A i \in 1..(b[2] + 2) : Crc(b)[i] = b[i]
  <2>1. \A i \in 1..(b[2] + 2) : b[i] \in Nat
    BY <1>2
  <2>2. /\ Len(SubSeq(b, 1, b[2] + 2)) = IF 1 <= b[2] + 2 THEN (b[2] + 2) - 1 + 1 ELSE 0
        /\ \A i \in 1..((b[2] + 2) - 1 + 1) : SubSeq(b, 1, b[2] + 2)[i] = b[1 + i - 1]
    BY <1>2, <2>1, SubSeqProperties
  <2> QED
    BY <1>2, <2>2 DEF Crc
<1>5. b[1] = d[1] /\ b[2] = d[2]
  <2>1. 1 \in 1..(b[2] + 2) /\ 2 \in 1..(b[2] + 2)
    BY <1>2
  <2> QED
    BY <1>3, <1>4, <2>1
<1>6. b[b[2] + 2] = 0
  <2>1. b[2] + 2 \in 1..(b[2] + 2)
    BY <1>2
  <2>2. Crc(b)[b[2] + 2] = b[b[2] + 2]
    BY <1>4, <2>1
  <2> QED
    BY <1>3, <1>5, <2>2
<1>7. Len(b) = b[2] + 2
  BY <1>5, <1>6 DEF Tight
<1>8. Crc(b) = b
  BY <1>2, <1>7, SubSeqFull DEF Crc
<1> QED
  BY <1>3, <1>8
-----------------------------------------------------------------------------
(* Counting references, and counting them modulo the width of a counter.    *)
(* A list that is added, and the references it adds.                        *)
IsAdded(n, lists, more) ==
  /\ n \notin DOMAIN lists /\ DOMAIN more = DOMAIN lists \cup {n}
  /\ \A m \in DOMAIN lists : more[m] = lists[m]

LEMMA ListIsFinite ==
  ASSUME NEW S, NEW s \in Seq(S)
  PROVE  IsFiniteSet(DOMAIN s)
<1>1. 1 \in Int /\ Len(s) \in Int /\ DOMAIN s = 1..Len(s)
  OBVIOUS
<1> QED
  BY <1>1, FS_Interval

LEMMA ReferencesGrow ==
  ASSUME NEW lists, NEW more, NEW n, NEW id, IsAdded(n, lists, more),
         IsFiniteSet(Places(lists, id)), IsFiniteSet(DOMAIN more[n])
  PROVE  /\ IsFiniteSet(Places(more, id)) /\ References(lists, id) \in Nat
         /\ Cardinality(PlacesIn(more[n], id)) \in Nat
         /\ References(more, id)
              = References(lists, id) + Cardinality(PlacesIn(more[n], id))
<1> DEFINE uses == PlacesIn(more[n], id)
           new  == {n} \X uses
<1>1. IsFiniteSet(uses) /\ Cardinality(uses) \in Nat
  <2>1. uses \in SUBSET DOMAIN more[n]
    BY DEF PlacesIn
  <2> HIDE DEF uses
  <2> QED
    BY <2>1, FS_Subset, FS_CardinalityType
<1>2. Places(more, id) = Places(lists, id) \cup new
  BY DEF Places, IsAdded
<1>3. Places(lists, id) \cap new = {}
  BY DEF Places, IsAdded
<1> HIDE DEF uses
<1>4. IsFiniteSet(new) /\ Cardinality(new) = Cardinality(uses)
  <2>1. IsFiniteSet({n}) /\ Cardinality({n}) = 1
    BY FS_Singleton
  <2>2. IsFiniteSet(new) /\ Cardinality(new) = Cardinality({n}) * Cardinality(uses)
    BY <1>1, <2>1, FS_Product
  <2> QED
    BY <1>1, <2>1, <2>2
<1> HIDE DEF new
<1>5. Cardinality(Places(lists, id)) \in Nat
  BY FS_CardinalityType
<1>6. /\ IsFiniteSet(Places(more, id))
      /\ Cardinality(Places(more, id))
           = Cardinality(Places(lists, id)) + Cardinality(new) - 0
  <2>1. Cardinality({}) = 0
    BY FS_EmptySet
  <2> QED
    BY <1>2, <1>3, <1>4, <2>1, FS_Union
<1> QED
  BY <1>1, <1>4, <1>5, <1>6 DEF References, uses

(* A table that counts the references of some lists counts those of one     *)
(* more when its descriptors are entered.                                   *)
LEMMA InternCounts ==
  ASSUME NEW table, NEW lists, NEW more, NEW n, IsAdded(n, lists, more),
         NEW ds, IsFiniteSet(DOMAIN ds), more[n] = Crcs(ds),
         \A id : IsFiniteSet(Places(lists, id)), Counts(table, lists)
  PROVE  /\ Counts(Intern(table, ds), more)
         /\ \A id : IsFiniteSet(Places(more, id))
<1> DEFINE t == Intern(table, ds)
<1>1. IsFiniteSet(DOMAIN more[n])
  BY DEF Crcs
<1>2. \A id : /\ IsFiniteSet(Places(more, id)) /\ References(lists, id) \in Nat
              /\ Cardinality(PlacesIn(more[n], id)) \in Nat
              /\ References(more, id)
                   = References(lists, id) + Cardinality(PlacesIn(more[n], id))
  <2>1. \A id : IsFiniteSet(Places(more, id)) /\ References(lists, id) \in Nat
    BY <1>1, ReferencesGrow
  <2>2. \A id : Cardinality(PlacesIn(more[n], id)) \in Nat
    BY <1>1, ReferencesGrow
  <2>3. \A id : References(more, id)
                  = References(lists, id) + Cardinality(PlacesIn(more[n], id))
    <3> TAKE id
    <3>1. IsFiniteSet(Places(lists, id)) /\ IsFiniteSet(DOMAIN more[n])
      BY <1>1
    <3> QED
      BY <3>1, ReferencesGrow
  <2> QED
    BY <2>1, <2>2, <2>3
<1>3. \A id : PlacesIn(more[n], id) = Uses(ds, id)
  BY DEF PlacesIn, Uses, Crcs
<1>4. /\ DOMAIN t = DOMAIN table \cup {Crc(ds[i]) : i \in DOMAIN ds}
      /\ \A id \in DOMAIN table :
           t[id].count = (table[id].count + Cardinality(Uses(ds, id))) % RefMod
      /\ \A id \in DOMAIN t \ DOMAIN table :
           t[id].count = Cardinality(Uses(ds, id)) % RefMod
  BY DEF Intern
<1> HIDE DEF t
<1>5. ASSUME NEW id \in DOMAIN table
      PROVE  t[id].count = References(more, id) % RefMod
  <2>1. table[id].count = References(lists, id) % RefMod
    BY DEF Counts
  <2>2. References(lists, id) \in Nat /\ Cardinality(Uses(ds, id)) \in Nat
    BY <1>2, <1>3
  <2>3. RefMod \in Nat \ {0}
    BY DescriptorAssumption DEF DescriptorAssumption
  <2>4. ((References(lists, id) % RefMod) + Cardinality(Uses(ds, id))) % RefMod
          = (References(lists, id) + Cardinality(Uses(ds, id))) % RefMod
    BY <2>2, <2>3, RemainderOfSum
  <2> QED
    BY <1>2, <1>3, <1>4, <2>1, <2>4
<1>6. ASSUME NEW id \in DOMAIN t \ DOMAIN table
      PROVE  t[id].count = References(more, id) % RefMod
  <2>1. Places(lists, id) = {}
    BY DEF Counts, Places, PlacesIn
  <2>2. References(lists, id) = 0
    BY <2>1, FS_EmptySet DEF References
  <2>3. References(more, id) = Cardinality(Uses(ds, id))
    BY <1>2, <1>3, <2>2
  <2> QED
    BY <1>4, <2>3
<1>7. \A m \in DOMAIN more : \A i \in DOMAIN more[m] : more[m][i] \in DOMAIN t
  BY <1>4 DEF Counts, Crcs, IsAdded
<1> QED
  BY <1>2, <1>4, <1>5, <1>6, <1>7 DEF Counts, t
-----------------------------------------------------------------------------
(* What the joined texts of well-formed descriptors are.                    *)
LEMMA ExtendedTextType ==
  ASSUME NEW d \in Seq(Nat), d[1] = ExtendedTag, HoldsText(d)
  PROVE  ExtendedText(d) \in Seq(Nat)
<1>1. Len(d) \in Nat /\ Len(d) >= 8 /\ 8 + d[8] <= Len(d) /\ \A i \in 1..Len(d) : d[i] \in Nat
  BY DEF HoldsText
<1>2. d[8] \in Nat
  BY <1>1
<1>3. \A i \in 10..(8 + d[8]) : d[i] \in Nat
  BY <1>1, <1>2
<1> QED
  BY <1>2, <1>3, SubSeqProperties DEF ExtendedText

JoinsTexts(f, ds) ==
  f = [i \in 0..Len(ds) |->
         IF i = 0 THEN <<>>
         ELSE IF ds[i][1] = ExtendedTag THEN f[i - 1] \o ExtendedText(ds[i])
         ELSE f[i - 1]]

LEMMA JoinedSteps ==
  ASSUME NEW ds \in Seq(Seq(Nat)), \A i \in DOMAIN ds : HoldsText(ds[i])
  PROVE  /\ JoinedTexts(ds)[0] = <<>>
         /\ \A i \in 1..Len(ds) :
              JoinedTexts(ds)[i] = IF ds[i][1] = ExtendedTag
                                     THEN JoinedTexts(ds)[i - 1] \o ExtendedText(ds[i])
                                     ELSE JoinedTexts(ds)[i - 1]
         /\ \A i \in 0..Len(ds) : JoinedTexts(ds)[i] \in Seq(Nat)
<1> DEFINE J == JoinedTexts(ds)
           n == Len(ds)
           S == Seq(Nat)
           g == [p \in (1..n) \X S |->
                   IF ds[p[1]][1] = ExtendedTag THEN p[2] \o ExtendedText(ds[p[1]])
                   ELSE p[2]]
<1>1. n \in Nat /\ <<>> \in S /\ \A i \in 1..n : ds[i] \in Seq(Nat) /\ HoldsText(ds[i])
  OBVIOUS
<1>2. \A i \in 1..n : ds[i][1] = ExtendedTag => ExtendedText(ds[i]) \in S
  BY <1>1, ExtendedTextType
<1>3. g \in [(1..n) \X S -> S]
  <2>1. \A i \in 1..n, s \in S :
          (IF ds[i][1] = ExtendedTag THEN s \o ExtendedText(ds[i]) ELSE s) \in S
    BY <1>2
  <2> QED
    BY <2>1
<1>4. \E f : JoinsTexts(f, ds)
  <2>1. PICK f : Repeats(f, S, <<>>, n, g)
    <3>1. n \in Nat /\ <<>> \in S
      BY <1>1
    <3> HIDE DEF g, n, S
    <3> QED
      BY <3>1, <1>3, RepetitionExists
  <2>2. /\ f \in [0..n -> S]
        /\ f = [i \in 0..n |-> IF i = 0 THEN <<>> ELSE g[<<i, f[i - 1]>>]]
    BY <2>1 DEF Repeats
  <2>3. \A i \in 0..n : i # 0 => i \in 1..n /\ f[i - 1] \in S
    <3>1. n \in Nat /\ f \in [0..n -> S]
      BY <1>1, <2>2
    <3> HIDE DEF g, n, S
    <3> QED
      BY <3>1
  <2>4. \A i \in 0..n : i # 0 =>
          g[<<i, f[i - 1]>>] = IF ds[i][1] = ExtendedTag THEN f[i - 1] \o ExtendedText(ds[i])
                               ELSE f[i - 1]
    BY <2>3
  <2>5. f = [i \in 0..n |-> IF i = 0 THEN <<>>
                            ELSE IF ds[i][1] = ExtendedTag
                                   THEN f[i - 1] \o ExtendedText(ds[i])
                            ELSE f[i - 1]]
    <3> HIDE DEF g, n
    <3> QED
      BY <2>2, <2>4
  <2> QED
    BY <2>5 DEF JoinsTexts
<1>5. J = CHOOSE f : JoinsTexts(f, ds)
  BY DEF JoinedTexts, JoinsTexts
<1>6. JoinsTexts(J, ds)
  <2> HIDE DEF J
  <2> QED
    BY <1>4, <1>5
<1> HIDE DEF J, n
<1>7. /\ J[0] = <<>>
      /\ \A i \in 1..n : J[i] = IF ds[i][1] = ExtendedTag THEN J[i - 1] \o ExtendedText(ds[i])
                                ELSE J[i - 1]
  <2>1. \A i \in 0..n :
          J[i] = IF i = 0 THEN <<>>
                 ELSE IF ds[i][1] = ExtendedTag THEN J[i - 1] \o ExtendedText(ds[i])
                 ELSE J[i - 1]
    BY <1>6 DEF JoinsTexts, n
  <2>2. 0 \in 0..n /\ \A i \in 1..n : i \in 0..n /\ i # 0
    BY <1>1
  <2> QED
    BY <2>1, <2>2
<1>8. \A i \in 0..n : J[i] \in S
  <2> DEFINE T == {i \in 0..n : J[i] \notin S}
  <2>1. ASSUME T # {} PROVE FALSE
    <3>1. T \in SUBSET Nat
      OBVIOUS
    <3>2. Min(T) \in T /\ \A y \in T : Min(T) <= y
      <4> HIDE DEF T
      <4> QED
        BY <2>1, <3>1, MinNat
    <3>3. PICK m \in T : \A y \in T : m <= y
      BY <3>2
    <3>4. m \in 0..n /\ J[m] \notin S
      OBVIOUS
    <3>5. m # 0
      BY <1>1, <1>7, <3>4
    <3>6. m \in 1..n /\ m - 1 \in 0..n /\ ~(m <= m - 1)
      BY <1>1, <3>4, <3>5
    <3>7. J[m - 1] \in S
      BY <3>3, <3>6
    <3>8. J[m] = IF ds[m][1] = ExtendedTag THEN J[m - 1] \o ExtendedText(ds[m]) ELSE J[m - 1]
      BY <1>7, <3>6
    <3> QED
      BY <1>2, <3>4, <3>6, <3>7, <3>8
  <2> QED
    BY <2>1
<1> QED
  BY <1>7, <1>8 DEF J, n

(* The description of well-formed descriptors is a text.                    *)
LEMMA KnownPrefixType ==
  ASSUME NEW ds \in Seq(Seq(Nat))
  PROVE  /\ KnownPrefix(ds) \in Seq(Seq(Nat)) /\ Len(KnownPrefix(ds)) <= Len(ds)
         /\ \A i \in DOMAIN KnownPrefix(ds) : i \in DOMAIN ds /\ KnownPrefix(ds)[i] = ds[i]
<1> DEFINE unknown == {i \in DOMAIN ds : ds[i][1] \notin {ShortTag, ExtendedTag}}
           m == Min(unknown)
<1>1. DOMAIN ds = 1..Len(ds) /\ Len(ds) \in Nat /\ \A i \in 1..Len(ds) : ds[i] \in Seq(Nat)
  OBVIOUS
<1>2. CASE unknown = {}
  BY <1>2 DEF KnownPrefix
<1>3. CASE unknown # {}
  <2>1. m \in 1..Len(ds)
    <3>1. unknown \in SUBSET Nat /\ unknown \in SUBSET (1..Len(ds))
      BY <1>1
    <3> HIDE DEF unknown
    <3> QED
      BY <1>3, <3>1, MinNat
  <2>2. KnownPrefix(ds) = SubSeq(ds, 1, m - 1)
    BY <1>3 DEF KnownPrefix
  <2> HIDE DEF m
  <2>3. \A i \in 1..(m - 1) : ds[i] \in Seq(Nat)
    BY <1>1, <2>1
  <2>4. 1 \in Int /\ m - 1 \in Int
    BY <2>1
  <2>5. SubSeq(ds, 1, m - 1) \in Seq(Seq(Nat))
    BY <2>3, <2>4, SubSeqProperties
  <2>6. Len(SubSeq(ds, 1, m - 1)) = m - 1
    <3>1. Len(SubSeq(ds, 1, m - 1)) = IF 1 <= m - 1 THEN (m - 1) - 1 + 1 ELSE 0
      BY <2>3, <2>4, SubSeqProperties
    <3> QED
      BY <2>1, <3>1
  <2>7. \A i \in 1..(m - 1) : SubSeq(ds, 1, m - 1)[i] = ds[i]
    <3>1. \A i \in 1..((m - 1) - 1 + 1) : SubSeq(ds, 1, m - 1)[i] = ds[1 + i - 1]
      BY <2>3, <2>4, SubSeqProperties
    <3> QED
      BY <2>1, <3>1
  <2> HIDE DEF unknown
  <2> QED
    BY <1>1, <2>1, <2>2, <2>5, <2>6, <2>7
<1> QED
  BY <1>2, <1>3

LEMMA DescriptionType ==
  ASSUME NEW ds \in Seq(Seq(Nat)), \A i \in DOMAIN ds : HoldsText(ds[i])
  PROVE  Content(ds).desc \in Seq(Nat)
<1> DEFINE known == KnownPrefix(ds)
<1>1. known \in Seq(Seq(Nat)) /\ \A i \in DOMAIN known : HoldsText(known[i])
  BY KnownPrefixType
<1>2. Content(ds).desc = JoinedTexts(known)[Len(known)]
  BY DEF Content
<1> HIDE DEF known
<1>3. Len(known) \in 0..Len(known)
  BY <1>1
<1> QED
  BY <1>1, <1>2, <1>3, JoinedSteps
-----------------------------------------------------------------------------
(* Reading back what was written.                                           *)
LEMMA SubSeqFacts ==
  ASSUME NEW s \in Seq(Nat), NEW a \in Nat \ {0}, NEW b \in Nat, b <= Len(s), a <= b + 1
  PROVE  /\ SubSeq(s, a, b) \in Seq(Nat) /\ Len(SubSeq(s, a, b)) = b - a + 1
         /\ \A i \in 1..(b - a + 1) : SubSeq(s, a, b)[i] = s[a + i - 1]
<1>1. \A i \in a..b : s[i] \in Nat
  OBVIOUS
<1>2. /\ SubSeq(s, a, b) \in Seq(Nat)
      /\ Len(SubSeq(s, a, b)) = IF a <= b THEN b - a + 1 ELSE 0
      /\ \A i \in 1..(b - a + 1) : SubSeq(s, a, b)[i] = s[a + i - 1]
  BY <1>1, SubSeqProperties
<1> QED
  BY <1>2

LEMMA SubSeqIs ==
  ASSUME NEW s \in Seq(Nat), NEW n \in Nat, NEW t \in Seq(Nat),
         NEW a, a = n + 1, NEW b, b = n + Len(t), b <= Len(s),
         \A i \in 1..Len(t) : s[n + i] = t[i]
  PROVE  SubSeq(s, a, b) = t
<1> DEFINE u == SubSeq(s, a, b)
           m == Len(t)
<1>1. m \in Nat
  OBVIOUS
<1>2. /\ a \in Nat \ {0} /\ b \in Nat /\ a <= b + 1 /\ b - a + 1 = m
      /\ \A i \in 1..m : a + i - 1 = n + i
  <2> HIDE DEF m
  <2>1. a = n + 1 /\ b = n + m
    BY DEF m
  <2> QED
    BY <1>1, <2>1
<1>3. u \in Seq(Nat) /\ Len(u) = m /\ \A i \in 1..m : u[i] = s[a + i - 1]
  BY <1>2, SubSeqFacts
<1>4. \A i \in 1..m : u[i] = t[i]
  BY <1>2, <1>3
<1> HIDE DEF u
<1>5. u = t
  BY <1>3, <1>4, SeqEqual
<1> QED
  BY <1>5 DEF u

LEMMA SubSeqJoins ==
  ASSUME NEW s \in Seq(Nat), NEW a \in Nat, NEW b \in Nat, a <= b, b <= Len(s)
  PROVE  SubSeq(s, 1, a) \o SubSeq(s, a + 1, b) = SubSeq(s, 1, b)
<1> DEFINE u == SubSeq(s, 1, a)
           v == SubSeq(s, a + 1, b)
           w == SubSeq(s, 1, b)
<1>1. /\ u \in Seq(Nat) /\ Len(u) = a - 1 + 1
      /\ \A i \in 1..(a - 1 + 1) : u[i] = s[1 + i - 1]
  BY SubSeqFacts
<1>2. /\ v \in Seq(Nat) /\ Len(v) = b - (a + 1) + 1
      /\ \A i \in 1..(b - (a + 1) + 1) : v[i] = s[(a + 1) + i - 1]
  BY SubSeqFacts
<1>3. /\ w \in Seq(Nat) /\ Len(w) = b - 1 + 1
      /\ \A i \in 1..(b - 1 + 1) : w[i] = s[1 + i - 1]
  BY SubSeqFacts
<1> HIDE DEF u, v, w
<1>4. Len(u) = a /\ \A i \in 1..a : u[i] = s[i]
  BY <1>1
<1>5. Len(v) = b - a /\ \A i \in 1..(b - a) : v[i] = s[a + i]
  <2>1. b - (a + 1) + 1 = b - a /\ \A i \in 1..(b - a) : (a + 1) + i - 1 = a + i
    OBVIOUS
  <2> QED
    BY <1>2, <2>1
<1>6. Len(w) = b /\ \A i \in 1..b : w[i] = s[i]
  BY <1>3
<1>7. /\ u \o v \in Seq(Nat) /\ Len(u \o v) = Len(u) + Len(v)
      /\ \A i \in 1..Len(u) : (u \o v)[i] = u[i]
      /\ \A i \in 1..Len(v) : (u \o v)[Len(u) + i] = v[i]
  BY <1>1, <1>2, ConcatAt
<1>8. Len(u \o v) = b
  BY <1>4, <1>5, <1>7
<1>9. \A i \in 1..b : (u \o v)[i] = s[i]
  <2> TAKE i \in 1..b
  <2>1. CASE i <= a
    <3>1. i \in 1..a
      BY <2>1
    <3> QED
      BY <1>4, <1>7, <3>1
  <2>2. CASE ~(i <= a)
    <3>1. i - a \in 1..(b - a) /\ a + (i - a) = i
      BY <2>2
    <3>2. (u \o v)[a + (i - a)] = v[i - a] /\ v[i - a] = s[a + (i - a)]
      BY <1>4, <1>5, <1>7, <3>1
    <3> QED
      BY <3>1, <3>2
  <2> QED
    BY <2>1, <2>2
<1>10. u \o v = w
  BY <1>3, <1>6, <1>7, <1>8, <1>9, SeqEqual
<1> QED
  BY <1>10 DEF u, v, w

LEMMA RemainderSmall == \A n \in Nat : n < LenMod => n % LenMod = n
BY DescriptorAssumption, Z3 DEF DescriptorAssumption

HasTexts(d, name, text) ==
  /\ d \in Seq(Nat) /\ Len(d) = 9 + Len(name) + Len(text)
  /\ d[1] = ShortTag /\ d[2] = (Len(name) + Len(text) + 7) % LenMod
  /\ d[6] = (Len(name) + 1) % LenMod
  /\ d[8 + Len(name)] = (Len(text) + 1) % LenMod
  /\ \A i \in 1..Len(name) : d[7 + i] = name[i]
  /\ \A i \in 1..Len(text) : d[9 + Len(name) + i] = text[i]

LEMMA V7ShortBytes ==
  ASSUME NEW name \in Seq(Nat), NEW text \in Seq(Nat)
  PROVE  HasTexts(V7Short(name, text), name, text)
<1> DEFINE size == (Len(text) + 1) % LenMod
           rest == <<size, UTF8>> \o text
           d    == V7Short(name, text)
<1>1. Len(name) \in Nat /\ Len(text) \in Nat
  OBVIOUS
<1>2. size \in Nat
  BY <1>1, RemainderBound
<1>3. d = ShortEvent(name, rest)
  BY DEF V7Short
<1>4. /\ rest \in Seq(Nat) /\ Len(rest) = 2 + Len(text) /\ rest[1] = size
      /\ \A i \in 1..Len(text) : rest[2 + i] = text[i]
  <2> DEFINE h == <<size, UTF8>>
  <2>1. h \in Seq(Nat) /\ Len(h) = 2 /\ h[1] = size
    BY <1>2 DEF UTF8
  <2> HIDE DEF h, size
  <2>2. /\ h \o text \in Seq(Nat) /\ Len(h \o text) = Len(h) + Len(text)
        /\ \A i \in 1..Len(h) : (h \o text)[i] = h[i]
        /\ \A i \in 1..Len(text) : (h \o text)[Len(h) + i] = text[i]
    BY <2>1, ConcatAt
  <2>3. rest = h \o text
    BY DEF h
  <2> HIDE DEF rest
  <2> QED
    BY <2>1, <2>2, <2>3
<1> HIDE DEF rest, d
<1>5. /\ d \in Seq(Nat) /\ Len(d) = 7 + Len(name) + Len(rest)
      /\ d[1] = ShortTag /\ d[2] = (Len(name) + Len(rest) + 5) % LenMod
      /\ d[6] = (Len(name) + 1) % LenMod
      /\ \A i \in 1..Len(name) : d[7 + i] = name[i]
      /\ \A i \in 1..Len(rest) : d[7 + Len(name) + i] = rest[i]
  BY <1>3, <1>4, ShortEventBytes, ZenonT(30) DEF HasBytes
<1>6. Len(d) = 9 + Len(name) + Len(text)
  BY <1>1, <1>4, <1>5
<1>7. d[2] = (Len(name) + Len(text) + 7) % LenMod
  <2>1. Len(name) + Len(rest) + 5 = Len(name) + Len(text) + 7
    BY <1>1, <1>4
  <2> QED
    BY <1>5, <2>1
<1>8. d[8 + Len(name)] = size
  <2>1. 1 \in 1..Len(rest) /\ 8 + Len(name) = 7 + Len(name) + 1
    BY <1>1, <1>4
  <2> QED
    BY <1>4, <1>5, <2>1
<1>9. \A i \in 1..Len(text) : d[9 + Len(name) + i] = text[i]
  <2> TAKE i \in 1..Len(text)
  <2>1. 2 + i \in 1..Len(rest) /\ 9 + Len(name) + i = 7 + Len(name) + (2 + i)
    BY <1>1, <1>4
  <2> QED
    BY <1>4, <1>5, <2>1
<1>10. HasTexts(d, name, text)
  BY <1>5, <1>6, <1>7, <1>8, <1>9 DEF HasTexts, size
<1> QED
  BY <1>10 DEF d

(* A short descriptor that fits tells its title and its text.               *)
LEMMA ShortReadsBack ==
  ASSUME NEW name \in Seq(Nat), NEW text \in Seq(Nat), Fits(V7Short(name, text))
  PROVE  /\ V7Short(name, text)[1] = ShortTag
         /\ ShortName(V7Short(name, text)) = name /\ ShortText(V7Short(name, text)) = text
<1> DEFINE d == V7Short(name, text)
           l == Len(name)
           m == Len(text)
<1>1. l \in Nat /\ m \in Nat
  OBVIOUS
<1>2. /\ d \in Seq(Nat) /\ Len(d) = 9 + l + m
      /\ d[1] = ShortTag /\ d[2] = (l + m + 7) % LenMod
      /\ d[6] = (l + 1) % LenMod /\ d[8 + l] = (m + 1) % LenMod
      /\ \A i \in 1..l : d[7 + i] = name[i]
      /\ \A i \in 1..m : d[9 + l + i] = text[i]
  BY V7ShortBytes DEF HasTexts
<1>3. LenMod \in Nat \ {0}
  BY DescriptorAssumption DEF DescriptorAssumption
<1>4. Len(d) = d[2] + 2
  BY DEF Fits
<1> HIDE DEF d
<1>5. l + m + 7 = (l + m + 7) % LenMod
  <2> HIDE DEF l, m
  <2> DEFINE r == (l + m + 7) % LenMod
  <2>1. r \in Nat
    BY <1>1, RemainderBound
  <2>2. 9 + l + m = r + 2
    BY <1>2, <1>4
  <2> HIDE DEF r
  <2>3. l + m + 7 = r
    BY <1>1, <2>1, <2>2
  <2> QED
    BY <2>3 DEF r
<1>6. l + m + 7 < LenMod
  <2>1. (l + m + 7) % LenMod < LenMod
    <3> DEFINE a == l + m + 7
    <3>1. a \in Nat
      BY <1>1
    <3> HIDE DEF a
    <3>2. a % LenMod \in 0..(LenMod - 1)
      BY <1>3, <3>1, Division
    <3>3. a % LenMod < LenMod
      BY <1>3, <3>2
    <3> QED
      BY <3>3 DEF a
  <2> QED
    BY <1>5, <2>1
<1>7. d[6] = l + 1 /\ d[8 + l] = m + 1
  <2>1. l + 1 \in Nat /\ l + 1 < LenMod /\ m + 1 \in Nat /\ m + 1 < LenMod
    BY <1>1, <1>3, <1>6
  <2> QED
    BY <1>2, <2>1, RemainderSmall
<1> HIDE DEF l, m
<1>8. ShortName(d) = name
  <2>1. ShortName(d) = SubSeq(d, 8, 7 + l)
    <3>1. 6 + d[6] = 7 + l
      BY <1>1, <1>7
    <3> QED
      BY <3>1 DEF ShortName
  <2>2. 7 + l <= Len(d) /\ 7 \in Nat /\ 8 = 7 + 1
    BY <1>1, <1>2
  <2>3. 7 + Len(name) <= Len(d) /\ \A i \in 1..Len(name) : d[7 + i] = name[i]
    BY <1>2, <2>2 DEF l
  <2>4. SubSeq(d, 8, 7 + Len(name)) = name
    BY <1>2, <2>2, <2>3, SubSeqIs
  <2> QED
    BY <2>1, <2>4 DEF l
<1>9. ShortText(d) = text
  <2>1. ShortText(d) = SubSeq(d, 10 + l, 9 + l + m)
    <3>1. 7 + d[6] = 8 + l /\ (8 + l) + 2 = 10 + l /\ (8 + l) + (m + 1) = 9 + l + m
      BY <1>1, <1>7
    <3>2. d[2] = l + m + 7
      BY <1>2, <1>5
    <3>3. ~((8 + l) - 3 >= l + m + 7)
      BY <1>1
    <3> QED
      BY <1>7, <3>1, <3>2, <3>3 DEF ShortText
  <2>2. 9 + l + m <= Len(d) /\ 9 + l \in Nat /\ 10 + l = (9 + l) + 1
    BY <1>1, <1>2
  <2>3. (9 + l) + Len(text) <= Len(d) /\ \A i \in 1..Len(text) : d[(9 + l) + i] = text[i]
    BY <1>2, <2>2 DEF m
  <2>4. SubSeq(d, 10 + l, (9 + l) + Len(text)) = text
    <3> DEFINE n == 9 + l
    <3>1. /\ n \in Nat /\ 10 + l = n + 1 /\ n + Len(text) <= Len(d)
          /\ \A i \in 1..Len(text) : d[n + i] = text[i]
      BY <2>2, <2>3
    <3> HIDE DEF n
    <3>2. SubSeq(d, n + 1, n + Len(text)) = text
      BY <1>2, <3>1, SubSeqIs
    <3> QED
      BY <3>1, <3>2 DEF n
  <2> QED
    BY <2>1, <2>4 DEF m
<1> QED
  BY <1>2, <1>8, <1>9 DEF d

(* A chunk whose descriptor's length is told by a byte is read back.        *)
LEMMA ChunkReadsBack ==
  ASSUME NEW i \in Nat \ {0}, NEW chunk \in Seq(Nat), NEW order, Len(chunk) + 7 < LenMod
  PROVE  /\ ExtendedEvent(i, chunk, order)[1] = ExtendedTag
         /\ Fits(ExtendedEvent(i, chunk, order))
         /\ ExtendedText(ExtendedEvent(i, chunk, order)) = chunk
<1> DEFINE d == ExtendedEvent(i, chunk, order)
           m == Len(chunk)
<1>1. m \in Nat /\ LenMod \in Nat
  BY DescriptorAssumption DEF DescriptorAssumption
<1>2. /\ d \in Seq(Nat) /\ Len(d) = 9 + m /\ d[1] = ExtendedTag
      /\ d[2] = (m + 7) % LenMod /\ d[8] = (m + 1) % LenMod
      /\ \A j \in 1..m : d[9 + j] = chunk[j]
  BY ExtendedEventBytes
<1> HIDE DEF d
<1>3. d[2] = m + 7 /\ d[8] = m + 1
  <2>1. m + 7 \in Nat /\ m + 7 < LenMod /\ m + 1 \in Nat /\ m + 1 < LenMod
    BY <1>1
  <2> QED
    BY <1>2, <2>1, RemainderSmall
<1>4. Fits(d)
  BY <1>1, <1>2, <1>3 DEF Fits
<1>5. ExtendedText(d) = chunk
  <2>1. ExtendedText(d) = SubSeq(d, 10, 9 + m)
    <3>1. 8 + d[8] = 9 + m
      BY <1>1, <1>3
    <3> QED
      BY <3>1 DEF ExtendedText
  <2>2. 9 \in Nat /\ 10 = 9 + 1 /\ 9 + Len(chunk) <= Len(d)
    BY <1>1, <1>2
  <2>3. SubSeq(d, 10, 9 + Len(chunk)) = chunk
    BY <1>2, <2>2, SubSeqIs
  <2> QED
    BY <2>1, <2>3
<1> QED
  BY <1>2, <1>4, <1>5 DEF d

(* Chunks follow each other without gap or overlap, are all of the text,    *)
(* and none is longer than its width and two characters (dvb.cpp 376-431).  *)
IsCut(e, desc, chunks) ==
  /\ e \in [0..Len(chunks) -> 0..Len(desc)]
  /\ e[0] = 0 /\ e[Len(chunks)] = Len(desc)
  /\ \A i \in 1..Len(chunks) :
       /\ e[i - 1] <= e[i] /\ e[i] - e[i - 1] <= ChunkWidth + 2
       /\ chunks[i] = SubSeq(desc, e[i - 1] + 1, e[i])

LEMMA ChunksCut ==
  ASSUME NEW desc \in Seq(Nat)
  PROVE  \E e : IsCut(e, desc, Chunks(desc))
<1> DEFINE W       == ChunkWidth + 1
           L       == Len(desc)
           first   == Min({FirstCut(desc) + 1, Len(desc)})
           more    == (Len(desc) - first + ChunkWidth) \div W
           end(i)  == Min({Len(desc), first + (i - 1) * W})
           start(i) == IF i = 1 THEN 1 ELSE end(i - 1) + 1
           e       == [i \in 0..(more + 1) |-> IF i = 0 THEN 0 ELSE end(i)]
<1>1. ChunkWidth \in Nat /\ W \in Nat \ {0} /\ L \in Nat
  BY DescriptorAssumption DEF DescriptorAssumption
<1>2. FirstCut(desc) \in Nat /\ FirstCut(desc) <= ChunkWidth + 1
  <2> DEFINE colons == {i \in DOMAIN desc : desc[i] = Colon}
  <2>1. FirstCut(desc) \in Nat
    BY FirstCutType
  <2>2. colons # {} => Min(colons) \in Nat
    <3>1. colons \in SUBSET Nat
      OBVIOUS
    <3> HIDE DEF colons
    <3> QED
      BY <3>1, MinNat
  <2>3. FirstCut(desc) = IF colons = {} \/ Min(colons) > ChunkWidth + 1 THEN ChunkWidth
                         ELSE Min(colons)
    BY DEF FirstCut
  <2> HIDE DEF colons
  <2> QED
    BY <1>1, <2>1, <2>2, <2>3
<1>3. first \in Nat /\ first <= L /\ first <= ChunkWidth + 2
  <2>1. {FirstCut(desc) + 1, L} \in SUBSET Nat
    BY <1>1, <1>2
  <2>2. first \in {FirstCut(desc) + 1, L} /\ \A y \in {FirstCut(desc) + 1, L} : first <= y
    BY <2>1, MinNat
  <2> HIDE DEF first
  <2>3. first <= FirstCut(desc) + 1 /\ first <= L /\ first \in Nat
    BY <2>1, <2>2
  <2> HIDE DEF L
  <2> QED
    BY <1>1, <1>2, <2>3
<1>4. more \in Nat /\ L <= first + more * W
  <2> DEFINE a == L - first + ChunkWidth
             q == a \div W
  <2> HIDE DEF first, L
  <2>1. a \in Nat
    BY <1>1, <1>3
  <2> HIDE DEF a
  <2>2. q \in Nat /\ a % W \in 0..(W - 1) /\ a = (W * q) + (a % W)
    BY <1>1, <2>1, Division
  <2> DEFINE r == a % W
             x == W * q
  <2>3. x \in Nat /\ x = q * W
    <3> HIDE DEF q, W
    <3> QED
      BY <1>1, <2>2
  <2>4. r \in Nat /\ r <= ChunkWidth /\ a = x + r
    BY <1>1, <2>2
  <2> HIDE DEF q, r, x
  <2>5. L <= first + x
    BY <1>1, <1>3, <2>3, <2>4 DEF a
  <2>6. more = q
    BY DEF q, a, L
  <2> HIDE DEF more
  <2> QED
    BY <2>2, <2>3, <2>5, <2>6 DEF q
<1>5. \A i \in Nat \ {0} :
        /\ (i - 1) * W \in Nat
        /\ end(i) = IF L <= first + (i - 1) * W THEN L ELSE first + (i - 1) * W
  <2> TAKE i \in Nat \ {0}
  <2> DEFINE x == first + (i - 1) * W
  <2>1. (i - 1) * W \in Nat /\ x \in Nat
    BY <1>1, <1>3
  <2>2. {L, x} \in SUBSET Nat
    BY <1>1, <2>1
  <2>3. Min({L, x}) \in {L, x} /\ \A y \in {L, x} : Min({L, x}) <= y
    BY <2>2, MinNat
  <2>4. end(i) = Min({L, x})
    OBVIOUS
  <2> HIDE DEF end, x, L
  <2>5. end(i) = IF L <= x THEN L ELSE x
    BY <1>1, <2>1, <2>3, <2>4
  <2> QED
    BY <2>1, <2>5 DEF x
<1> HIDE DEF end, more, first
<1>6. CASE desc = <<>>
  <2> DEFINE z == [i \in 0..0 |-> 0]
  <2>1. Chunks(desc) = <<>>
    BY <1>6 DEF Chunks
  <2>2. IsCut(z, desc, <<>>)
    BY <1>6 DEF IsCut
  <2> QED
    BY <2>1, <2>2
<1>7. CASE desc # <<>>
  <2>1. Chunks(desc) = [i \in 1..(more + 1) |-> SubSeq(desc, start(i), end(i))]
    BY <1>7 DEF Chunks, end, more, first
  <2>2. Len(Chunks(desc)) = more + 1
    BY <1>4, <2>1
  <2>3. \A i \in 1..(more + 1) : end(i) \in 0..L
    <3> TAKE i \in 1..(more + 1)
    <3>1. i \in Nat \ {0}
      BY <1>4
    <3> HIDE DEF L
    <3> QED
      BY <1>1, <1>3, <1>5, <3>1
  <2>4. e \in [0..(more + 1) -> 0..L] /\ e[0] = 0
    BY <1>1, <1>4, <2>3
  <2>5. \A i \in 1..(more + 1) : e[i] = end(i)
    BY <1>4
  <2>6. e[more + 1] = L
    <3>1. more + 1 \in Nat \ {0} /\ (more + 1) - 1 = more /\ more + 1 \in 1..(more + 1)
      BY <1>4
    <3> QED
      BY <1>4, <1>5, <2>5, <3>1
  <2>7. ASSUME NEW i \in 1..(more + 1)
        PROVE  /\ e[i - 1] <= e[i] /\ e[i] - e[i - 1] <= ChunkWidth + 2
               /\ start(i) = e[i - 1] + 1
    <3> HIDE DEF e, L
    <3>1. CASE i = 1
      <4>1. e[i - 1] = 0 /\ e[i] = end(1) /\ start(i) = 1
        BY <1>4, <2>4, <2>5, <3>1
      <4>2. end(1) = IF L <= first THEN L ELSE first
        <5>1. (1 - 1) * W = 0 /\ first + 0 = first
          BY <1>1, <1>3
        <5> QED
          BY <1>5, <5>1
      <4> HIDE DEF start
      <4> QED
        BY <1>1, <1>3, <4>1, <4>2
    <3>2. CASE i # 1
      <4>1. i \in Nat \ {0} /\ i - 1 \in Nat \ {0} /\ i - 1 \in 1..(more + 1)
        BY <1>4, <3>2
      <4>2. e[i] = end(i) /\ e[i - 1] = end(i - 1) /\ start(i) = end(i - 1) + 1
        BY <2>5, <3>2, <4>1
      <4> DEFINE x == ((i - 1) - 1) * W
                 y == (i - 1) * W
      <4>3. x \in Nat /\ y = x + W
        BY <1>1, <4>1
      <4>4. /\ end(i) = IF L <= first + y THEN L ELSE first + y
            /\ end(i - 1) = IF L <= first + x THEN L ELSE first + x
        BY <1>5, <4>1
      <4> HIDE DEF x, y, start
      <4> QED
        BY <1>1, <1>3, <4>2, <4>3, <4>4
    <3> QED
      BY <3>1, <3>2
  <2> HIDE DEF e, start
  <2>8. \A i \in 1..(more + 1) : Chunks(desc)[i] = SubSeq(desc, e[i - 1] + 1, e[i])
    <3> TAKE i \in 1..(more + 1)
    <3>1. start(i) = e[i - 1] + 1 /\ end(i) = e[i]
      BY <2>5, <2>7
    <3> QED
      BY <2>1, <3>1
  <2>9. IsCut(e, desc, Chunks(desc))
    BY <2>2, <2>4, <2>6, <2>7, <2>8 DEF IsCut, L
  <2> QED
    BY <2>9
<1> QED
  BY <1>6, <1>7

HasParts(ds, short, chunks, order) ==
  /\ chunks \in Seq(Seq(Nat)) /\ Len(chunks) \in Nat
  /\ ds \in Seq(Seq(Nat)) /\ Len(ds) = Len(chunks) + 1 /\ ds[1] = short
  /\ \A i \in 1..Len(chunks) : ds[i + 1] = ExtendedEvent(i, chunks[i], order)

LEMMA EventParts ==
  ASSUME NEW short \in Seq(Nat), NEW desc \in Seq(Nat), NEW order
  PROVE  HasParts(EventDescriptors(short, desc, order), short, Chunks(desc), order)
<1> DEFINE chunks == Chunks(desc)
           n      == Len(chunks)
           ds     == EventDescriptors(short, desc, order)
<1>1. chunks \in Seq(Seq(Nat)) /\ n \in Nat /\ DOMAIN chunks = 1..n
  BY ChunksType
<1> DEFINE exts == [i \in DOMAIN chunks |-> ExtendedEvent(i, chunks[i], order)]
           s1   == <<short>>
<1>2. ds = s1 \o exts
  BY DEF EventDescriptors
<1>3. exts \in Seq(Seq(Nat)) /\ Len(exts) = n
  <2>1. \A i \in 1..n : i \in Nat \ {0} /\ chunks[i] \in Seq(Nat)
    BY <1>1
  <2>2. \A i \in 1..n : ExtendedEvent(i, chunks[i], order) \in Seq(Nat)
    BY <2>1, ExtendedEventBytes
  <2> QED
    BY <1>1, <2>2
<1>4. s1 \in Seq(Seq(Nat)) /\ Len(s1) = 1 /\ s1[1] = short
  OBVIOUS
<1>5. \A i \in 1..n : exts[i] = ExtendedEvent(i, chunks[i], order)
  BY <1>1
<1> HIDE DEF exts, s1, ds, n, chunks
<1>6. /\ ds \in Seq(Seq(Nat)) /\ Len(ds) = 1 + n
      /\ \A i \in 1..(1 + n) : ds[i] = IF i <= 1 THEN s1[i] ELSE exts[i - 1]
  <2> DEFINE S == Seq(Nat)
  <2>1. s1 \in Seq(S) /\ exts \in Seq(S)
    BY <1>3, <1>4
  <2> HIDE DEF S
  <2>2. /\ s1 \o exts \in Seq(S)
        /\ Len(s1 \o exts) = Len(s1) + Len(exts)
        /\ \A i \in 1..(Len(s1) + Len(exts)) :
             (s1 \o exts)[i] = IF i <= Len(s1) THEN s1[i] ELSE exts[i - Len(s1)]
    BY <2>1, ConcatProperties
  <2> QED
    BY <1>2, <1>3, <1>4, <2>2 DEF S
<1>7. ds[1] = short
  BY <1>1, <1>4, <1>6
<1>8. \A i \in 1..n : i + 1 \in 1..(1 + n) /\ ~(i + 1 <= 1) /\ (i + 1) - 1 = i
  BY <1>1
<1>9. \A i \in 1..n : ds[i + 1] = exts[i]
  BY <1>6, <1>8
<1>10. HasParts(ds, short, chunks, order)
  <2>1. ds \in Seq(Seq(Nat)) /\ Len(ds) = n + 1
    BY <1>1, <1>6
  <2>2. \A i \in 1..n : ds[i + 1] = ExtendedEvent(i, chunks[i], order)
    BY <1>5, <1>9
  <2> QED
    BY <1>1, <1>7, <2>1, <2>2, Zenon DEF HasParts, n
<1> QED
  BY <1>10 DEF ds, chunks

LEMMA ChunkLengths ==
  ASSUME NEW desc \in Seq(Nat), NEW i \in 1..Len(Chunks(desc))
  PROVE  Chunks(desc)[i] \in Seq(Nat) /\ Len(Chunks(desc)[i]) + 7 < LenMod
<1>1. PICK e : IsCut(e, desc, Chunks(desc))
  BY ChunksCut
<1>2. /\ i - 1 \in 0..Len(Chunks(desc)) /\ i \in 0..Len(Chunks(desc))
      /\ e \in [0..Len(Chunks(desc)) -> 0..Len(desc)]
      /\ e[i - 1] <= e[i] /\ e[i] - e[i - 1] <= ChunkWidth + 2
      /\ Chunks(desc)[i] = SubSeq(desc, e[i - 1] + 1, e[i])
  <2>1. Len(Chunks(desc)) \in Nat
    BY ChunksType
  <2> QED
    BY <1>1, <2>1 DEF IsCut
<1> DEFINE a == e[i - 1] + 1
           b == e[i]
<1>3. a \in Nat \ {0} /\ b \in Nat /\ b <= Len(desc) /\ a <= b + 1 /\ b - a + 1 <= ChunkWidth + 2
  <2> DEFINE c == e[i - 1]
             n == Len(Chunks(desc))
             l == Len(desc)
  <2>1. /\ i - 1 \in 0..n /\ i \in 0..n /\ e \in [0..n -> 0..l] /\ l \in Nat
        /\ c <= b /\ b - c <= ChunkWidth + 2 /\ ChunkWidth \in Nat /\ a = c + 1
    BY <1>2, DescriptorAssumption DEF DescriptorAssumption
  <2> HIDE DEF n, l, a
  <2>2. c \in 0..l /\ b \in 0..l
    BY <2>1
  <2> HIDE DEF b, c
  <2> QED
    BY <2>1, <2>2 DEF l
<1>4. Chunks(desc)[i] = SubSeq(desc, a, b)
  BY <1>2
<1> HIDE DEF a, b
<1>5. SubSeq(desc, a, b) \in Seq(Nat) /\ Len(SubSeq(desc, a, b)) = b - a + 1
  BY <1>3, SubSeqFacts
<1> DEFINE m == b - a + 1
<1>6. m \in Int /\ m <= ChunkWidth + 2
  BY <1>3
<1> HIDE DEF m
<1>7. m + 7 < LenMod
  BY <1>6, DescriptorAssumption DEF DescriptorAssumption
<1> QED
  BY <1>4, <1>5, <1>7 DEF m

(* The texts of the chunks, joined, are the text they were cut from.        *)
LEMMA ChunksJoin ==
  ASSUME NEW short \in Seq(Nat), short[1] = ShortTag, NEW desc \in Seq(Nat), NEW order,
         NEW ds, ds = EventDescriptors(short, desc, order)
  PROVE  /\ \A i \in DOMAIN ds : HoldsText(ds[i])
         /\ JoinedTexts(ds)[Len(ds)] = desc
<1> DEFINE chunks == Chunks(desc)
           n      == Len(chunks)
<1>1. /\ chunks \in Seq(Seq(Nat)) /\ n \in Nat
      /\ ds \in Seq(Seq(Nat)) /\ Len(ds) = n + 1 /\ ds[1] = short
      /\ \A i \in 1..n : ds[i + 1] = ExtendedEvent(i, chunks[i], order)
  <2>1. HasParts(ds, short, chunks, order)
    BY EventParts
  <2> HIDE DEF chunks
  <2> QED
    BY <2>1 DEF HasParts
<1>2. \A i \in 1..n : chunks[i] \in Seq(Nat) /\ Len(chunks[i]) + 7 < LenMod
  BY ChunkLengths
<1>3. PICK e : IsCut(e, desc, chunks)
  BY ChunksCut
<1> HIDE DEF chunks, n
<1>4. \A i \in 1..n : /\ ds[i + 1][1] = ExtendedTag /\ ExtendedText(ds[i + 1]) = chunks[i]
                      /\ HoldsText(ds[i + 1])
  <2> TAKE i \in 1..n
  <2>1. i \in Nat \ {0}
    BY <1>1
  <2>2. ds[i + 1] = ExtendedEvent(i, chunks[i], order)
    BY <1>1
  <2> QED
    BY <1>2, <2>1, <2>2, ChunkReadsBack, ExtendedHoldsText
<1>5. \A i \in DOMAIN ds : HoldsText(ds[i])
  <2> TAKE i \in DOMAIN ds
  <2>1. i = 1 \/ i - 1 \in 1..n
    <3>1. DOMAIN ds = 1..(n + 1) /\ n \in Nat
      BY <1>1
    <3>2. i \in 1..(n + 1)
      BY <3>1
    <3> QED
      BY <3>1, <3>2
  <2>2. CASE i = 1
    <3>1. ds[1][1] # ExtendedTag
      BY <1>1 DEF ShortTag, ExtendedTag
    <3> QED
      BY <2>2, <3>1 DEF HoldsText
  <2>3. CASE i - 1 \in 1..n
    <3>1. (i - 1) + 1 = i
      BY <1>1
    <3>2. HoldsText(ds[(i - 1) + 1])
      BY <1>4, <2>3
    <3> QED
      BY <3>1, <3>2
  <2> QED
    BY <2>1, <2>2, <2>3
<1> DEFINE J == JoinedTexts(ds)
<1>6. /\ J[0] = <<>>
      /\ \A i \in 1..Len(ds) : J[i] = IF ds[i][1] = ExtendedTag THEN J[i - 1] \o ExtendedText(ds[i])
                                      ELSE J[i - 1]
  BY <1>1, <1>5, JoinedSteps
<1> HIDE DEF J
<1>7. J[1] = <<>>
  <2>1. 1 \in 1..Len(ds) /\ ds[1][1] # ExtendedTag /\ 1 - 1 = 0
    BY <1>1 DEF ShortTag, ExtendedTag
  <2> QED
    BY <1>6, <2>1
<1>8. \A i \in 1..n : J[i + 1] = J[i] \o chunks[i]
  <2> TAKE i \in 1..n
  <2>1. i + 1 \in 1..Len(ds) /\ (i + 1) - 1 = i
    BY <1>1
  <2> QED
    BY <1>4, <1>6, <2>1
<1>9. /\ e \in [0..n -> 0..Len(desc)] /\ e[0] = 0 /\ e[n] = Len(desc)
      /\ \A i \in 1..n : /\ e[i - 1] <= e[i]
                         /\ chunks[i] = SubSeq(desc, e[i - 1] + 1, e[i])
  BY <1>3 DEF IsCut, n
<1> DEFINE T == {i \in 0..n : J[i + 1] # SubSeq(desc, 1, e[i])}
<1>10. ASSUME T # {} PROVE FALSE
  <2>1. T \in SUBSET Nat
    OBVIOUS
  <2>2. Min(T) \in T /\ \A y \in T : Min(T) <= y
    <3> HIDE DEF T
    <3> QED
      BY <1>10, <2>1, MinNat
  <2>3. PICK m \in T : \A y \in T : m <= y
    BY <2>2
  <2>4. m \in 0..n /\ J[m + 1] # SubSeq(desc, 1, e[m])
    OBVIOUS
  <2>5. m # 0
    <3>1. SubSeq(desc, 1, 0) = <<>>
      <4>1. SubSeq(desc, 1, 0) \in Seq(Nat) /\ Len(SubSeq(desc, 1, 0)) = 0 - 1 + 1
        BY SubSeqFacts
      <4> HIDE DEF T
      <4>2. Len(SubSeq(desc, 1, 0)) = 0
        BY <4>1
      <4> QED
        BY <4>1, <4>2, EmptySeq
    <3>2. J[0 + 1] = SubSeq(desc, 1, e[0])
      <4>1. e[0] = 0 /\ 0 + 1 = 1
        BY <1>9
      <4> QED
        BY <1>7, <3>1, <4>1
    <3> HIDE DEF T
    <3> QED
      BY <2>4, <3>2
  <2>6. m \in 1..n /\ m - 1 \in 0..n /\ ~(m <= m - 1) /\ (m - 1) + 1 = m
    BY <1>1, <2>4, <2>5
  <2>7. J[m] = SubSeq(desc, 1, e[m - 1])
    <3>1. m - 1 \notin T
      BY <2>3, <2>6
    <3> QED
      BY <2>6, <3>1
  <2>8. J[m + 1] = SubSeq(desc, 1, e[m - 1]) \o SubSeq(desc, e[m - 1] + 1, e[m])
    BY <1>8, <1>9, <2>6, <2>7
  <2>9. SubSeq(desc, 1, e[m - 1]) \o SubSeq(desc, e[m - 1] + 1, e[m]) = SubSeq(desc, 1, e[m])
    <3> DEFINE a == e[m - 1]
               b == e[m]
    <3>1. a \in Nat /\ b \in Nat /\ a <= b /\ b <= Len(desc)
      <4> HIDE DEF T
      <4>1. m \in 0..n /\ m - 1 \in 0..n
        BY <2>4, <2>6
      <4>2. a \in 0..Len(desc) /\ b \in 0..Len(desc) /\ Len(desc) \in Nat
        <5> DEFINE l == Len(desc)
        <5>1. e \in [0..n -> 0..l] /\ l \in Nat
          BY <1>9
        <5> HIDE DEF l
        <5>2. a \in 0..l /\ b \in 0..l
          BY <4>1, <5>1
        <5> QED
          BY <5>1, <5>2 DEF l
      <4>3. a <= b
        BY <1>9, <2>6
      <4> HIDE DEF a, b
      <4> QED
        BY <4>2, <4>3
    <3> HIDE DEF a, b, T
    <3>2. SubSeq(desc, 1, a) \o SubSeq(desc, a + 1, b) = SubSeq(desc, 1, b)
      BY <3>1, SubSeqJoins
    <3> QED
      BY <3>2 DEF a, b
  <2> QED
    BY <2>4, <2>8, <2>9
<1>11. J[n + 1] = desc
  <2>1. n \in 0..n
    BY <1>1
  <2>2. J[n + 1] = SubSeq(desc, 1, Len(desc))
    BY <1>9, <1>10, <2>1
  <2>3. SubSeq(desc, 1, Len(desc)) = desc
    BY SubSeqFull
  <2> QED
    BY <2>2, <2>3
<1> QED
  BY <1>1, <1>5, <1>11 DEF J

(* What is written reads back: the descriptors made of a title, a text and  *)
(* a description of any length, in any byte order, give them back, as long  *)
(* as title and text fit the length byte of their descriptor (dvb.cpp       *)
(* 335-431, read by dvb.cpp 258-333).                                       *)
THEOREM WrittenReadsBack ==
  ASSUME NEW title \in Seq(Nat), NEW text \in Seq(Nat), NEW desc \in Seq(Nat), NEW order,
         Fits(V7Short(title, text))
  PROVE  Content(EventDescriptors(V7Short(title, text), desc, order))
           = [title |-> title, text |-> text, desc |-> desc]
<1> DEFINE short  == V7Short(title, text)
           ds     == EventDescriptors(short, desc, order)
           chunks == Chunks(desc)
           n      == Len(chunks)
<1>1. /\ short \in Seq(Nat) /\ short[1] = ShortTag
      /\ ShortName(short) = title /\ ShortText(short) = text
  BY ShortReadsBack, V7ShortBytes DEF HasTexts
<1> HIDE DEF short
<1>2. /\ chunks \in Seq(Seq(Nat)) /\ n \in Nat
      /\ ds \in Seq(Seq(Nat)) /\ Len(ds) = n + 1 /\ ds[1] = short
      /\ \A i \in 1..n : ds[i + 1] = ExtendedEvent(i, chunks[i], order)
  <2>1. HasParts(ds, short, chunks, order)
    BY <1>1, EventParts
  <2> HIDE DEF chunks, ds
  <2> QED
    BY <2>1 DEF HasParts
<1>3. JoinedTexts(ds)[Len(ds)] = desc
  BY <1>1, ChunksJoin
<1> HIDE DEF ds, chunks, n
<1>4. \A i \in 1..n : ds[i + 1][1] = ExtendedTag
  <2>1. \A i \in 1..n : i \in Nat \ {0} /\ chunks[i] \in Seq(Nat)
    BY <1>2, SMTT(30) DEF n
  <2>2. \A i \in 1..n : ExtendedEvent(i, chunks[i], order)[1] = ExtendedTag
    BY <2>1, ExtendedEventBytes
  <2> QED
    BY <1>2, <2>2
<1>5. \A i \in DOMAIN ds : IF i = 1 THEN ds[i][1] = ShortTag ELSE ds[i][1] = ExtendedTag
  <2> TAKE i \in DOMAIN ds
  <2>1. DOMAIN ds = 1..(n + 1) /\ n \in Nat
    BY <1>2
  <2>2. i # 1 => i - 1 \in 1..n /\ (i - 1) + 1 = i
    <3>1. i \in 1..(n + 1)
      BY <2>1
    <3> QED
      BY <2>1, <3>1
  <2>3. i # 1 => ds[(i - 1) + 1][1] = ExtendedTag
    BY <1>4, <2>2
  <2> QED
    BY <1>1, <1>2, <2>2, <2>3
<1>6. KnownPrefix(ds) = ds
  <2>1. {i \in DOMAIN ds : ds[i][1] \notin {ShortTag, ExtendedTag}} = {}
    BY <1>5
  <2> QED
    BY <2>1 DEF KnownPrefix
<1>7. {i \in DOMAIN ds : ds[i][1] = ShortTag} = {1}
  <2>1. 1 \in DOMAIN ds
    BY <1>2
  <2> QED
    BY <1>5, <2>1 DEF ShortTag, ExtendedTag
<1>8. Max({1}) = 1
  BY DEF Max
<1>9. Content(ds) = [title |-> title, text |-> text, desc |-> desc]
  BY <1>1, <1>2, <1>3, <1>6, <1>7, <1>8 DEF Content
<1> QED
  BY <1>9 DEF ds, short
-----------------------------------------------------------------------------
(* A text whose length, with its encoding byte, one byte tells.             *)
Told(s) == s \in Seq(Nat) /\ Len(s) + 1 < LenMod

(* The title and the text of a well-formed short descriptor are such texts. *)
LEMMA ShortTold ==
  ASSUME NEW d \in Seq(Nat), HoldsTitle(d), d[1] = ShortTag
  PROVE  Told(ShortName(d)) /\ Told(ShortText(d))
<1> DEFINE l  == Len(d)
           a  == d[6]
           at == 7 + a
<1>1. l \in Nat /\ LenMod \in Nat /\ LenMod > 9
  BY DescriptorAssumption DEF DescriptorAssumption
<1>2. l >= 6 /\ a < LenMod /\ 6 + a <= l
  BY DEF HoldsTitle
<1>3. a \in Nat /\ d[2] \in Nat
  <2>1. 6 \in 1..l /\ 2 \in 1..l
    BY <1>1, <1>2
  <2>2. \A i \in 1..l : d[i] \in Nat
    OBVIOUS
  <2> QED
    BY <2>1, <2>2
<1>4. at - 3 < d[2] => at <= l /\ d[at] < LenMod /\ at + d[at] <= l
  BY DEF HoldsTitle
<1>5. SubSeq(d, 1, 0) = <<>> /\ Told(<<>>)
  BY <1>1 DEF Told
<1>6. ASSUME NEW p \in Nat, NEW b \in Nat, b < LenMod, p > 0, p + b <= l
      PROVE  Told(SubSeq(d, p + 2, p + b))
  <2> HIDE DEF l
  <2>1. CASE b >= 1
    <3> DEFINE s == SubSeq(d, p + 2, p + b)
    <3>1. /\ p + 2 \in Nat \ {0} /\ p + b \in Nat /\ p + b <= l /\ p + 2 <= (p + b) + 1
          /\ (p + b) - (p + 2) + 1 = b - 1
      BY <1>6, <2>1
    <3>2. s \in Seq(Nat) /\ Len(s) = (p + b) - (p + 2) + 1
      BY <3>1, SubSeqFacts DEF l
    <3> HIDE DEF s
    <3>3. s \in Seq(Nat) /\ Len(s) + 1 < LenMod
      BY <1>1, <1>6, <2>1, <3>1, <3>2
    <3> QED
      BY <3>3 DEF Told, s
  <2>2. CASE b = 0
    <3>1. ~(p + 2 <= p + b)
      BY <2>2
    <3>2. \A i \in (p + 2)..(p + b) : FALSE
      BY <3>1
    <3>3. /\ SubSeq(d, p + 2, p + b) \in Seq(Nat)
          /\ Len(SubSeq(d, p + 2, p + b)) = 0
      <4> DEFINE x == p + 2
                 y == p + b
      <4>1. x \in Int /\ y \in Int /\ ~(x <= y) /\ \A i \in x..y : d[i] \in Nat
        BY <3>1, <3>2
      <4> HIDE DEF x, y
      <4>2. /\ SubSeq(d, x, y) \in Seq(Nat)
            /\ Len(SubSeq(d, x, y)) = IF x <= y THEN y - x + 1 ELSE 0
        BY <4>1, SubSeqProperties
      <4> QED
        BY <4>1, <4>2 DEF x, y
    <3> QED
      BY <1>1, <3>3 DEF Told
  <2> QED
    BY <1>6, <2>1, <2>2
<1> HIDE DEF l, a
<1>7. Told(ShortName(d))
  <2>1. ShortName(d) = SubSeq(d, 6 + 2, 6 + a)
    BY DEF ShortName, a
  <2>2. 6 \in Nat /\ 6 > 0 /\ a \in Nat /\ a < LenMod /\ 6 + a <= l
    BY <1>2, <1>3
  <2>3. Told(SubSeq(d, 6 + 2, 6 + a))
    BY <1>6, <2>2, Zenon
  <2> QED
    BY <2>1, <2>3, Zenon
<1>8. Told(ShortText(d))
  <2>1. CASE at - 3 < d[2]
    <3> DEFINE b == d[at]
    <3>1. at \in Nat /\ at > 0 /\ at <= l /\ b < LenMod /\ at + b <= l
      BY <1>3, <1>4, <2>1
    <3>2. b \in Nat
      <4>1. at \in 1..l
        BY <1>1, <3>1
      <4> HIDE DEF at
      <4> QED
        BY <4>1 DEF l
    <3>3. ~(at - 3 >= d[2])
      BY <1>3, <2>1
    <3>4. ShortText(d) = SubSeq(d, at + 2, at + b)
      BY <3>3 DEF ShortText, a
    <3> HIDE DEF at, b
    <3> QED
      BY <1>6, <3>1, <3>2, <3>4
  <2>2. CASE ~(at - 3 < d[2])
    <3>1. at - 3 >= d[2]
      BY <1>3, <2>2
    <3>2. ShortText(d) = <<>>
      BY <3>1 DEF ShortText, a
    <3> QED
      BY <1>5, <3>2
  <2> QED
    BY <2>1, <2>2
<1> QED
  BY <1>7, <1>8

LEMMA ContentTold ==
  ASSUME NEW ds \in Seq(Seq(Nat)), \A i \in DOMAIN ds : HoldsTitle(ds[i])
  PROVE  Told(Content(ds).title) /\ Told(Content(ds).text)
<1> DEFINE known  == KnownPrefix(ds)
           shorts == {i \in DOMAIN known : known[i][1] = ShortTag}
           m      == Max(shorts)
<1>1. Told(<<>>)
  BY DescriptorAssumption DEF DescriptorAssumption, Told
<1>2. known \in Seq(Seq(Nat)) /\ \A i \in DOMAIN known : HoldsTitle(known[i])
  BY KnownPrefixType
<1>3. /\ Content(ds).title = IF shorts = {} THEN <<>> ELSE ShortName(known[m])
      /\ Content(ds).text = IF shorts = {} THEN <<>> ELSE ShortText(known[m])
  BY DEF Content
<1> HIDE DEF known
<1>4. CASE shorts # {}
  <2>1. Len(known) \in Nat /\ shorts \in SUBSET (1..Len(known))
    BY <1>2
  <2>2. m \in shorts
    <3> HIDE DEF shorts
    <3> QED
      BY <1>4, <2>1, MaxIndex
  <2>3. known[m] \in Seq(Nat) /\ HoldsTitle(known[m]) /\ known[m][1] = ShortTag
    BY <1>2, <2>2
  <2>4. Told(ShortName(known[m])) /\ Told(ShortText(known[m]))
    BY <2>3, ShortTold
  <2> QED
    BY <1>3, <1>4, <2>4
<1> QED
  BY <1>1, <1>3, <1>4

(* An XMLTV title that one byte tells makes such a descriptor, although the *)
(* descriptor need not fit its own length byte.                             *)
LEMMA XmlShortHolds ==
  ASSUME NEW name, Told(name)
  PROVE  HoldsTitle(XmlShort(name))
<1> DEFINE d    == XmlShort(name)
           zero == <<0>>
           l    == Len(name)
<1>1. l \in Nat /\ name \in Seq(Nat) /\ l + 1 < LenMod
  BY DEF Told
<1>2. zero \in Seq(Nat) /\ Len(zero) = 1 /\ zero[1] = 0
  OBVIOUS
<1>3. d = ShortEvent(name, zero)
  BY DEF XmlShort
<1> HIDE DEF zero, d
<1>4. /\ Len(d) = 7 + l + Len(zero) /\ d[2] = (l + Len(zero) + 5) % LenMod
      /\ d[6] = (l + 1) % LenMod
      /\ \A i \in 1..Len(zero) : d[7 + l + i] = zero[i]
  BY <1>1, <1>2, <1>3, ShortEventBytes DEF HasBytes
<1> HIDE DEF l
<1>5. d[6] = l + 1
  <2>1. l + 1 \in Nat
    BY <1>1
  <2> QED
    BY <1>1, <1>4, <2>1, RemainderSmall
<1>6. d[7 + l + 1] = 0
  BY <1>2, <1>4
<1>7. LenMod \in Nat /\ LenMod > 0
  BY DescriptorAssumption DEF DescriptorAssumption
<1>8. Len(d) = 8 + l /\ d[8 + l] = 0
  <2>1. 7 + l + 1 = 8 + l
    BY <1>1
  <2> QED
    BY <1>2, <1>4, <1>6, <2>1
<1>9. Len(d) >= 6 /\ d[6] < LenMod /\ 6 + d[6] <= Len(d)
  BY <1>1, <1>5, <1>8
<1>10. 7 + d[6] = 8 + l
  BY <1>1, <1>5
<1>11. 8 + l <= Len(d) /\ d[8 + l] < LenMod /\ (8 + l) + d[8 + l] <= Len(d)
  BY <1>1, <1>7, <1>8
<1>12. HoldsTitle(d)
  BY <1>9, <1>10, <1>11 DEF HoldsTitle
<1> QED
  BY <1>12 DEF d

LEMMA ExtendedHoldsTitle ==
  ASSUME NEW i \in Nat \ {0}, NEW chunk \in Seq(Nat), NEW order
  PROVE  HoldsTitle(ExtendedEvent(i, chunk, order))
<1>1. ExtendedEvent(i, chunk, order)[1] = ExtendedTag /\ ExtendedTag # ShortTag
  BY ExtendedEventBytes DEF ShortTag, ExtendedTag
<1> QED
  BY <1>1 DEF HoldsTitle
-----------------------------------------------------------------------------
(* The descriptors get_v7 makes, and why the table they are shared in gives *)
(* each of them back under its id.                                          *)
IsShort(d, name, text) == Told(name) /\ Told(text) /\ d = V7Short(name, text)

IsChunk(d, i, chunk, order) ==
  /\ i \in Nat \ {0} /\ chunk \in Seq(Nat) /\ Len(chunk) + 7 < LenMod
  /\ d = ExtendedEvent(i, chunk, order)

IsMade(d) ==
  (\E name, text : IsShort(d, name, text)) \/ (\E i, chunk, order : IsChunk(d, i, chunk, order))

LEMMA ChunkFits ==
  ASSUME NEW d, NEW i, NEW chunk, NEW order, IsChunk(d, i, chunk, order)
  PROVE  Fits(d) /\ d[1] = ExtendedTag /\ Announced(d)
<1>1. i \in Nat \ {0} /\ chunk \in Seq(Nat) /\ Len(chunk) + 7 < LenMod
  BY DEF IsChunk
<1>2. d = ExtendedEvent(i, chunk, order)
  BY DEF IsChunk
<1>3. Fits(ExtendedEvent(i, chunk, order)) /\ ExtendedEvent(i, chunk, order)[1] = ExtendedTag
  BY <1>1, ChunkReadsBack
<1>4. Announced(ExtendedEvent(i, chunk, order))
  BY <1>1, ExtendedEventAnnounced
<1> QED
  BY <1>2, <1>3, <1>4

ShortLaid(d, l, m) ==
  /\ l \in Nat /\ m \in Nat /\ Len(d) = 9 + l + m /\ d[1] = ShortTag
  /\ d[6] = l + 1 /\ d[8 + l] = m + 1

LEMMA ShortIsLaid ==
  ASSUME NEW d, NEW name, NEW text, IsShort(d, name, text)
  PROVE  ShortLaid(d, Len(name), Len(text)) /\ Announced(d)
<1> DEFINE l == Len(name)
           m == Len(text)
<1>1. /\ name \in Seq(Nat) /\ text \in Seq(Nat) /\ d = V7Short(name, text)
      /\ l \in Nat /\ m \in Nat /\ l + 1 < LenMod /\ m + 1 < LenMod
  BY DEF IsShort, Told
<1>2. HasTexts(d, name, text)
  BY <1>1, V7ShortBytes
<1>3. /\ Len(d) = 9 + l + m /\ d[1] = ShortTag
      /\ d[6] = (l + 1) % LenMod /\ d[8 + l] = (m + 1) % LenMod
  BY <1>2 DEF HasTexts
<1>4. (l + 1) % LenMod = l + 1 /\ (m + 1) % LenMod = m + 1
  <2>1. l + 1 \in Nat /\ m + 1 \in Nat
    BY <1>1
  <2> QED
    BY <1>1, <2>1, RemainderSmall
<1>5. ShortLaid(d, l, m)
  BY <1>1, <1>3, <1>4 DEF ShortLaid
<1>6. Announced(d)
  <2> DEFINE rest == <<(Len(text) + 1) % LenMod, UTF8>> \o text
  <2>1. rest \in Seq(Nat)
    <3>1. (Len(text) + 1) % LenMod \in Nat
      BY <1>1, RemainderBound
    <3>2. <<(Len(text) + 1) % LenMod, UTF8>> \in Seq(Nat)
      BY <3>1 DEF UTF8
    <3> QED
      BY <1>1, <3>2, ConcatAt
  <2>2. d = ShortEvent(name, rest)
    BY <1>1 DEF V7Short
  <2> HIDE DEF rest
  <2> QED
    BY <1>1, <2>1, <2>2, ShortEventAnnounced
<1> QED
  BY <1>5, <1>6

(* The bytes an id is made of.                                              *)
LEMMA CrcBytes ==
  ASSUME NEW d, Announced(d)
  PROVE  /\ Len(Crc(d)) = d[2] + 2 /\ d[2] \in Nat /\ Len(d) \in Nat /\ d[2] + 2 <= Len(d)
         /\ \A i \in 1..(d[2] + 2) : Crc(d)[i] = d[i]
         /\ Fits(d) => Crc(d) = d
<1>1. d \in Seq(Nat) /\ d[2] \in Nat /\ d[2] + 2 <= Len(d)
  BY DEF Announced
<1>2. Len(d) \in Nat
  BY <1>1
<1> DEFINE n == d[2] + 2
<1>3. n \in Nat /\ 1 <= n + 1 /\ n <= Len(d) /\ n - 1 + 1 = n
  <2>1. n \in Nat /\ n <= Len(d)
    BY <1>1
  <2> HIDE DEF n
  <2> QED
    BY <2>1
<1> HIDE DEF n
<1>4. /\ Len(SubSeq(d, 1, n)) = n - 1 + 1
      /\ \A i \in 1..(n - 1 + 1) : SubSeq(d, 1, n)[i] = d[1 + i - 1]
  BY <1>1, <1>3, SubSeqFacts
<1>5. Crc(d) = SubSeq(d, 1, n)
  BY DEF Crc, n
<1>6. \A i \in 1..n : 1 + i - 1 = i
  BY <1>3
<1>7. Len(Crc(d)) = n /\ \A i \in 1..n : Crc(d)[i] = d[i]
  BY <1>3, <1>4, <1>5, <1>6
<1>8. Fits(d) => Crc(d) = d
  BY <1>1, SubSeqFull DEF Fits, Crc
<1> QED
  BY <1>1, <1>2, <1>7, <1>8 DEF n

LEMMA MadeSame ==
  ASSUME NEW a, NEW b, IsMade(a), IsMade(b), Crc(a) = Crc(b), Fits(a)
  PROVE  a = b
<1>1. Announced(a) /\ Announced(b)
  BY ChunkFits, ShortIsLaid DEF IsMade
<1>2. /\ a \in Seq(Nat) /\ a[2] \in Nat /\ Len(a) = a[2] + 2 /\ Crc(a) = a /\ Len(a) \in Nat
      /\ b[2] \in Nat /\ Len(b) \in Nat
  BY <1>1, CrcBytes DEF Announced, Fits
<1>3. Len(a) = b[2] + 2 /\ \A i \in 1..(b[2] + 2) : a[i] = b[i]
  <2>1. Crc(b) = a
    BY <1>2
  <2> QED
    BY <1>1, <2>1, CrcBytes
<1>4. \A i \in 1..Len(a) : a[i] = b[i]
  BY <1>3
<1>5. a[2] = b[2] /\ a[1] = b[1]
  <2>1. 1 \in 1..Len(a) /\ 2 \in 1..Len(a)
    <3> DEFINE x == a[2]
               l == Len(a)
    <3>1. x \in Nat /\ l = x + 2
      BY <1>2
    <3> HIDE DEF x, l
    <3>2. 1 \in 1..l /\ 2 \in 1..l
      BY <3>1
    <3> QED
      BY <3>2 DEF l
  <2> QED
    BY <1>4, <2>1
<1>6. Fits(b) => a = b
  BY <1>1, <1>2, CrcBytes
<1>7. CASE \E i, chunk, order : IsChunk(b, i, chunk, order)
  BY <1>6, <1>7, ChunkFits
<1>8. CASE \E name, text : IsShort(b, name, text)
  <2>1. PICK l, m : ShortLaid(b, l, m)
    BY <1>8, ShortIsLaid
  <2>2. b[1] = ShortTag
    BY <2>1 DEF ShortLaid
  <2>3. ~\E i, chunk, order : IsChunk(a, i, chunk, order)
    BY <1>5, <2>2, ChunkFits DEF ShortTag, ExtendedTag
  <2>4. \E name, text : IsShort(a, name, text)
    BY <2>3 DEF IsMade
  <2>5. PICK x, y : ShortLaid(a, x, y)
    BY <2>4, ShortIsLaid
  <2>6. /\ x \in Nat /\ y \in Nat /\ Len(a) = 9 + x + y /\ a[6] = x + 1 /\ a[8 + x] = y + 1
        /\ l \in Nat /\ m \in Nat /\ Len(b) = 9 + l + m /\ b[6] = l + 1 /\ b[8 + l] = m + 1
    BY <2>1, <2>5 DEF ShortLaid
  <2>7. 6 \in 1..Len(a) /\ 8 + x \in 1..Len(a)
    BY <2>6
  <2>8. x + 1 = l + 1
    BY <1>4, <2>6, <2>7
  <2>9. x = l
    BY <2>6, <2>8
  <2>10. y + 1 = m + 1
    BY <1>4, <2>6, <2>7, <2>9
  <2>11. Len(b) = Len(a)
    BY <2>6, <2>9, <2>10
  <2>12. Fits(b)
    BY <1>3, <2>11 DEF Fits
  <2> QED
    BY <1>6, <2>12
<1> QED
  BY <1>7, <1>8 DEF IsMade

(* A table of such descriptors, each under its id, stays one.               *)
IsMadeTable(table) ==
  \A id \in DOMAIN table : IsMade(table[id].bytes) /\ Crc(table[id].bytes) = id

LEMMA InternMade ==
  ASSUME NEW table, IsMadeTable(table), NEW ds \in Seq(Seq(Nat)),
         \A i \in DOMAIN ds : IsMade(ds[i])
  PROVE  IsMadeTable(Intern(table, ds))
<1> DEFINE t == Intern(table, ds)
<1>1. DOMAIN t = DOMAIN table \cup {Crc(ds[i]) : i \in DOMAIN ds}
  BY DEF Intern
<1>2. \A id \in DOMAIN table : t[id].bytes = table[id].bytes
  BY DEF Intern
<1>3. \A id \in DOMAIN t \ DOMAIN table : t[id].bytes = ds[Min(Uses(ds, id))]
  BY DEF Intern
<1> HIDE DEF t
<1>4. \A id \in DOMAIN t \ DOMAIN table :
        Min(Uses(ds, id)) \in DOMAIN ds /\ Crc(ds[Min(Uses(ds, id))]) = id
  <2> TAKE id \in DOMAIN t \ DOMAIN table
  <2>1. Uses(ds, id) \in SUBSET Nat /\ Uses(ds, id) # {}
    BY <1>1 DEF Uses
  <2>2. Min(Uses(ds, id)) \in Uses(ds, id)
    BY <2>1, MinNat
  <2> QED
    BY <2>2 DEF Uses
<1> QED
  BY <1>1, <1>2, <1>3, <1>4 DEF IsMadeTable, t

(* All the descriptors of an event are such, and all but the first fit.     *)
IsMadeOf(ds, short) ==
  /\ ds \in Seq(Seq(Nat)) /\ 1 \in DOMAIN ds /\ ds[1] = short
  /\ \A i \in DOMAIN ds : IsMade(ds[i]) /\ (i # 1 => Fits(ds[i]))

LEMMA EncodedMade ==
  ASSUME NEW title, Told(title), NEW text, Told(text), NEW desc \in Seq(Nat), NEW order,
         NEW ds, ds = EventDescriptors(V7Short(title, text), desc, order)
  PROVE  IsMadeOf(ds, V7Short(title, text))
<1> DEFINE short  == V7Short(title, text)
           chunks == Chunks(desc)
           n      == Len(chunks)
<1>1. short \in Seq(Nat) /\ IsMade(short)
  <2>1. IsShort(short, title, text)
    BY DEF IsShort
  <2> QED
    BY <2>1, ShortIsLaid DEF Announced, IsMade
<1>2. /\ chunks \in Seq(Seq(Nat)) /\ n \in Nat
      /\ ds \in Seq(Seq(Nat)) /\ Len(ds) = n + 1 /\ ds[1] = short
      /\ \A i \in 1..n : ds[i + 1] = ExtendedEvent(i, chunks[i], order)
  <2> HIDE DEF short
  <2>1. HasParts(ds, short, chunks, order)
    BY <1>1, EventParts DEF short
  <2> HIDE DEF chunks
  <2> QED
    BY <2>1 DEF HasParts
<1>3. \A i \in 1..n : chunks[i] \in Seq(Nat) /\ Len(chunks[i]) + 7 < LenMod
  BY ChunkLengths
<1> HIDE DEF chunks, n, short
<1>4. ASSUME NEW i \in DOMAIN ds, i # 1 PROVE IsMade(ds[i]) /\ Fits(ds[i])
  <2>1. DOMAIN ds = 1..(n + 1) /\ n \in Nat
    BY <1>2
  <2> DEFINE j == i - 1
  <2>2. j \in 1..n /\ j + 1 = i /\ j \in Nat \ {0}
    <3>1. i \in 1..(n + 1)
      BY <2>1
    <3>2. n \in Nat
      BY <2>1
    <3> QED
      BY <1>4, <3>1, <3>2
  <2>3. ds[i] = ExtendedEvent(j, chunks[j], order)
    BY <1>2, <2>2
  <2> HIDE DEF j
  <2>4. IsChunk(ds[i], j, chunks[j], order)
    BY <1>3, <2>2, <2>3 DEF IsChunk
  <2> QED
    BY <2>4, ChunkFits DEF IsMade
<1>5. 1 \in DOMAIN ds
  <2>1. DOMAIN ds = 1..(n + 1) /\ n \in Nat
    BY <1>2
  <2> QED
    BY <2>1
<1> QED
  BY <1>1, <1>2, <1>4, <1>5 DEF short, IsMadeOf

(* What a table that knows them gives for the ids of an event's descriptors *)
(* fits if they do, and then it is them.                                    *)
FromTable(table, ds) == [i \in DOMAIN ds |-> table[Crc(ds[i])].bytes]

LEMMA TableReadsBack ==
  ASSUME NEW table, IsMadeTable(table), NEW ds, NEW short, IsMadeOf(ds, short),
         \A i \in DOMAIN ds : Crc(ds[i]) \in DOMAIN table
  PROVE  /\ Fits(FromTable(table, ds)[1]) <=> Fits(short)
         /\ Fits(short) => FromTable(table, ds) = ds
<1> DEFINE bs == FromTable(table, ds)
<1>1. /\ ds \in Seq(Seq(Nat)) /\ 1 \in DOMAIN ds /\ ds[1] = short
      /\ \A i \in DOMAIN ds : IsMade(ds[i]) /\ (i # 1 => Fits(ds[i]))
  BY DEF IsMadeOf
<1>2. \A i \in DOMAIN ds : IsMade(bs[i]) /\ Crc(bs[i]) = Crc(ds[i])
  BY DEF IsMadeTable, FromTable
<1>3. \A i \in DOMAIN ds : Fits(ds[i]) \/ Fits(bs[i]) => bs[i] = ds[i]
  BY <1>1, <1>2, MadeSame
<1>4. bs = [i \in DOMAIN ds |-> bs[i]]
  BY DEF FromTable
<1> HIDE DEF bs
<1>5. Fits(bs[1]) <=> Fits(short)
  BY <1>1, <1>3
<1>6. ASSUME Fits(short) PROVE bs = ds
  <2>1. \A i \in DOMAIN ds : bs[i] = ds[i]
    BY <1>1, <1>3, <1>6
  <2>2. ds = [i \in DOMAIN ds |-> ds[i]]
    BY <1>1
  <2> QED
    BY <1>4, <2>1, <2>2
<1> QED
  BY <1>5, <1>6 DEF bs

-----------------------------------------------------------------------------
(* std::map::operator[] sets one key and leaves the others.                 *)
LEMMA PutDomain ==
  \A f, x, v : DOMAIN Put(f, x, v) = DOMAIN f \cup {x} /\ IsFun(Put(f, x, v))
BY DEF Put, IsFun

LEMMA PutValue == \A f, x, v : Put(f, x, v)[x] = v
BY DEF Put

LEMMA PutOther ==
  \A f, x, v : \A y \in DOMAIN f : y # x => Put(f, x, v)[y] = f[y]
BY DEF Put

LEMMA PutIsMap ==
  ASSUME NEW f, NEW D, NEW R, IsMap(f, D, R), NEW x \in D, NEW v \in R
  PROVE  IsMap(Put(f, x, v), D, R)
<1> DEFINE g == Put(f, x, v)
<1>1. IsFun(g) /\ DOMAIN g = DOMAIN f \cup {x}
  BY PutDomain
<1>2. g[x] = v
  BY PutValue
<1>3. \A y \in DOMAIN f : y # x => g[y] = f[y]
  BY PutOther
<1> HIDE DEF g
<1>4. IsMap(g, D, R)
  BY <1>1, <1>2, <1>3 DEF IsMap
<1> QED
  BY <1>4 DEF g

LEMMA EmptyIsMap ==
  ASSUME NEW D, NEW R
  PROVE  IsMap(Empty, D, R)
BY DEF IsMap, IsFun, Empty

LEMMA MapWidens ==
  ASSUME NEW f, NEW D, NEW R, NEW S, R \subseteq S, IsMap(f, D, R)
  PROVE  IsMap(f, D, S)
BY DEF IsMap

(* The pointers of a service stay good while events are only added.         *)
LEMMA MapsGrow ==
  ASSUME NEW m, NEW a, NEW b, DOMAIN a \subseteq DOMAIN b, IsMaps(m, a)
  PROVE  IsMaps(m, b)
BY MapWidens DEF IsMaps

LEMMA EnterType ==
  ASSUME NEW m, NEW events, IsMaps(m, events), NEW id \in 0..(IdMod - 1),
         NEW start \in Nat, NEW n \in DOMAIN events
  PROVE  IsMaps(Enter(m, id, start, n), events)
BY PutIsMap DEF IsMaps, Enter

LEMMA NoEventsType ==
  ASSUME NEW events
  PROVE  IsMaps(NoEvents, events)
BY EmptyIsMap DEF IsMaps, NoEvents

(* A service and its main service are both there before an event is entered *)
(* and hold what services already hold, or nothing.                         *)
LEMMA WithServiceFacts ==
  ASSUME IsFun(eventDB), NEW k
  PROVE  /\ DOMAIN WithService(k) = DOMAIN eventDB \cup {k, Redirected(k)}
         /\ IsFun(WithService(k))
         /\ \A j \in DOMAIN WithService(k) :
              \/ WithService(k)[j] = NoEvents
              \/ \E i \in DOMAIN eventDB : WithService(k)[j] = eventDB[i]
<1> DEFINE main    == Redirected(k)
           opened  == Put(eventDB, main, NoEvents)
           db      == IF main \in DOMAIN eventDB THEN eventDB ELSE opened
           copied  == Put(db, k, db[main])
           Held(m) == m = NoEvents \/ \E i \in DOMAIN eventDB : m = eventDB[i]
<1>1. IsFun(opened) /\ DOMAIN opened = DOMAIN eventDB \cup {main}
  BY PutDomain
<1>2. opened[main] = NoEvents
  BY PutValue
<1>3. \A y \in DOMAIN eventDB : y # main => opened[y] = eventDB[y]
  BY PutOther
<1>4. /\ DOMAIN db = DOMAIN eventDB \cup {main} /\ IsFun(db)
      /\ \A j \in DOMAIN db : Held(db[j])
  <2> HIDE DEF opened, main
  <2>1. CASE main \in DOMAIN eventDB
    BY <2>1
  <2>2. CASE main \notin DOMAIN eventDB
    BY <2>2, <1>1, <1>2, <1>3
  <2> QED
    BY <2>1, <2>2
<1> HIDE DEF opened, db, Held
<1>5. IsFun(copied) /\ DOMAIN copied = DOMAIN db \cup {k}
  BY PutDomain
<1>6. copied[k] = db[main]
  BY PutValue
<1>7. \A y \in DOMAIN db : y # k => copied[y] = db[y]
  BY PutOther
<1>8. \A j \in DOMAIN copied : Held(copied[j])
  <2> HIDE DEF copied, main
  <2> QED
    BY <1>4, <1>5, <1>6, <1>7
<1>9. WithService(k) = IF k \in DOMAIN tvmap THEN copied ELSE db
  BY DEF WithService, db, opened
<1>10. k \notin DOMAIN tvmap => main = k
  BY DEF Redirected
<1> HIDE DEF copied, main
<1>11. /\ DOMAIN WithService(k) = DOMAIN eventDB \cup {k, main}
       /\ IsFun(WithService(k))
       /\ \A j \in DOMAIN WithService(k) : Held(WithService(k)[j])
  BY <1>4, <1>5, <1>8, <1>9, <1>10
<1> QED
  BY <1>11 DEF Held, main
-----------------------------------------------------------------------------
LEMMA InitType == Init => TypeOK
<1> SUFFICES ASSUME Init PROVE TypeOK
  OBVIOUS
<1>1. maxEventID \in 0..(IdMod - 1)
  BY StoreAssumption DEF Init, StoreAssumption
<1>2. heap \in Seq(EventData)
  BY DEF Init
<1>3. IsFun(eventDB) /\ DOMAIN eventDB = {}
  BY DEF Init, IsFun, Empty
<1>4. IsMap(xmltvmap, Channels, Names)
  BY EmptyIsMap DEF Init
<1> QED
  BY <1>1, <1>2, <1>3, <1>4 DEF Init, TypeOK

(* An event that is added leaves those there are, and gets the next number. *)
LEMMA HeapGrows ==
  ASSUME TypeOK, NEW e \in EventData, heap' = Append(heap, e)
  PROVE  /\ heap' \in Seq(EventData)
         /\ Len(heap) + 1 \in DOMAIN heap' /\ heap'[Len(heap) + 1] = e
         /\ Len(heap) + 1 \in Nat /\ Len(heap') = Len(heap) + 1
         /\ DOMAIN heap \subseteq DOMAIN heap'
         /\ \A n \in DOMAIN heap : heap'[n] = heap[n] /\ n \in Nat /\ n < Len(heap) + 1
<1>1. heap \in Seq(EventData)
  BY DEF TypeOK
<1> HIDE DEF TypeOK
<1> QED
  BY <1>1, AppendProperties, LenProperties

(* The description is made to begin with the channel's name.                *)
LEMMA NameType ==
  ASSUME TypeOK, NEW ch, NEW desc \in Seq(Nat)
  PROVE  WithName(ChannelName(ch), desc) \in Seq(Nat)
<1>1. ChannelName(ch) \in Seq(Nat)
  <2>1. CASE ch \in DOMAIN xmltvmap
    <3>1. xmltvmap[ch] \in Names
      BY <2>1 DEF TypeOK, IsMap
    <3> QED
      BY <2>1, <3>1, StoreAssumption DEF ChannelName, StoreAssumption
  <2>2. CASE ch \notin DOMAIN xmltvmap
    BY <2>2 DEF ChannelName, NoName
  <2> QED
    BY <2>1, <2>2
<1>2. <<Colon>> \in Seq(Nat)
  BY DEF Colon
<1>3. ChannelName(ch) \o <<Colon>> \in Seq(Nat)
  BY <1>1, <1>2, ConcatProperties
<1>4. ChannelName(ch) \o <<Colon>> \o desc \in Seq(Nat)
  BY <1>3, ConcatProperties
<1> QED
  BY <1>4 DEF WithName

LEMMA DescriptionsType ==
  ASSUME TypeOK, NEW ch, NEW desc \in Descriptions(ch)
  PROVE  desc \in Seq(Nat)
<1>1. CASE desc = <<>>
  BY <1>1
<1>2. ASSUME NEW d \in Descs, desc = WithName(ChannelName(ch), d) PROVE desc \in Seq(Nat)
  <2>1. d \in Seq(Nat)
    BY StoreAssumption DEF StoreAssumption
  <2> QED
    BY <1>2, <2>1, NameType
<1> QED
  BY <1>1, <1>2 DEF Descriptions

(* An event id is what fits in 16 bits, and the next one where there is     *)
(* none and one is left.                                                    *)
LEMMA NewIdFacts ==
  ASSUME TypeOK, NEW id \in Nat \cup {NoId}
  PROVE  /\ NewId(id) \in 0..(IdMod - 1)
         /\ id = NoId /\ maxEventID + 1 < IdMod => NewId(id) = maxEventID + 1
<1>1. IdMod \in Nat \ {0} /\ maxEventID \in Nat
  BY StoreAssumption DEF StoreAssumption, TypeOK
<1>2. \A n \in Nat : n % IdMod \in 0..(IdMod - 1) /\ (n < IdMod => n % IdMod = n)
  BY <1>1, Z3
<1>3. (IF id = NoId THEN maxEventID + 1 ELSE id) \in Nat
  BY <1>1
<1> QED
  BY <1>1, <1>2, <1>3 DEF NewId

(* Taking the entities from a text leaves a text, of the same characters    *)
(* and no longer.                                                           *)
IsUnescaped(f, s, entity, char) ==
  f = [n \in 0..Len(s) |->
         IF n = 0 THEN <<>>
         ELSE IF \E k \in Begins(s, entity) : k < n /\ n < k + Len(entity) THEN f[n - 1]
         ELSE Append(f[n - 1], IF n \in Begins(s, entity) THEN char ELSE s[n])]

LEMMA ReplacedFacts ==
  ASSUME NEW S, NEW s \in Seq(S), NEW entity, NEW char \in S
  PROVE  Replaced(s, entity, char) \in Seq(S) /\ Len(Replaced(s, entity, char)) <= Len(s)
<1> DEFINE U == Unescaped(s, entity, char)
           n == Len(s)
           Gone(i) == \E k \in Begins(s, entity) : k < i /\ i < k + Len(entity)
           With(i) == IF i \in Begins(s, entity) THEN char ELSE s[i]
           T == Seq(S)
           g == [p \in (1..n) \X T |-> IF Gone(p[1]) THEN p[2] ELSE Append(p[2], With(p[1]))]
<1>1. n \in Nat /\ <<>> \in T /\ \A i \in 1..n : s[i] \in S
  OBVIOUS
<1>2. \A i \in 1..n : With(i) \in S
  BY <1>1
<1>3. g \in [(1..n) \X T -> T]
  <2>1. \A i \in 1..n, t \in T : (IF Gone(i) THEN t ELSE Append(t, With(i))) \in T
    <3> HIDE DEF Gone, With
    <3> QED
      BY <1>2
  <2> HIDE DEF Gone, With, T
  <2> QED
    BY <2>1
<1>4. \E f : IsUnescaped(f, s, entity, char)
  <2>1. PICK f : Repeats(f, T, <<>>, n, g)
    <3> HIDE DEF g, n, T
    <3> QED
      BY <1>1, <1>3, RepetitionExists
  <2>2. /\ f \in [0..n -> T]
        /\ f = [i \in 0..n |-> IF i = 0 THEN <<>> ELSE g[<<i, f[i - 1]>>]]
    BY <2>1 DEF Repeats
  <2>3. \A i \in 0..n : i # 0 => i \in 1..n /\ f[i - 1] \in T
    <3> HIDE DEF g, n, T
    <3> QED
      BY <1>1, <2>2
  <2>4. \A i \in 0..n : i # 0 =>
          g[<<i, f[i - 1]>>] = IF Gone(i) THEN f[i - 1] ELSE Append(f[i - 1], With(i))
    <3> HIDE DEF Gone, With, T
    <3> QED
      BY <2>3
  <2>5. f = [i \in 0..n |-> IF i = 0 THEN <<>>
                            ELSE IF Gone(i) THEN f[i - 1]
                            ELSE Append(f[i - 1], With(i))]
    <3> HIDE DEF g, n, Gone, With
    <3> QED
      BY <2>2, <2>4
  <2> QED
    BY <2>5 DEF IsUnescaped
<1>5. U = CHOOSE f : IsUnescaped(f, s, entity, char)
  BY DEF Unescaped, IsUnescaped
<1>6. IsUnescaped(U, s, entity, char)
  <2> HIDE DEF U
  <2> QED
    BY <1>4, <1>5
<1> HIDE DEF U, n
<1>7. \A i \in 0..n :
        U[i] = IF i = 0 THEN <<>> ELSE IF Gone(i) THEN U[i - 1] ELSE Append(U[i - 1], With(i))
  BY <1>6 DEF IsUnescaped, n
<1>8. \A i \in 0..n : U[i] \in T /\ Len(U[i]) <= i
  <2> DEFINE bad == {i \in 0..n : ~(U[i] \in T /\ Len(U[i]) <= i)}
  <2>1. ASSUME bad # {} PROVE FALSE
    <3>1. bad \in SUBSET Nat
      OBVIOUS
    <3>2. Min(bad) \in bad /\ \A y \in bad : Min(bad) <= y
      <4> HIDE DEF bad
      <4> QED
        BY <2>1, <3>1, MinNat
    <3>3. PICK m \in bad : \A y \in bad : m <= y
      BY <3>2
    <3>4. m \in 0..n /\ ~(U[m] \in T /\ Len(U[m]) <= m)
      OBVIOUS
    <3>5. m # 0
      <4>1. 0 \in 0..n /\ Len(<<>>) = 0
        BY <1>1
      <4>2. U[0] = <<>>
        BY <1>7, <4>1, Zenon
      <4>3. ASSUME m = 0 PROVE FALSE
        <5>1. U[m] = <<>>
          BY <4>2, <4>3, Zenon
        <5>2. ~(<<>> \in T /\ 0 <= m)
          BY <3>4, <4>1, <5>1, Zenon
        <5> HIDE DEF T
        <5> QED
          BY <1>1, <4>3, <5>2
      <4> QED
        BY <4>3, Zenon
    <3>6. m \in 1..n /\ m - 1 \in 0..n /\ ~(m <= m - 1)
      BY <1>1, <3>4, <3>5
    <3>7. U[m - 1] \in T /\ Len(U[m - 1]) <= m - 1
      BY <3>3, <3>6
    <3>8. U[m] = U[m - 1] \/ U[m] = Append(U[m - 1], With(m))
      BY <1>7, <3>5, <3>6
    <3>9. With(m) \in S
      BY <1>2, <3>6
    <3> HIDE DEF Gone, With, bad
    <3>10. U[m] \in T /\ Len(U[m]) <= m
      <4>1. m \in Nat /\ Len(U[m - 1]) \in Nat
        BY <1>1, <3>6, <3>7
      <4>2. CASE U[m] = U[m - 1]
        BY <3>7, <4>1, <4>2
      <4>3. CASE U[m] = Append(U[m - 1], With(m))
        BY <3>7, <3>9, <4>1, <4>3
      <4> QED
        BY <3>8, <4>2, <4>3
    <3> QED
      BY <3>4, <3>10
  <2> QED
    BY <2>1
<1>9. U[n] \in T /\ Len(U[n]) <= n
  BY <1>1, <1>8
<1> QED
  BY <1>9 DEF U, n, Replaced

LEMMA DecodedFacts ==
  ASSUME NEW S, {32, 38, 60, 62} \subseteq S, NEW s \in Seq(S)
  PROVE  /\ DecodedInPlace(s) \in Seq(S) /\ Len(DecodedInPlace(s)) <= Len(s)
         /\ XmlDecode(s) \in Seq(S) /\ Len(XmlDecode(s)) <= Len(s)
<1> DEFINE a == DecodedInPlace(s)
           b == Replaced(a, Lt, 60)
           c == Replaced(b, Gt, 62)
           d == Replaced(c, Nbsp, 32)
<1>1. a \in Seq(S) /\ Len(a) <= Len(s)
  BY ReplacedFacts DEF DecodedInPlace
<1> HIDE DEF a
<1>2. b \in Seq(S) /\ Len(b) <= Len(a)
  BY <1>1, ReplacedFacts
<1> HIDE DEF b
<1>3. c \in Seq(S) /\ Len(c) <= Len(b)
  BY <1>2, ReplacedFacts
<1> HIDE DEF c
<1>4. d \in Seq(S) /\ Len(d) <= Len(c)
  BY <1>3, ReplacedFacts
<1>5. XmlDecode(s) = d
  BY DEF XmlDecode, a, b, c
<1> HIDE DEF d
<1>6. /\ Len(s) \in Nat /\ Len(a) \in Nat /\ Len(b) \in Nat /\ Len(c) \in Nat
      /\ Len(d) \in Nat
  BY <1>1, <1>2, <1>3, <1>4
<1>7. Len(d) <= Len(s)
  BY <1>1, <1>2, <1>3, <1>4, <1>6
<1> QED
  BY <1>1, <1>4, <1>5, <1>7 DEF a

LEMMA DecodedType ==
  ASSUME NEW s \in Seq(Nat)
  PROVE  DecodedInPlace(s) \in Seq(Nat) /\ XmlDecode(s) \in Seq(Nat)
<1>1. {32, 38, 60, 62} \subseteq Nat
  OBVIOUS
<1> QED
  BY <1>1, DecodedFacts

(* What an XMLTV programme becomes.                                         *)
LEMMA StructType ==
  ASSUME TypeOK, programme # None,
         NEW ds, ds = EventDescriptors(XmlShort(XmlDecode(programme.title)),
                                       XmlDecode(programme.desc), "B"),
         NEW id \in 0..(IdMod - 1)
  PROVE  [order |-> "B", id |-> id, start |-> programme.start, inline |-> FALSE,
          data |-> Crcs(ds), status |-> 0,
          behind |-> <<>>] \in EventData
<1>1. /\ XmlDecode(programme.title) \in Seq(Nat) /\ XmlDecode(programme.desc) \in Seq(Nat)
      /\ programme.start \in Nat
  <2>1. /\ programme.title \in Seq(Nat) /\ programme.desc \in Seq(Nat)
        /\ programme.start \in Nat
    BY DEF TypeOK, IsProgramme
  <2> QED
    BY <2>1, DecodedType
<1>2. Announced(XmlShort(XmlDecode(programme.title)))
  <2>1. <<0>> \in Seq(Nat)
    OBVIOUS
  <2> QED
    BY <1>1, <2>1, ShortEventAnnounced DEF XmlShort
<1>3. ds \in Seq(Seq(Nat)) /\ \A i \in DOMAIN ds : Announced(ds[i])
  BY <1>1, <1>2, DescriptorsAnnounced
<1>4. Crcs(ds) \in Seq(Seq(Nat))
  BY <1>3, CrcsType
<1>5. <<>> \in Seq(Seq(Nat))
  OBVIOUS
<1> QED
  BY <1>1, <1>4, <1>5 DEF EventData, Orders

(* What an event of a file becomes.                                         *)
FileEvent(id, start, data, s) ==
  [order |-> data_endian, id |-> id, start |-> start, inline |-> source = "V5",
   data |-> data, status |-> s[1], behind |-> s[2]]

LEMMA FileEventType ==
  ASSUME TypeOK, NEW id \in FileIds, NEW start \in Times, NEW data \in V5Data \cup V7Data,
         NEW s \in Surroundings
  PROVE  FileEvent(id, start, data, s) \in EventData
<1>1. id \in 0..(IdMod - 1) /\ start \in Nat /\ data \in Seq(Seq(Nat))
  BY StoreAssumption DEF StoreAssumption
<1>2. s[1] \in Nat /\ s[2] \in Seq(Seq(Nat))
  <2>1. CASE s \in Statuses \X Beyond
    BY <2>1, StoreAssumption DEF StoreAssumption
  <2>2. CASE s = <<0, <<>>>>
    <3>1. <<>> \in Seq(Seq(Nat))
      OBVIOUS
    <3> QED
      BY <2>2, <3>1
  <2> QED
    BY <2>1, <2>2 DEF Surroundings
<1>3. data_endian \in {"X"} \cup Orders
  BY DEF TypeOK
<1> QED
  BY <1>1, <1>2, <1>3 DEF EventData, FileEvent

LEMMA EventRead ==
  ASSUME TypeOK, NEW id \in FileIds, NEW start \in Times, NEW data \in V5Data \cup V7Data,
         ReadEvent(id, start, data)
  PROVE  \E s \in Surroundings : heap' = Append(heap, FileEvent(id, start, data, s))
BY DEF ReadEvent, FileEvent

(* The services after LoadEventStruct hold events that were there or the    *)
(* new one.                                                                 *)
LEMMA LoadedType ==
  ASSUME TypeOK, NEW k, NEW db, NEW maps, NEW id \in 0..(IdMod - 1),
         NEW start \in Nat, NEW events, NEW n \in DOMAIN events,
         DOMAIN heap \subseteq DOMAIN events,
         maps = Enter(WithService(k)[k], id, start, n),
         db = [WithService(k) EXCEPT ![k] = maps]
  PROVE  IsFun(db) /\ \A j \in DOMAIN db : IsMaps(db[j], events)
<1> DEFINE W == WithService(k)
<1>1. /\ k \in DOMAIN W /\ IsFun(W)
      /\ \A j \in DOMAIN W :
           W[j] = NoEvents \/ \E i \in DOMAIN eventDB : W[j] = eventDB[i]
  BY WithServiceFacts DEF TypeOK
<1>2. \A i \in DOMAIN eventDB : IsMaps(eventDB[i], events)
  BY MapsGrow DEF TypeOK
<1>3. \A j \in DOMAIN W : IsMaps(W[j], events)
  BY <1>1, <1>2, NoEventsType
<1>4. IsMaps(maps, events)
  BY <1>1, <1>3, EnterType
<1>5. db = [W EXCEPT ![k] = maps]
  OBVIOUS
<1> HIDE DEF W
<1>6. IsFun(db) /\ DOMAIN db = DOMAIN W
  BY <1>1, <1>5 DEF IsFun
<1>7. db[k] = maps /\ \A j \in DOMAIN W : j # k => db[j] = W[j]
  BY <1>1, <1>5
<1> QED
  BY <1>3, <1>4, <1>6, <1>7

LEMMA StepType == TypeOK /\ [Next]_vars => TypeOK'
<1> SUFFICES ASSUME TypeOK, [Next]_vars PROVE TypeOK'
  OBVIOUS
<1> USE StoreAssumption DEF StoreAssumption
<1>1. ASSUME NEW format \in {"V5", "V7"}, NEW order \in Orders, OpenFile(format, order)
      PROVE  TypeOK'
  BY <1>1 DEF OpenFile, TypeOK, IsService, store, xmlmaps
<1>2. CASE RefuseFile
  BY <1>2 DEF RefuseFile, TypeOK, IsService, store, xmlmaps
<1>3. ASSUME NEW k \in Keys, ReadService(k)
      PROVE  TypeOK'
  <2>1. PICK size \in 0..MaxEvents :
          service' = [key |-> Redirected(k), left |-> size, maps |-> NoEvents]
    BY <1>3 DEF ReadService
  <2>2. IsService(service)'
    BY <1>3, <2>1, NoEventsType DEF ReadService, IsService, store
  <2> QED
    BY <1>3, <2>2 DEF ReadService, TypeOK, store, xmlmaps
<1>4. ASSUME NEW id \in FileIds, NEW start \in Times, NEW data \in V5Data \cup V7Data,
             ReadEvent(id, start, data)
      PROVE  TypeOK'
  <2> DEFINE n == Len(heap) + 1
  <2>1. id \in 0..(IdMod - 1) /\ start \in Nat
    OBVIOUS
  <2>2. \E e \in EventData : heap' = Append(heap, e)
    BY <1>4, EventRead, FileEventType
  <2>3. service # None /\ service.left > 0 /\ IsService(service)
    BY <1>4 DEF ReadEvent, TypeOK
  <2>4. /\ heap' \in Seq(EventData) /\ n \in DOMAIN heap'
        /\ DOMAIN heap \subseteq DOMAIN heap'
    BY <2>2, HeapGrows
  <2>5. IsMaps(Enter(service.maps, id, start, n), heap')
    <3>1. IsMaps(service.maps, heap')
      BY <2>3, <2>4, MapsGrow DEF IsService
    <3> QED
      BY <2>1, <2>4, <3>1, EnterType
  <2>6. IsService(service)'
    <3>1. service' = [key |-> service.key, left |-> service.left - 1,
                      maps |-> Enter(service.maps, id, start, n)]
      BY <1>4, <2>3 DEF ReadEvent, IsService
    <3>2. service.left - 1 \in Nat
      BY <2>3 DEF IsService
    <3> QED
      BY <2>5, <3>1, <3>2 DEF IsService
  <2>7. \A k \in DOMAIN eventDB : IsMaps(eventDB[k], heap')
    BY <2>4, MapsGrow DEF TypeOK
  <2>8. maxEventID' \in 0..(IdMod - 1)
    BY <1>4, <2>1 DEF ReadEvent, Raised, TypeOK
  <2> QED
    BY <1>4, <2>4, <2>6, <2>7, <2>8 DEF ReadEvent, TypeOK, xmlmaps
<1>5. CASE StoreService
  <2> DEFINE db == Put(eventDB, service.key, service.maps)
  <2>1. IsMaps(service.maps, heap)
    BY <1>5 DEF StoreService, TypeOK, IsService
  <2>2. IsFun(db) /\ DOMAIN db = DOMAIN eventDB \cup {service.key}
    BY PutDomain
  <2>3. db[service.key] = service.maps
    BY PutValue
  <2>4. \A y \in DOMAIN eventDB : y # service.key => db[y] = eventDB[y]
    BY PutOther
  <2>5. eventDB' = db
    BY <1>5 DEF StoreService
  <2> HIDE DEF db
  <2>6. \A k \in DOMAIN db : IsMaps(db[k], heap)
    BY <2>1, <2>2, <2>3, <2>4 DEF TypeOK
  <2> QED
    BY <1>5, <2>2, <2>5, <2>6 DEF StoreService, TypeOK, xmlmaps
<1>6. CASE EndServices
  BY <1>6 DEF EndServices, TypeOK, IsService, store, xmlmaps
<1>7. ASSUME NEW id \in TableIds, NEW bytes \in TableBytes, ReadDescriptor(id, bytes)
      PROVE  TypeOK'
  BY <1>7 DEF ReadDescriptor, TypeOK, IsService, xmlmaps
<1>8. CASE EndTable
  BY <1>8 DEF EndTable, TypeOK, IsService, store, xmlmaps
<1>9. CASE OpenXmltv
  BY <1>9 DEF OpenXmltv, TypeOK, IsService, Orders, store, xmlmaps
<1>10. ASSUME NEW ch \in Channels, NEW name \in Names, ReadChannel(ch, name)
       PROVE  TypeOK'
  <2>1. IsMap(xmltvmap', Channels, Names)
    BY <1>10, PutIsMap DEF ReadChannel, TypeOK
  <2> QED
    BY <1>10, <2>1 DEF ReadChannel, NextElement, TypeOK, IsService, store
<1>11. ASSUME NEW ch \in Channels, NEW name \in Names, NEW k \in Keys,
              ReadChannelTsonid(ch, name, k)
       PROVE  TypeOK'
  <2>1. IsMap(xmltvmap', Channels, Names)
    BY <1>11, PutIsMap DEF ReadChannelTsonid, TypeOK
  <2> QED
    BY <1>11, <2>1 DEF ReadChannelTsonid, NextElement, TypeOK, IsService, store
<1>12. ASSUME NEW ch \in Channels, NEW stamp \in Stamps, NEW title \in Titles \cup {<<>>},
              SkipProgramme(ch, stamp, title)
       PROVE  TypeOK'
  BY <1>12 DEF SkipProgramme, NextElement, TypeOK, IsService, store, xmlmaps
<1>13. ASSUME NEW ch \in Channels, NEW stamp \in Stamps, NEW title \in Titles \cup {<<>>},
              NEW id \in XmlIds, NEW desc \in Descriptions(ch),
              ReadProgramme(ch, stamp, id, title, desc)
       PROVE  TypeOK'
  <2>1. title \in Seq(Nat) /\ TimeOf[stamp] \in Nat /\ id \in Nat \cup {NoId}
    <3>1. <<>> \in Seq(Nat)
      OBVIOUS
    <3>2. Titles \subseteq Seq(Nat)
      BY StoreAssumption
    <3>3. TimeOf[stamp] \in Nat
      BY StoreAssumption
    <3>4. id \in Nat \cup {NoId}
      BY StoreAssumption
    <3> QED
      BY <3>1, <3>2, <3>3, <3>4
  <2>2. desc \in Seq(Nat)
    BY DescriptionsType
  <2>3. programme' = [channel |-> ch, stamp |-> stamp, start |-> TimeOf[stamp],
                      id |-> id, said |-> title, title |-> title, desc |-> desc,
                      keys |-> KeysOf(ch)]
    BY <1>13 DEF ReadProgramme
  <2>4. IsProgramme(programme)'
    BY <2>1, <2>2, <2>3 DEF IsProgramme
  <2> QED
    BY <1>13, <2>4
    DEF ReadProgramme, NextElement, TypeOK, IsService, store, xmlmaps
<1>14. ASSUME NEW k \in Keys, LoadEventStruct(k)
       PROVE  TypeOK'
  <2> DEFINE n  == Len(heap) + 1
             id == NewId(programme.id)
             ds == EventDescriptors(XmlShort(XmlDecode(programme.title)),
                                    XmlDecode(programme.desc), "B")
             e  == [order |-> "B", id |-> id, start |-> programme.start,
                    inline |-> FALSE, data |-> Crcs(ds), status |-> 0,
                    behind |-> <<>>]
  <2>1. programme # None /\ IsProgramme(programme)
    BY <1>14 DEF LoadEventStruct, TypeOK
  <2>2. programme.id \in Nat \cup {NoId} /\ programme.start \in Nat
    BY <2>1 DEF IsProgramme
  <2>3. id \in 0..(IdMod - 1)
    BY <2>2, NewIdFacts
  <2>4. e \in EventData
    BY <2>1, <2>3, StructType
  <2>5. heap' = Append(heap, e)
    BY <1>14 DEF LoadEventStruct
  <2> HIDE DEF ds
  <2>6. /\ heap' \in Seq(EventData) /\ n \in DOMAIN heap'
        /\ DOMAIN heap \subseteq DOMAIN heap'
    BY <2>4, <2>5, HeapGrows
  <2>7. eventDB' = [WithService(k) EXCEPT ![k] =
                      Enter(WithService(k)[k], id, programme.start, n)]
    BY <1>14 DEF LoadEventStruct
  <2>8. IsFun(eventDB') /\ \A j \in DOMAIN eventDB' : IsMaps(eventDB'[j], heap')
    BY <2>2, <2>3, <2>6, <2>7, LoadedType
  <2>9. maxEventID' \in 0..(IdMod - 1)
    <3>1. maxEventID' = Raised(id)
      BY <1>14 DEF LoadEventStruct
    <3> HIDE DEF id
    <3> QED
      BY <2>3, <3>1 DEF Raised, TypeOK
  <2>10. service' # None => IsService(service)'
    <3>1. service' = service
      BY <1>14 DEF LoadEventStruct
    <3>2. ASSUME service # None PROVE IsMaps(service.maps, heap')
      BY <3>2, <2>6, MapsGrow DEF TypeOK, IsService
    <3> QED
      BY <3>1, <3>2 DEF TypeOK, IsService
  <2>11. IsProgramme(programme)'
    <3>1. programme' = Decoded(programme, k)
      BY <1>14 DEF LoadEventStruct
    <3>2. /\ DecodedInPlace(programme.title) \in Seq(Nat)
          /\ DecodedInPlace(programme.desc) \in Seq(Nat)
      <4>1. programme.title \in Seq(Nat) /\ programme.desc \in Seq(Nat)
        BY <2>1 DEF IsProgramme
      <4> QED
        BY <4>1, DecodedType
    <3> QED
      BY <2>1, <3>1, <3>2 DEF IsProgramme, Decoded
  <2>12. UNCHANGED <<phase, source, todo, data_endian, xmltvmap>>
    BY <1>14 DEF LoadEventStruct, xmlmaps
  <2> QED
    BY <2>6, <2>8, <2>9, <2>10, <2>11, <2>12 DEF TypeOK
<1>15. CASE EndProgramme
  BY <1>15 DEF EndProgramme, TypeOK, IsService, store
<1>16. CASE EndXmltv
  BY <1>16 DEF EndXmltv, TypeOK, IsService, store, xmlmaps
<1>17. CASE UNCHANGED vars
  BY <1>17 DEF vars, TypeOK, IsService
<1> QED
  BY <1>1, <1>2, <1>3, <1>4, <1>5, <1>6, <1>7, <1>8, <1>9, <1>10, <1>11, <1>12,
     <1>13, <1>14, <1>15, <1>16, <1>17
  DEF Next, LoadFile, LoadXmltv

(* Every variable keeps its type whatever is loaded: ids stay 16 bits wide, *)
(* and no map of a service points to an event that was never made.          *)
THEOREM TypeCorrect == Spec => []TypeOK
<1> QED
  BY InitType, StepType, PTL DEF Spec
-----------------------------------------------------------------------------
(* Of the two maps of a service: they tell one story, and a programme        *)
(* without an event_id gets an id of its own.                                *)

(* What a service holds does not depend on the events that follow.         *)
LEMMA AgreeGrows ==
  ASSUME NEW m, NEW a, NEW b, IsMaps(m, a), Agree(m, a),
         \A n \in DOMAIN a : b[n] = a[n]
  PROVE  Agree(m, b)
<1>1. \A id \in DOMAIN m.byId : m.byId[id] \in DOMAIN a
  BY DEF IsMaps, IsMap
<1>2. \A t \in DOMAIN m.byTime : m.byTime[t] \in DOMAIN a
  BY DEF IsMaps, IsMap
<1> QED
  BY <1>1, <1>2 DEF Agree

LEMMA NoEventsAgree ==
  ASSUME NEW events
  PROVE  Agree(NoEvents, events)
BY DEF Agree, NoEvents, Empty

(* Entering an event that is newer than all a service holds keeps the two  *)
(* maps together: it takes the place of an older one in either.            *)
LEMMA EnterAgrees ==
  ASSUME NEW m, NEW a, NEW b, IsMaps(m, a), Agree(m, b),
         NEW n \in Nat, \A j \in DOMAIN a : j \in Nat /\ j < n,
         NEW id, NEW start, b[n].id = id, b[n].start = start
  PROVE  Agree(Enter(m, id, start, n), b)
<1> DEFINE I == Put(m.byId, id, n)
           T == Put(m.byTime, start, n)
<1>1. DOMAIN I = DOMAIN m.byId \cup {id} /\ DOMAIN T = DOMAIN m.byTime \cup {start}
  BY PutDomain
<1>2. I[id] = n /\ T[start] = n
  BY PutValue
<1>3. \A x \in DOMAIN m.byId : x # id => I[x] = m.byId[x]
  BY PutOther
<1>4. \A x \in DOMAIN m.byTime : x # start => T[x] = m.byTime[x]
  BY PutOther
<1>5. Enter(m, id, start, n) = [byId |-> I, byTime |-> T]
  BY DEF Enter
<1>6. /\ \A x \in DOMAIN m.byId : m.byId[x] \in Nat /\ m.byId[x] < n
      /\ \A x \in DOMAIN m.byTime : m.byTime[x] \in Nat /\ m.byTime[x] < n
  BY DEF IsMaps, IsMap
<1> HIDE DEF I, T
<1>7. ASSUME NEW x \in DOMAIN I
      PROVE  b[I[x]].id = x /\ b[I[x]].start \in DOMAIN T /\ I[x] <= T[b[I[x]].start]
  <2>1. CASE x = id
    BY <2>1, <1>1, <1>2
  <2>2. CASE x # id
    <3>1. /\ b[m.byId[x]].id = x /\ b[m.byId[x]].start \in DOMAIN m.byTime
          /\ m.byId[x] <= m.byTime[b[m.byId[x]].start]
      BY <2>2, <1>1 DEF Agree
    <3>2. I[x] = m.byId[x] /\ I[x] < n /\ I[x] \in Nat
      BY <2>2, <1>1, <1>3, <1>6
    <3> QED
      BY <3>1, <3>2, <1>1, <1>2, <1>4
  <2> QED
    BY <2>1, <2>2
<1>8. ASSUME NEW x \in DOMAIN T
      PROVE  b[T[x]].start = x /\ b[T[x]].id \in DOMAIN I /\ T[x] <= I[b[T[x]].id]
  <2>1. CASE x = start
    BY <2>1, <1>1, <1>2
  <2>2. CASE x # start
    <3>1. /\ b[m.byTime[x]].start = x /\ b[m.byTime[x]].id \in DOMAIN m.byId
          /\ m.byTime[x] <= m.byId[b[m.byTime[x]].id]
      BY <2>2, <1>1 DEF Agree
    <3>2. T[x] = m.byTime[x] /\ T[x] < n /\ T[x] \in Nat
      BY <2>2, <1>1, <1>4, <1>6
    <3> QED
      BY <3>1, <3>2, <1>1, <1>2, <1>3
  <2> QED
    BY <2>1, <2>2
<1> QED
  BY <1>5, <1>7, <1>8 DEF Agree

(* Only four actions touch events or services.                             *)
LEMMA StepAgrees == TypeOK /\ TypeOK' /\ MapsAgree /\ [Next]_vars => MapsAgree'
<1> SUFFICES ASSUME TypeOK, TypeOK', MapsAgree, [Next]_vars
             PROVE  MapsAgree'
  OBVIOUS
<1>1. ASSUME UNCHANGED <<eventDB, heap, service>> PROVE MapsAgree'
  BY <1>1 DEF MapsAgree
<1>2. ASSUME NEW k \in Keys, ReadService(k) PROVE MapsAgree'
  <2>1. service'.maps = NoEvents /\ eventDB' = eventDB /\ heap' = heap
    BY <1>2 DEF ReadService, store
  <2> QED
    BY <2>1, NoEventsAgree DEF MapsAgree
<1>3. ASSUME NEW id \in FileIds, NEW start \in Times, NEW data \in V5Data \cup V7Data,
             ReadEvent(id, start, data)
      PROVE  MapsAgree'
  <2>1. PICK s \in Surroundings : heap' = Append(heap, FileEvent(id, start, data, s))
    BY <1>3, EventRead
  <2> DEFINE n == Len(heap) + 1
             e == FileEvent(id, start, data, s)
  <2>2. e \in EventData /\ heap' = Append(heap, e)
    BY <2>1, FileEventType
  <2>3. e.id = id /\ e.start = start
    BY DEF FileEvent
  <2> HIDE DEF e
  <2>4. /\ n \in Nat /\ heap'[n] = e
        /\ \A j \in DOMAIN heap : heap'[j] = heap[j] /\ j \in Nat /\ j < n
    BY <2>2, HeapGrows
  <2>5. service # None /\ IsMaps(service.maps, heap) /\ Agree(service.maps, heap)
    BY <1>3 DEF ReadEvent, TypeOK, IsService, MapsAgree
  <2>6. Agree(service.maps, heap')
    BY <2>4, <2>5, AgreeGrows
  <2> HIDE DEF n
  <2>7. Agree(Enter(service.maps, id, start, n), heap')
    BY <2>3, <2>4, <2>5, <2>6, EnterAgrees
  <2>8. service'.maps = Enter(service.maps, id, start, n)
    BY <1>3, <2>5 DEF ReadEvent, n, TypeOK, IsService
  <2>9. \A k \in DOMAIN eventDB : Agree(eventDB[k], heap')
    BY <2>4, AgreeGrows DEF TypeOK, MapsAgree
  <2>10. eventDB' = eventDB
    BY <1>3 DEF ReadEvent
  <2> QED
    BY <2>7, <2>8, <2>9, <2>10 DEF MapsAgree
<1>4. CASE StoreService
  <2> DEFINE db == Put(eventDB, service.key, service.maps)
  <2>1. eventDB' = db /\ heap' = heap /\ service' = None
    BY <1>4 DEF StoreService
  <2>2. Agree(service.maps, heap)
    BY <1>4 DEF StoreService, MapsAgree
  <2>3. DOMAIN db = DOMAIN eventDB \cup {service.key}
    BY PutDomain
  <2>4. db[service.key] = service.maps
    BY PutValue
  <2>5. \A y \in DOMAIN eventDB : y # service.key => db[y] = eventDB[y]
    BY PutOther
  <2> HIDE DEF db
  <2> QED
    BY <2>1, <2>2, <2>3, <2>4, <2>5 DEF MapsAgree
<1>5. ASSUME NEW k \in Keys, LoadEventStruct(k) PROVE MapsAgree'
  <2> DEFINE n  == Len(heap) + 1
             id == NewId(programme.id)
             ds == EventDescriptors(XmlShort(XmlDecode(programme.title)),
                                    XmlDecode(programme.desc), "B")
             e  == [order |-> "B", id |-> id, start |-> programme.start,
                    inline |-> FALSE, data |-> Crcs(ds), status |-> 0,
                    behind |-> <<>>]
             W    == WithService(k)
             maps == Enter(W[k], id, programme.start, n)
  <2>1. programme # None /\ programme.id \in Nat \cup {NoId}
    BY <1>5 DEF LoadEventStruct, TypeOK, IsProgramme
  <2>2. id \in 0..(IdMod - 1)
    BY <2>1, NewIdFacts
  <2>3. e \in EventData
    BY <2>1, <2>2, StructType
  <2>4. heap' = Append(heap, e) /\ service' = service
    BY <1>5 DEF LoadEventStruct
  <2>5. eventDB' = [W EXCEPT ![k] = maps]
    BY <1>5 DEF LoadEventStruct
  <2>6. e.id = id /\ e.start = programme.start
    OBVIOUS
  <2> HIDE DEF ds, e
  <2>7. /\ n \in Nat /\ heap'[n] = e
        /\ \A j \in DOMAIN heap : heap'[j] = heap[j] /\ j \in Nat /\ j < n
    BY <2>3, <2>4, HeapGrows
  <2>8. /\ k \in DOMAIN W /\ IsFun(W)
        /\ \A j \in DOMAIN W :
             W[j] = NoEvents \/ \E i \in DOMAIN eventDB : W[j] = eventDB[i]
    BY WithServiceFacts DEF TypeOK
  <2>9. \A i \in DOMAIN eventDB : IsMaps(eventDB[i], heap) /\ Agree(eventDB[i], heap')
    BY <2>7, AgreeGrows DEF TypeOK, MapsAgree
  <2> HIDE DEF W, n, id
  <2>10. \A j \in DOMAIN W : IsMaps(W[j], heap) /\ Agree(W[j], heap')
    BY <2>8, <2>9, NoEventsType, NoEventsAgree
  <2>11. Agree(maps, heap')
    BY <2>6, <2>7, <2>8, <2>10, EnterAgrees
  <2> HIDE DEF maps
  <2>12. DOMAIN eventDB' = DOMAIN W /\ eventDB'[k] = maps
    BY <2>5, <2>8
  <2>13. \A j \in DOMAIN W : j # k => eventDB'[j] = W[j]
    BY <2>5, <2>8
  <2>14. service # None => Agree(service.maps, heap')
    BY <2>7, AgreeGrows DEF TypeOK, IsService, MapsAgree
  <2> QED
    BY <2>4, <2>10, <2>11, <2>12, <2>13, <2>14 DEF MapsAgree
<1> QED
  BY <1>1, <1>2, <1>3, <1>4, <1>5
  DEF Next, LoadFile, LoadXmltv, vars, OpenFile, RefuseFile, EndServices,
      ReadDescriptor, EndTable, OpenXmltv, ReadChannel, ReadChannelTsonid,
      SkipProgramme, ReadProgramme, EndProgramme, EndXmltv, store

(* byId and byTime of every service agree after any sequence of services,  *)
(* events and programmes from any of the loaders, redirected services and  *)
(* repeated ids and start times included (epg.cpp 192-198, 244-250, 342,   *)
(* 471-473).                                                               *)
THEOREM MapsAlwaysAgree == Spec => []MapsAgree
<1>1. Init => MapsAgree
  BY DEF Init, MapsAgree, Empty
<1> QED
  BY <1>1, TypeCorrect, StepAgrees, PTL DEF Spec
-----------------------------------------------------------------------------
(* Why a fresh id is fresh: no id in use is above maxEventID, and the two   *)
(* kinds of loader never run together.                                      *)
IdsUsed(m) == \A id \in DOMAIN m.byId : id <= maxEventID

IdsBounded ==
  /\ \A k \in DOMAIN eventDB : IdsUsed(eventDB[k])
  /\ service # None => IdsUsed(service.maps)

OneLoader ==
  /\ phase = "start" => service = None /\ programme = None
  /\ service # None => source \in {"V5", "V7"}
  /\ programme # None => source = "XMLTV"

IdInv == IdsBounded /\ OneLoader

(* An id that is entered raises maxEventID to at least itself.             *)
LEMMA EnterUsed ==
  ASSUME maxEventID \in Nat, NEW m, IsMaps(m, heap), IdsUsed(m),
         NEW id \in Nat, NEW start, NEW n, maxEventID' = Raised(id)
  PROVE  \A x \in DOMAIN Enter(m, id, start, n).byId : x <= maxEventID'
<1> DEFINE I == Put(m.byId, id, n)
<1>1. DOMAIN I = DOMAIN m.byId \cup {id}
  BY PutDomain
<1>2. Enter(m, id, start, n).byId = I
  BY DEF Enter
<1>3. maxEventID' \in Nat /\ maxEventID <= maxEventID' /\ id <= maxEventID'
  BY DEF Raised
<1>4. \A x \in DOMAIN m.byId : x \in Nat /\ x <= maxEventID
  BY StoreAssumption DEF IsMaps, IsMap, IdsUsed, StoreAssumption
<1> HIDE DEF I
<1> QED
  BY <1>1, <1>2, <1>3, <1>4

LEMMA StepBounds == TypeOK /\ IdInv /\ [Next]_vars => IdInv'
<1> SUFFICES ASSUME TypeOK, IdInv, [Next]_vars
             PROVE  IdInv'
  OBVIOUS
<1>1. maxEventID \in Nat /\ IdMod \in Nat \ {0}
  BY StoreAssumption DEF TypeOK, StoreAssumption
<1>2. ASSUME UNCHANGED <<eventDB, maxEventID, service>> PROVE IdsBounded'
  BY <1>2 DEF IdInv, IdsBounded, IdsUsed
<1>3. ASSUME NEW k \in Keys, ReadService(k) PROVE IdInv'
  <2>1. service'.maps = NoEvents /\ UNCHANGED <<eventDB, maxEventID>>
    BY <1>3 DEF ReadService, store
  <2>2. IdsBounded'
    BY <2>1 DEF IdInv, IdsBounded, IdsUsed, NoEvents, Empty
  <2> QED
    BY <1>3, <2>2 DEF ReadService, IdInv, OneLoader
<1>4. ASSUME NEW id \in FileIds, NEW start \in Times, NEW data \in V5Data \cup V7Data,
             ReadEvent(id, start, data)
      PROVE  IdInv'
  <2> DEFINE maps == Enter(service.maps, id, start, Len(heap) + 1)
  <2>1. id \in Nat
    BY StoreAssumption DEF StoreAssumption
  <2>2. /\ service # None /\ IsMaps(service.maps, heap) /\ IdsUsed(service.maps)
        /\ maxEventID' = Raised(id)
    BY <1>4 DEF ReadEvent, TypeOK, IsService, IdInv, IdsBounded
  <2>3. \A x \in DOMAIN maps.byId : x <= maxEventID'
    BY <1>1, <2>1, <2>2, EnterUsed
  <2> HIDE DEF maps
  <2>4. service'.maps = maps
    BY <1>4, <2>2 DEF ReadEvent, maps, TypeOK, IsService
  <2>5. maxEventID' \in Nat /\ maxEventID <= maxEventID' /\ eventDB' = eventDB
    BY <1>1, <1>4, <2>1, <2>2 DEF Raised, ReadEvent
  <2>6. \A k \in DOMAIN eventDB : \A x \in DOMAIN eventDB[k].byId :
          x \in Nat /\ x <= maxEventID
    BY <1>1 DEF IdInv, IdsBounded, IdsUsed, TypeOK, IsMaps, IsMap
  <2>7. IdsBounded'
    BY <1>1, <2>3, <2>4, <2>5, <2>6 DEF IdsBounded, IdsUsed
  <2>8. OneLoader'
    BY <1>4, <2>2 DEF ReadEvent, IdInv, OneLoader
  <2> QED
    BY <2>7, <2>8 DEF IdInv
<1>5. CASE StoreService
  <2> DEFINE db == Put(eventDB, service.key, service.maps)
  <2>1. eventDB' = db /\ maxEventID' = maxEventID /\ service' = None
    BY <1>5 DEF StoreService
  <2>2. IdsUsed(service.maps)
    BY <1>5 DEF StoreService, IdInv, IdsBounded
  <2>3. DOMAIN db = DOMAIN eventDB \cup {service.key}
    BY PutDomain
  <2>4. db[service.key] = service.maps
    BY PutValue
  <2>5. \A y \in DOMAIN eventDB : y # service.key => db[y] = eventDB[y]
    BY PutOther
  <2> HIDE DEF db
  <2>6. IdsBounded'
    BY <2>1, <2>2, <2>3, <2>4, <2>5 DEF IdInv, IdsBounded, IdsUsed
  <2> QED
    BY <1>5, <2>6 DEF StoreService, IdInv, OneLoader
<1>6. ASSUME NEW k \in Keys, LoadEventStruct(k) PROVE IdInv'
  <2> DEFINE id   == NewId(programme.id)
             W    == WithService(k)
             maps == Enter(W[k], id, programme.start, Len(heap) + 1)
  <2>1. programme # None /\ programme.id \in Nat \cup {NoId}
    BY <1>6 DEF LoadEventStruct, TypeOK, IsProgramme
  <2>2. id \in 0..(IdMod - 1)
    BY <2>1, NewIdFacts
  <2>3. eventDB' = [W EXCEPT ![k] = maps]
    BY <1>6 DEF LoadEventStruct
  <2>4. maxEventID' = Raised(id) /\ service' = service
    BY <1>6 DEF LoadEventStruct
  <2>5. /\ k \in DOMAIN W /\ IsFun(W)
        /\ \A j \in DOMAIN W :
             W[j] = NoEvents \/ \E i \in DOMAIN eventDB : W[j] = eventDB[i]
    BY WithServiceFacts DEF TypeOK
  <2> HIDE DEF W, id
  <2>6. IsMaps(NoEvents, heap) /\ IdsUsed(NoEvents)
    BY NoEventsType DEF IdsUsed, NoEvents, Empty
  <2>7. \A j \in DOMAIN W : IsMaps(W[j], heap) /\ IdsUsed(W[j])
    BY <2>5, <2>6 DEF TypeOK, IdInv, IdsBounded
  <2>8. id \in Nat
    BY <1>1, <2>2
  <2>9. \A x \in DOMAIN maps.byId : x <= maxEventID'
    BY <1>1, <2>4, <2>5, <2>7, <2>8, EnterUsed
  <2> HIDE DEF maps
  <2>10. DOMAIN eventDB' = DOMAIN W /\ eventDB'[k] = maps
    BY <2>3, <2>5
  <2>11. \A j \in DOMAIN W : j # k => eventDB'[j] = W[j]
    BY <2>3, <2>5
  <2>12. maxEventID' \in Nat /\ maxEventID <= maxEventID'
    BY <1>1, <2>4, <2>8 DEF Raised
  <2>13. \A j \in DOMAIN W : \A x \in DOMAIN W[j].byId : x <= maxEventID'
    <3>1. \A j \in DOMAIN W : \A x \in DOMAIN W[j].byId : x \in Nat /\ x <= maxEventID
      BY <1>1, <2>7 DEF IdsUsed, IsMaps, IsMap
    <3> QED
      BY <1>1, <2>12, <3>1
  <2>14. service # None => \A x \in DOMAIN service.maps.byId : x <= maxEventID'
    <3>1. service # None => \A x \in DOMAIN service.maps.byId : x \in Nat /\ x <= maxEventID
      BY <1>1 DEF TypeOK, IsService, IdInv, IdsBounded, IdsUsed, IsMaps, IsMap
    <3> QED
      BY <1>1, <2>12, <3>1
  <2>15. IdsBounded'
    BY <2>4, <2>9, <2>10, <2>11, <2>13, <2>14 DEF IdsBounded, IdsUsed
  <2>16. phase' = phase /\ source' = source /\ phase # "start" /\ source = "XMLTV"
    BY <1>6, <2>1 DEF LoadEventStruct, IdInv, OneLoader
  <2>17. OneLoader'
    BY <2>4, <2>16 DEF IdInv, OneLoader
  <2> QED
    BY <2>15, <2>17 DEF IdInv
<1>7. ASSUME NEW ch \in Channels, NEW stamp \in Stamps, NEW title \in Titles \cup {<<>>},
             NEW id \in XmlIds, NEW desc \in Descriptions(ch),
             ReadProgramme(ch, stamp, id, title, desc)
      PROVE  IdInv'
  BY <1>2, <1>7 DEF ReadProgramme, NextElement, store, IdInv, OneLoader
<1>8. ASSUME \/ \E format \in {"V5", "V7"}, order \in Orders : OpenFile(format, order)
             \/ RefuseFile \/ EndServices \/ OpenXmltv \/ EndXmltv \/ EndTable
             \/ UNCHANGED vars
      PROVE  IdInv'
  BY <1>2, <1>8 DEF OpenFile, RefuseFile, EndServices, OpenXmltv, EndXmltv, EndTable,
                    vars, store, IdInv, OneLoader
<1>9. ASSUME \/ \E id \in TableIds, bytes \in TableBytes : ReadDescriptor(id, bytes)
             \/ EndProgramme
             \/ \E ch \in Channels, name \in Names :
                  \/ ReadChannel(ch, name)
                  \/ \E k \in Keys : ReadChannelTsonid(ch, name, k)
             \/ \E ch \in Channels, stamp \in Stamps, title \in Titles \cup {<<>>} :
                  SkipProgramme(ch, stamp, title)
      PROVE  IdInv'
  BY <1>2, <1>9 DEF ReadDescriptor, EndProgramme, ReadChannel, ReadChannelTsonid,
                    SkipProgramme, NextElement, store, IdInv, OneLoader
<1> QED
  BY <1>3, <1>4, <1>5, <1>6, <1>7, <1>8, <1>9 DEF Next, LoadFile, LoadXmltv

LEMMA IdsAlways == Spec => []IdInv
<1>1. Init => IdInv
  BY DEF Init, IdInv, IdsBounded, OneLoader, Empty
<1> QED
  BY <1>1, TypeCorrect, StepBounds, PTL DEF Spec

(* Only the XMLTV loader adds events while a programme is being stored.    *)
LEMMA StepFresh == TypeOK /\ IdInv /\ [Next]_vars => FreshIdStep
<1> SUFFICES ASSUME TypeOK, IdInv, [Next]_vars,
                    programme # None, Len(heap') > Len(heap), programme.id = NoId,
                    maxEventID + 1 < IdMod,
                    NEW k \in DOMAIN eventDB
             PROVE  heap'[Len(heap')].id \notin DOMAIN eventDB[k].byId
  BY DEF FreshIdStep
<1>1. PICK j \in Keys : LoadEventStruct(j)
  <2>1. service = None /\ heap' # heap
    BY DEF IdInv, OneLoader
  <2> QED
    BY <2>1
    DEF Next, LoadFile, LoadXmltv, vars, OpenFile, RefuseFile, ReadService, ReadEvent,
        StoreService, EndServices, ReadDescriptor, EndTable, OpenXmltv, ReadChannel,
        ReadChannelTsonid, SkipProgramme, ReadProgramme, EndProgramme, EndXmltv,
        store
<1> DEFINE ds == EventDescriptors(XmlShort(XmlDecode(programme.title)),
                                  XmlDecode(programme.desc), "B")
           e  == [order |-> "B", id |-> NewId(programme.id), start |-> programme.start,
                  inline |-> FALSE, data |-> Crcs(ds), status |-> 0,
                  behind |-> <<>>]
<1>2. NewId(programme.id) \in 0..(IdMod - 1) /\ NewId(programme.id) = maxEventID + 1
  <2>1. programme.id \in Nat \cup {NoId}
    BY DEF TypeOK, IsProgramme
  <2> QED
    BY <2>1, NewIdFacts
<1>3. e \in EventData
  BY <1>2, StructType
<1>4. heap' = Append(heap, e)
  BY <1>1 DEF LoadEventStruct
<1>5. e.id = maxEventID + 1
  BY <1>2
<1> HIDE DEF e
<1>6. heap'[Len(heap')] = e
  BY <1>3, <1>4, HeapGrows
<1>7. maxEventID \in Nat
  BY StoreAssumption DEF TypeOK, StoreAssumption
<1>8. \A id \in DOMAIN eventDB[k].byId : id <= maxEventID
  BY DEF IdInv, IdsBounded, IdsUsed
<1> QED
  BY <1>5, <1>6, <1>7, <1>8

(* Until the 16-bit ids are used up, a programme that has no event_id gets *)
(* an id that no event of any service has (epg.cpp 362), after any input.  *)
THEOREM IdsAreFresh == Spec => FreshId
<1>1. TypeOK /\ IdInv /\ [Next]_vars => [FreshIdStep]_vars
  BY StepFresh
<1> QED
  BY <1>1, TypeCorrect, IdsAlways, PTL DEF Spec, FreshId
-----------------------------------------------------------------------------
(* What a service holds, nothing if it is not there.                        *)
HeldBy(j) == IF j \in DOMAIN eventDB THEN eventDB[j] ELSE NoEvents

(* Before an event is entered its service holds what its main service held, *)
(* and every other service what it held.                                    *)
LEMMA WithServiceHolds ==
  ASSUME IsFun(eventDB), NEW k
  PROVE  /\ WithService(k)[k] = HeldBy(Redirected(k))
         /\ \A j \in DOMAIN WithService(k) \ {k} : WithService(k)[j] = HeldBy(j)
<1> DEFINE main   == Redirected(k)
           opened == Put(eventDB, main, NoEvents)
           db     == IF main \in DOMAIN eventDB THEN eventDB ELSE opened
           copied == Put(db, k, db[main])
<1>1. DOMAIN opened = DOMAIN eventDB \cup {main}
  BY PutDomain
<1>2. opened[main] = NoEvents
  BY PutValue
<1>3. \A y \in DOMAIN eventDB : y # main => opened[y] = eventDB[y]
  BY PutOther
<1> HIDE DEF opened
<1>4. DOMAIN db = DOMAIN eventDB \cup {main} /\ \A j \in DOMAIN db : db[j] = HeldBy(j)
  <2> HIDE DEF main
  <2> QED
    BY <1>1, <1>2, <1>3 DEF HeldBy
<1>5. DOMAIN copied = DOMAIN db \cup {k}
  BY PutDomain
<1>6. copied[k] = db[main]
  BY PutValue
<1>7. \A y \in DOMAIN db : y # k => copied[y] = db[y]
  BY PutOther
<1>8. WithService(k) = IF k \in DOMAIN tvmap THEN copied ELSE db
  BY DEF WithService, db, opened
<1>9. k \notin DOMAIN tvmap => main = k
  BY DEF Redirected
<1> HIDE DEF db, copied, main
<1>10. /\ WithService(k)[k] = HeldBy(main)
      /\ \A j \in DOMAIN WithService(k) \ {k} : WithService(k)[j] = HeldBy(j)
  BY <1>4, <1>5, <1>7, <1>8, <1>9, <1>6
<1> QED
  BY <1>10 DEF main

(* Two services hold no event in common.                                    *)
Apart(m, w) == \A s \in DOMAIN m.byTime, t \in DOMAIN w.byTime : m.byTime[s] # w.byTime[t]

(* Why only a redirection in an XMLTV document shares events: a service     *)
(* that a file loader is still filling shares none with any, and tables are *)
(* read before services.                                                    *)
Unshared(k) == source = "XMLTV" => k \notin DOMAIN tvmap

ApartInv ==
  /\ phase = "start" => eventDB = Empty
  /\ service # None => \A k \in DOMAIN eventDB : Apart(service.maps, eventDB[k])
  /\ \A k, j \in DOMAIN eventDB :
       (k # j /\ Unshared(k) /\ Unshared(j)) => Apart(eventDB[k], eventDB[j])

LEMMA ApartSymmetric == \A m, w : Apart(m, w) => Apart(w, m)
BY DEF Apart

LEMMA NoEventsApart == \A m : Apart(NoEvents, m)
BY DEF Apart, NoEvents, Empty

(* A new event is one no service holds.                                     *)
LEMMA EnterApart ==
  ASSUME NEW m, NEW w, Apart(m, w), IsMaps(w, heap), TypeOK,
         NEW id, NEW start, NEW n, n = Len(heap) + 1
  PROVE  Apart(Enter(m, id, start, n), w)
<1> DEFINE T == Put(m.byTime, start, n)
<1>1. DOMAIN T = DOMAIN m.byTime \cup {start}
  BY PutDomain
<1>2. T[start] = n
  BY PutValue
<1>3. \A s \in DOMAIN m.byTime : s # start => T[s] = m.byTime[s]
  BY PutOther
<1>4. Enter(m, id, start, n).byTime = T
  BY DEF Enter
<1>5. n \notin DOMAIN heap
  <2>1. DOMAIN heap = 1..Len(heap) /\ Len(heap) \in Nat
    BY LenProperties DEF TypeOK
  <2> QED
    BY <2>1
<1>6. \A t \in DOMAIN w.byTime : w.byTime[t] # n
  BY <1>5 DEF IsMaps, IsMap
<1> HIDE DEF T
<1> QED
  BY <1>1, <1>2, <1>3, <1>4, <1>6 DEF Apart

LEMMA StepApart == TypeOK /\ IdInv /\ ApartInv /\ [Next]_vars => ApartInv'
<1> SUFFICES ASSUME TypeOK, IdInv, ApartInv, [Next]_vars
             PROVE  ApartInv'
  OBVIOUS
<1>1. ASSUME UNCHANGED <<eventDB, service, tvmap, source>>, phase' # "start"
      PROVE  ApartInv'
  BY <1>1 DEF ApartInv, Unshared
<1>2. ASSUME NEW k \in Keys, ReadService(k) PROVE ApartInv'
  <2>1. service'.maps = NoEvents /\ UNCHANGED <<eventDB, tvmap, phase, source>>
    BY <1>2 DEF ReadService, store, tvmaps
  <2> QED
    BY <2>1, NoEventsApart DEF ApartInv, Unshared
<1>3. ASSUME NEW id \in FileIds, NEW start \in Times, NEW data \in V5Data \cup V7Data,
             ReadEvent(id, start, data)
      PROVE  ApartInv'
  <2> DEFINE n == Len(heap) + 1
  <2>1. service'.maps = Enter(service.maps, id, start, n)
    BY <1>3 DEF ReadEvent, TypeOK, IsService
  <2>2. \A k \in DOMAIN eventDB : IsMaps(eventDB[k], heap) /\ Apart(service.maps, eventDB[k])
    BY <1>3 DEF ReadEvent, TypeOK, ApartInv
  <2>3. \A k \in DOMAIN eventDB : Apart(Enter(service.maps, id, start, n), eventDB[k])
    BY <2>2, EnterApart
  <2>4. UNCHANGED <<eventDB, tvmap, phase, source>>
    BY <1>3 DEF ReadEvent, tvmaps
  <2> QED
    BY <2>1, <2>3, <2>4 DEF ApartInv, Unshared
<1>4. CASE StoreService
  <2> DEFINE db == Put(eventDB, service.key, service.maps)
  <2>1. eventDB' = db /\ UNCHANGED <<tvmap, source>> /\ service' = None /\ phase' # "start"
    BY <1>4 DEF StoreService, IdInv, OneLoader, tvmaps
  <2>2. DOMAIN db = DOMAIN eventDB \cup {service.key}
    BY PutDomain
  <2>3. db[service.key] = service.maps
    BY PutValue
  <2>4. \A y \in DOMAIN eventDB : y # service.key => db[y] = eventDB[y]
    BY PutOther
  <2>5. \A k \in DOMAIN eventDB : /\ Apart(service.maps, eventDB[k])
                                  /\ Apart(eventDB[k], service.maps)
    BY <1>4, ApartSymmetric DEF StoreService, ApartInv
  <2> HIDE DEF db
  <2> QED
    BY <2>1, <2>2, <2>4, <2>5, <2>3 DEF ApartInv, Unshared
<1>5. ASSUME NEW k \in Keys, LoadEventStruct(k) PROVE ApartInv'
  <2> DEFINE n    == Len(heap) + 1
             id   == NewId(programme.id)
             W    == WithService(k)
             maps == Enter(W[k], id, programme.start, n)
  <2>1. /\ eventDB' = [W EXCEPT ![k] = maps] /\ UNCHANGED <<tvmap, service, phase, source>>
        /\ programme # None
    BY <1>5 DEF LoadEventStruct, tvmaps
  <2>2. service = None /\ phase # "start" /\ source = "XMLTV"
    BY <2>1 DEF IdInv, OneLoader
  <2>3. k \in DOMAIN W /\ IsFun(W)
    BY WithServiceFacts DEF TypeOK
  <2>4. W[k] = HeldBy(Redirected(k)) /\ \A j \in DOMAIN W \ {k} : W[j] = HeldBy(j)
    BY WithServiceHolds DEF TypeOK
  <2>5. \A j : IsMaps(HeldBy(j), heap)
    BY NoEventsType DEF HeldBy, TypeOK
  <2>6. \A i, j : (i # j /\ i \notin DOMAIN tvmap /\ j \notin DOMAIN tvmap)
                    => Apart(HeldBy(i), HeldBy(j))
    BY <2>2, NoEventsApart, ApartSymmetric DEF HeldBy, ApartInv, Unshared
  <2>7. ASSUME k \notin DOMAIN tvmap, NEW j, j # k, j \notin DOMAIN tvmap
        PROVE  Apart(maps, HeldBy(j)) /\ Apart(HeldBy(j), maps)
    <3>1. W[k] = HeldBy(k)
      BY <2>4, <2>7 DEF Redirected
    <3>2. Apart(W[k], HeldBy(j))
      BY <2>6, <2>7, <3>1
    <3> HIDE DEF W, id
    <3>3. Apart(maps, HeldBy(j))
      BY <2>5, <3>2, EnterApart
    <3> QED
      BY <3>3, ApartSymmetric
  <2> HIDE DEF maps, W
  <2>8. DOMAIN eventDB' = DOMAIN W /\ eventDB'[k] = maps
    BY <2>1, <2>3
  <2>9. \A j \in DOMAIN W \ {k} : eventDB'[j] = HeldBy(j)
    BY <2>1, <2>3, <2>4
  <2>10. \A i, j \in DOMAIN eventDB' :
           (i # j /\ i \notin DOMAIN tvmap /\ j \notin DOMAIN tvmap)
             => Apart(eventDB'[i], eventDB'[j])
    BY <2>6, <2>7, <2>8, <2>9
  <2> QED
    BY <2>1, <2>2, <2>10 DEF ApartInv, Unshared
<1>6. ASSUME \/ OpenXmltv
             \/ \E format \in {"V5", "V7"}, order \in Orders : OpenFile(format, order)
      PROVE  ApartInv'
  <2>1. eventDB' = Empty /\ service' = None
    BY <1>6 DEF OpenXmltv, OpenFile, store, ApartInv, IdInv, OneLoader
  <2> QED
    BY <2>1 DEF ApartInv, Empty
<1>7. ASSUME \/ RefuseFile \/ EndServices \/ EndXmltv \/ EndTable
             \/ \E id \in TableIds, bytes \in TableBytes : ReadDescriptor(id, bytes)
             \/ \E ch \in Channels, name \in Names :
                  \/ ReadChannel(ch, name)
                  \/ \E k \in Keys : ReadChannelTsonid(ch, name, k)
             \/ \E ch \in Channels, stamp \in Stamps, title \in Titles \cup {<<>>} :
                  \/ SkipProgramme(ch, stamp, title)
                  \/ \E id \in XmlIds, desc \in Descriptions(ch) :
                       ReadProgramme(ch, stamp, id, title, desc)
      PROVE  ApartInv'
  BY <1>1, <1>7 DEF RefuseFile, EndServices, EndXmltv, EndTable,
     ReadDescriptor, ReadChannel, ReadChannelTsonid, SkipProgramme, ReadProgramme,
     NextElement, store, tvmaps
<1>8. CASE EndProgramme \/ UNCHANGED vars
  BY <1>8 DEF EndProgramme, vars, store, tvmaps, ApartInv, Unshared
<1> QED
  BY <1>2, <1>3, <1>4, <1>5, <1>6, <1>7, <1>8 DEF Next, LoadFile, LoadXmltv

LEMMA ApartAlways == Spec => []ApartInv
<1>1. Init => ApartInv
  BY DEF Init, ApartInv, Empty
<1> QED
  BY <1>1, TypeCorrect, IdsAlways, StepApart, PTL DEF Spec

(* Two services hold the same event only if the channel table redirects one *)
(* of them (epg.cpp 334-342), after any input: what save does to an event   *)
(* of one service is seen by no other but its copies.                       *)
THEOREM SharedOnlyByRedirection == Spec => []SharedOnlyByAlias
<1>1. ApartInv => SharedOnlyByAlias
  BY DEF ApartInv, Apart, Unshared, SharedOnlyByAlias
<1> QED
  BY <1>1, ApartAlways, PTL
-----------------------------------------------------------------------------
(* Why a stored programme stays where it was stored, with its title: the    *)
(* keys still to come touch no key that is done, and a descriptor under the *)
(* id of a title that fits is the descriptor of that title.  Why the title  *)
(* is the one that was read: the first key is served before any decoding,   *)
(* and a title escaped once is the same after each.                         *)
IsIndexed(table) ==
  \A id \in DOMAIN table :
    Announced(table[id].bytes) /\ Tight(table[id].bytes) /\ Crc(table[id].bytes) = id

Short == XmlShort(XmlDecode(programme.said))

Keeps(k) ==
  (\A j \in KeysOf(programme.channel) : k <= j) \/ EscapedOnce(programme.said)

Reached(k) ==
  /\ k \in DOMAIN eventDB /\ programme.start \in DOMAIN eventDB[k].byTime
  /\ LET e == heap[eventDB[k].byTime[programme.start]]
     IN /\ e.data[1] \in DOMAIN descriptors
        /\ Keeps(k) /\ Fits(Short) => descriptors[e.data[1]].bytes = Short

Untouched ==
  programme.title = programme.said /\ KeysOf(programme.channel) \subseteq programme.keys

FirstServed ==
  \E first \in KeysOf(programme.channel) \ programme.keys :
    first \in Nat /\ \A j \in KeysOf(programme.channel) : first <= j

TitleInv ==
  /\ programme.said \in Seq(Nat \ {0}) /\ programme.title \in Seq(Nat \ {0})
  /\ EscapedOnce(programme.said) =>
       programme.title \in {programme.said, DecodedInPlace(programme.said)}
  /\ programme.keys \subseteq KeysOf(programme.channel)
  /\ Untouched \/ FirstServed

ReachInv ==
  /\ phase = "start" => descriptors = Empty
  /\ phase = "table" => source = "V7"
  /\ source = "XMLTV" => IsIndexed(descriptors)
  /\ programme # None =>
       /\ TitleInv
       /\ \A k \in KeysOf(programme.channel) \ programme.keys : Reached(k)

(* What the descriptors of an XMLTV programme are.                          *)
LEMMA XmlDescriptors ==
  ASSUME NEW title \in Seq(Nat), \A i \in DOMAIN title : title[i] # 0,
         NEW desc \in Seq(Nat),
         NEW ds, ds = EventDescriptors(XmlShort(title), desc, "B")
  PROVE  /\ ds \in Seq(Seq(Nat)) /\ 1 \in DOMAIN ds /\ ds[1] = XmlShort(title)
         /\ \A i \in DOMAIN ds : Announced(ds[i]) /\ Tight(ds[i])
<1> DEFINE chunks == Chunks(desc)
           exts   == [i \in DOMAIN chunks |-> ExtendedEvent(i, chunks[i], "B")]
           short  == XmlShort(title)
<1>1. Announced(short) /\ Tight(short)
  BY XmlShortTight
<1>2. ds \in Seq(Seq(Nat)) /\ \A i \in DOMAIN ds : Announced(ds[i])
  BY <1>1, DescriptorsAnnounced
<1>3. chunks \in Seq(Seq(Nat))
  BY ChunksType
<1>4. DOMAIN exts = DOMAIN chunks /\ \A i \in DOMAIN chunks : Tight(exts[i])
  <2> HIDE DEF chunks
  <2>1. \A i \in DOMAIN chunks : i \in Nat \ {0} /\ chunks[i] \in Seq(Nat)
    BY <1>3
  <2> QED
    BY <2>1, ExtendedEventTight
<1>5. ds = <<short>> \o exts
  BY DEF EventDescriptors
<1>6. \E n \in Nat : DOMAIN exts = 1..n
  <2> HIDE DEF chunks, exts
  <2> QED
    BY <1>3, <1>4
<1> HIDE DEF chunks, exts, short
<1>7. /\ DOMAIN ds = 1..(Len(exts) + 1) /\ Len(exts) \in Nat /\ ds[1] = short
      /\ \A i \in 2..(Len(exts) + 1) : ds[i] = exts[i - 1] /\ i - 1 \in DOMAIN exts
  BY <1>5, <1>6
<1>8. \A i \in DOMAIN ds : i = 1 \/ i \in 2..(Len(exts) + 1)
  BY <1>7
<1>9. \A i \in DOMAIN ds : Tight(ds[i])
  BY <1>1, <1>4, <1>7, <1>8
<1> QED
  BY <1>2, <1>7, <1>9 DEF short

(* Entering descriptors keeps the table an index.                           *)
LEMMA InternIndexed ==
  ASSUME NEW table, IsIndexed(table),
         NEW ds \in Seq(Seq(Nat)),
         \A i \in DOMAIN ds : Announced(ds[i]) /\ Tight(ds[i])
  PROVE  IsIndexed(Intern(table, ds))
<1> DEFINE t == Intern(table, ds)
<1>1. DOMAIN t = DOMAIN table \cup {Crc(ds[i]) : i \in DOMAIN ds}
  BY DEF Intern
<1>2. \A id \in DOMAIN table : t[id].bytes = table[id].bytes
  BY DEF Intern
<1>3. \A id \in DOMAIN t \ DOMAIN table : t[id].bytes = ds[Min(Uses(ds, id))]
  BY DEF Intern
<1> HIDE DEF t
<1>4. \A id \in DOMAIN t \ DOMAIN table :
        Min(Uses(ds, id)) \in DOMAIN ds /\ Crc(ds[Min(Uses(ds, id))]) = id
  <2> TAKE id \in DOMAIN t \ DOMAIN table
  <2>1. Uses(ds, id) \in SUBSET Nat /\ Uses(ds, id) # {}
    BY <1>1 DEF Uses
  <2>2. Min(Uses(ds, id)) \in Uses(ds, id)
    BY <2>1, MinNat
  <2> QED
    BY <2>2 DEF Uses
<1> QED
  BY <1>1, <1>2, <1>3, <1>4 DEF IsIndexed, t

(* A title without zero bytes is still one when decoded.                    *)
LEMMA DecodedTitle ==
  ASSUME NEW s \in Seq(Nat \ {0})
  PROVE  /\ DecodedInPlace(s) \in Seq(Nat \ {0})
         /\ XmlDecode(s) \in Seq(Nat) /\ \A i \in DOMAIN XmlDecode(s) : XmlDecode(s)[i] # 0
<1>1. {32, 38, 60, 62} \subseteq Nat \ {0}
  OBVIOUS
<1>2. DecodedInPlace(s) \in Seq(Nat \ {0}) /\ XmlDecode(s) \in Seq(Nat \ {0})
  BY <1>1, DecodedFacts
<1> QED
  BY <1>2

(* The next key is served, and what it is served with.                      *)
LEMMA ServedWith ==
  ASSUME TypeOK, IdInv, ReachInv, NEW k \in Keys, LoadEventStruct(k)
  PROVE  /\ TitleInv'
         /\ Keeps(k) => XmlDecode(programme.title) = XmlDecode(programme.said)
         /\ programme'.said = programme.said /\ programme'.channel = programme.channel
         /\ programme'.start = programme.start /\ programme'.keys = programme.keys \ {k}
         /\ KeysOf(programme.channel)' = KeysOf(programme.channel)
<1>1. /\ programme # None /\ k \in programme.keys
      /\ \A other \in programme.keys : k <= other
      /\ programme' = Decoded(programme, k)
      /\ UNCHANGED <<xmltvmap, tvamap>>
  BY DEF LoadEventStruct, tvmaps, xmlmaps
<1>2. IsProgramme(programme) /\ TitleInv
  BY <1>1 DEF TypeOK, ReachInv
<1>3. /\ programme'.said = programme.said /\ programme'.channel = programme.channel
      /\ programme'.start = programme.start /\ programme'.keys = programme.keys \ {k}
      /\ programme'.title = DecodedInPlace(programme.title)
  BY <1>1, <1>2 DEF IsProgramme, Decoded
<1>4. KeysOf(programme.channel)' = KeysOf(programme.channel)
  BY <1>1, <1>3 DEF KeysOf, ChannelName
<1>5. k \in Nat
  BY StoreAssumption DEF StoreAssumption
<1>6. k \in KeysOf(programme.channel)
  BY <1>1, <1>2 DEF TitleInv
<1>7. Keeps(k) => XmlDecode(programme.title) = XmlDecode(programme.said)
  <2>1. CASE EscapedOnce(programme.said)
    <3>1. CASE programme.title = programme.said
      BY <3>1
    <3>2. CASE programme.title = DecodedInPlace(programme.said)
      BY <2>1, <3>2 DEF EscapedOnce, XmlDecode
    <3> QED
      BY <1>2, <2>1, <3>1, <3>2 DEF TitleInv
  <2>2. CASE \A j \in KeysOf(programme.channel) : k <= j
    <3>1. CASE Untouched
      BY <3>1 DEF Untouched
    <3>2. ASSUME FirstServed PROVE FALSE
      <4>1. PICK first \in KeysOf(programme.channel) \ programme.keys :
              first \in Nat /\ first <= k
        BY <1>6, <3>2 DEF FirstServed
      <4>2. k <= first /\ first # k
        BY <1>1, <2>2, <4>1
      <4> QED
        BY <1>5, <4>1, <4>2
    <3> QED
      BY <1>2, <3>1, <3>2 DEF TitleInv
  <2> QED
    BY <2>1, <2>2 DEF Keeps
<1>8. FirstServed'
  <2>1. \E first \in KeysOf(programme.channel) \ programme'.keys :
          first \in Nat /\ \A j \in KeysOf(programme.channel) : first <= j
    <3>1. CASE Untouched
      BY <1>1, <1>3, <1>5, <1>6, <3>1 DEF Untouched
    <3>2. CASE FirstServed
      BY <1>3, <3>2 DEF FirstServed
    <3> QED
      BY <1>2, <3>1, <3>2 DEF TitleInv
  <2> QED
    BY <1>4, <2>1 DEF FirstServed
<1>9. TitleInv'
  <2>1. programme'.title \in Seq(Nat \ {0})
    BY <1>2, <1>3, DecodedTitle DEF TitleInv
  <2>2. EscapedOnce(programme.said) =>
          programme'.title \in {programme.said, DecodedInPlace(programme.said)}
    BY <1>2, <1>3 DEF TitleInv, EscapedOnce
  <2> QED
    BY <1>2, <1>3, <1>4, <1>8, <2>1, <2>2 DEF TitleInv
<1> QED
  BY <1>3, <1>4, <1>7, <1>9

(* Where a programme was stored it stays while the next key is served.      *)
LEMMA StepReaches ==
  ASSUME TypeOK, IdInv, ReachInv, NEW k \in Keys, LoadEventStruct(k)
  PROVE  ReachInv'
<1> DEFINE n  == Len(heap) + 1
           id == NewId(programme.id)
           short == XmlShort(XmlDecode(programme.title))
           ds == EventDescriptors(XmlShort(XmlDecode(programme.title)),
                                  XmlDecode(programme.desc), "B")
           e  == [order |-> "B", id |-> id, start |-> programme.start,
                  inline |-> FALSE, data |-> Crcs(ds), status |-> 0,
                  behind |-> <<>>]
           W    == WithService(k)
           maps == Enter(W[k], id, programme.start, n)
<1>1. /\ programme # None /\ k \in programme.keys
      /\ descriptors' = Intern(descriptors, ds) /\ heap' = Append(heap, e)
      /\ eventDB' = [W EXCEPT ![k] = maps]
      /\ UNCHANGED <<phase, source, xmltvmap, tvamap>>
  BY DEF LoadEventStruct, tvmaps, xmlmaps
<1>2. /\ XmlDecode(programme.title) \in Seq(Nat) /\ XmlDecode(programme.desc) \in Seq(Nat)
      /\ programme.id \in Nat \cup {NoId}
      /\ \A i \in DOMAIN XmlDecode(programme.title) : XmlDecode(programme.title)[i] # 0
  <2>1. programme.title \in Seq(Nat \ {0}) /\ programme.desc \in Seq(Nat)
        /\ programme.id \in Nat \cup {NoId}
    BY <1>1 DEF TypeOK, IsProgramme, ReachInv, TitleInv
  <2> QED
    BY <2>1, DecodedTitle, DecodedType
<1>3. source = "XMLTV" /\ phase # "start" /\ IsIndexed(descriptors)
  BY <1>1 DEF ReachInv, IdInv, OneLoader
<1>4. /\ ds \in Seq(Seq(Nat)) /\ 1 \in DOMAIN ds /\ ds[1] = short
      /\ \A i \in DOMAIN ds : Announced(ds[i]) /\ Tight(ds[i])
  BY <1>2, XmlDescriptors
<1>5. /\ TitleInv' /\ programme'.said = programme.said
      /\ Keeps(k) => XmlDecode(programme.title) = XmlDecode(programme.said)
      /\ programme'.start = programme.start /\ programme'.keys = programme.keys \ {k}
      /\ programme'.channel = programme.channel
      /\ KeysOf(programme.channel)' = KeysOf(programme.channel)
  BY ServedWith
<1>6. e.data[1] = Crc(short)
  BY <1>4 DEF Crcs
<1>7. e \in EventData
  <2>1. id \in 0..(IdMod - 1)
    BY <1>2, NewIdFacts
  <2> QED
    BY <1>1, <2>1, StructType
<1> HIDE DEF ds, e
<1>8. /\ IsIndexed(descriptors')
      /\ DOMAIN descriptors \subseteq DOMAIN descriptors'
      /\ Crc(short) \in DOMAIN descriptors'
      /\ \A c \in DOMAIN descriptors : descriptors'[c].bytes = descriptors[c].bytes
  <2>1. IsIndexed(descriptors')
    BY <1>1, <1>3, <1>4, InternIndexed
  <2>2. /\ DOMAIN descriptors \subseteq DOMAIN descriptors'
        /\ \A i \in DOMAIN Crcs(ds) : Crcs(ds)[i] \in DOMAIN descriptors'
        /\ \A c \in DOMAIN descriptors : descriptors'[c].bytes = descriptors[c].bytes
    BY <1>1, InternKeeps
  <2>3. 1 \in DOMAIN Crcs(ds) /\ Crcs(ds)[1] = Crc(short)
    BY <1>4 DEF Crcs
  <2> QED
    BY <2>1, <2>2, <2>3
<1>9. Fits(short) => descriptors'[Crc(short)].bytes = short
  <2> SUFFICES ASSUME Fits(short) PROVE descriptors'[Crc(short)].bytes = short
    OBVIOUS
  <2> DEFINE b == descriptors'[Crc(short)].bytes
  <2>1. /\ Announced(short) /\ Fits(short) /\ short[1] = ShortTag /\ short[2] >= 6
        /\ short[short[2] + 2] = 0
    BY <1>2, XmlShortTight
  <2>2. Announced(b) /\ Tight(b) /\ Crc(b) = Crc(short)
    BY <1>8 DEF IsIndexed
  <2> HIDE DEF b, short
  <2>3. b = short
    BY <2>1, <2>2, SameCrcSame
  <2> QED
    BY <2>3 DEF b
<1>10. /\ heap'[n] = e /\ \A j \in DOMAIN heap : heap'[j] = heap[j]
  BY <1>1, <1>7, HeapGrows
<1>11. k \in DOMAIN W /\ IsFun(W) /\ DOMAIN eventDB \subseteq DOMAIN W
  BY WithServiceFacts DEF TypeOK
<1>12. \A j \in DOMAIN W \ {k} : W[j] = HeldBy(j)
  BY WithServiceHolds DEF TypeOK
<1>13. programme.start \in DOMAIN maps.byTime /\ maps.byTime[programme.start] = n
  <2> DEFINE T == Put(W[k].byTime, programme.start, n)
  <2>1. DOMAIN T = DOMAIN W[k].byTime \cup {programme.start}
    BY PutDomain
  <2>2. T[programme.start] = n
    BY PutValue
  <2>3. maps.byTime = T
    BY DEF Enter
  <2> HIDE DEF T, maps
  <2> QED
    BY <2>1, <2>2, <2>3
<1>14. Keeps(k) => short = Short
  BY <1>5 DEF Short
<1>15. Short' = Short /\ \A j : Keeps(j)' = Keeps(j)
  <2>1. Short' = Short
    BY <1>5 DEF Short
  <2>2. \A j : Keeps(j)' = Keeps(j)
    BY <1>5 DEF Keeps
  <2> QED
    BY <2>1, <2>2
<1> HIDE DEF W, maps, n, short
<1>16. /\ DOMAIN eventDB' = DOMAIN W /\ eventDB'[k] = maps
       /\ \A j \in DOMAIN eventDB \ {k} : eventDB'[j] = eventDB[j]
  BY <1>1, <1>11, <1>12 DEF HeldBy
<1>17. Reached(k)'
  <2> DEFINE at == eventDB'[k].byTime[programme.start]
  <2>1. /\ k \in DOMAIN eventDB' /\ programme'.start \in DOMAIN eventDB'[k].byTime
        /\ at = n
    BY <1>5, <1>11, <1>13, <1>16
  <2>2. heap'[at].data[1] = Crc(short)
    BY <1>6, <1>10, <2>1
  <2>3. Keeps(k) /\ Fits(Short) => descriptors'[Crc(short)].bytes = Short
    BY <1>9, <1>14
  <2> HIDE DEF at
  <2>4. Keeps(k)' /\ Fits(Short)' => descriptors'[Crc(short)].bytes = Short'
    BY <1>15, <2>3
  <2> QED
    BY <1>5, <1>8, <2>1, <2>2, <2>4 DEF Reached, at
<1>18. ASSUME NEW j, j # k, Reached(j) PROVE Reached(j)'
  <2> DEFINE at == eventDB[j].byTime[programme.start]
  <2>1. /\ j \in DOMAIN eventDB' /\ eventDB'[j] = eventDB[j]
        /\ programme.start \in DOMAIN eventDB[j].byTime
    BY <1>11, <1>16, <1>18 DEF Reached
  <2>2. at \in DOMAIN heap
    BY <1>18, <2>1 DEF TypeOK, IsMaps, IsMap, Reached
  <2>3. heap'[at] = heap[at]
    BY <1>10, <2>2
  <2>4. /\ heap[at].data[1] \in DOMAIN descriptors
        /\ Keeps(j) /\ Fits(Short) => descriptors[heap[at].data[1]].bytes = Short
    BY <1>18 DEF Reached
  <2>5. Keeps(j)' /\ Fits(Short)' => descriptors'[heap[at].data[1]].bytes = Short'
    BY <1>8, <1>15, <2>4
  <2> HIDE DEF at
  <2> QED
    BY <1>5, <1>8, <2>1, <2>3, <2>4, <2>5 DEF Reached, at
<1>19. \A j \in KeysOf(programme.channel)' \ programme'.keys : Reached(j)'
  BY <1>1, <1>5, <1>17, <1>18 DEF ReachInv
<1>20. phase' = "table" => source' = "V7"
  BY <1>1 DEF ReachInv
<1> QED
  BY <1>1, <1>3, <1>5, <1>8, <1>19, <1>20 DEF ReachInv

LEMMA StepReachInv == TypeOK /\ IdInv /\ ReachInv /\ [Next]_vars => ReachInv'
<1> SUFFICES ASSUME TypeOK, IdInv, ReachInv, [Next]_vars
             PROVE  ReachInv'
  OBVIOUS
<1>1. ASSUME programme' = None, UNCHANGED <<source, descriptors>>, phase' # "start",
             phase' = "table" => source' = "V7"
      PROVE  ReachInv'
  BY <1>1 DEF ReachInv
<1>2. ASSUME UNCHANGED <<phase, source, descriptors, programme, xmltvmap, tvamap,
                         heap, eventDB>>
      PROVE  ReachInv'
  BY <1>2 DEF ReachInv, TitleInv, Untouched, FirstServed, Reached, Keeps, Short, KeysOf,
              ChannelName
<1>3. ASSUME NEW k \in Keys, ReadService(k) PROVE ReachInv'
  BY <1>2, <1>3 DEF ReadService, store, tvmaps, xmlmaps
<1>4. ASSUME service # None, programme' = programme,
             UNCHANGED <<phase, source, descriptors>>
      PROVE  ReachInv'
  <2>1. programme = None /\ phase # "start"
    BY <1>4 DEF IdInv, OneLoader
  <2> QED
    BY <1>1, <1>4, <2>1 DEF ReachInv
<1>5. ASSUME NEW id \in TableIds, NEW bytes \in TableBytes, ReadDescriptor(id, bytes)
      PROVE  ReachInv'
  <2>1. phase = "table" /\ phase' = phase /\ source' = source /\ programme' = programme
    BY <1>5 DEF ReadDescriptor
  <2>2. source = "V7" /\ programme = None
    BY <2>1 DEF ReachInv, IdInv, OneLoader
  <2> QED
    BY <2>1, <2>2 DEF ReachInv
<1>6. CASE OpenXmltv
  BY <1>6 DEF OpenXmltv, store, ReachInv, IdInv, OneLoader, IsIndexed, Empty
<1>7. ASSUME NEW format \in {"V5", "V7"}, NEW order \in Orders, OpenFile(format, order)
      PROVE  ReachInv'
  BY <1>7 DEF OpenFile, store, ReachInv, IdInv, OneLoader
<1>8. CASE EndServices
  <2>1. programme = None /\ programme' = programme /\ source' = source
        /\ descriptors' = descriptors /\ phase' # "start"
        /\ (phase' = "table" => source' = "V7")
    BY <1>8 DEF EndServices, store, IdInv, OneLoader
  <2> QED
    BY <1>1, <2>1
<1>9. CASE RefuseFile
  BY <1>9 DEF RefuseFile, store, ReachInv, IdInv, OneLoader
<1>10. CASE EndTable
  BY <1>10 DEF EndTable, store, ReachInv, IdInv, OneLoader
<1>11. ASSUME NEW ch \in Channels, NEW stamp \in Stamps, NEW title \in Titles \cup {<<>>},
              NEW id \in XmlIds, NEW desc \in Descriptions(ch),
              ReadProgramme(ch, stamp, id, title, desc)
       PROVE  ReachInv'
  <2>1. /\ programme'.channel = ch /\ programme'.said = title
        /\ programme'.title = title /\ programme'.keys = KeysOf(ch)
        /\ UNCHANGED <<phase, source, descriptors, tvamap, xmltvmap>>
        /\ phase = "items"
    BY <1>11 DEF ReadProgramme, NextElement, store, tvmaps, xmlmaps
  <2>2. title \in Seq(Nat \ {0})
    <3>1. CASE title = <<>>
      BY <3>1
    <3>2. CASE title \in Titles
      <4>1. title \in Seq(Nat) /\ \A i \in DOMAIN title : title[i] # 0
        BY <3>2, StoreAssumption DEF StoreAssumption
      <4> QED
        BY <4>1
    <3> QED
      BY <3>1, <3>2
  <2>3. KeysOf(programme.channel)' = KeysOf(ch)
    BY <2>1 DEF KeysOf, ChannelName
  <2>4. TitleInv'
    BY <2>1, <2>2, <2>3 DEF TitleInv, Untouched
  <2> QED
    BY <2>1, <2>3, <2>4 DEF ReachInv
<1>12. ASSUME NextElement, UNCHANGED <<phase, source, descriptors, programme>>
       PROVE  ReachInv'
  BY <1>1, <1>12 DEF NextElement, ReachInv
<1>13. CASE EndProgramme
  BY <1>1, <1>13 DEF EndProgramme, store, ReachInv, IdInv, OneLoader
<1>14. CASE EndXmltv
  BY <1>1, <1>14 DEF EndXmltv, store
<1>15. CASE StoreService
  BY <1>4, <1>15 DEF StoreService
<1>16. ASSUME NEW id \in FileIds, NEW start \in Times, NEW data \in V5Data \cup V7Data,
              ReadEvent(id, start, data)
       PROVE  ReachInv'
  BY <1>4, <1>16 DEF ReadEvent
<1>17. ASSUME \/ \E ch \in Channels, name \in Names :
                   \/ ReadChannel(ch, name)
                   \/ \E k \in Keys : ReadChannelTsonid(ch, name, k)
              \/ \E ch \in Channels, stamp \in Stamps, title \in Titles \cup {<<>>} :
                   SkipProgramme(ch, stamp, title)
       PROVE  ReachInv'
  BY <1>12, <1>17 DEF ReadChannel, ReadChannelTsonid, SkipProgramme, store
<1>18. CASE UNCHANGED vars
  BY <1>2, <1>18 DEF vars
<1>19. ASSUME NEW k \in Keys, LoadEventStruct(k) PROVE ReachInv'
  BY <1>19, StepReaches
<1>20. CASE LoadFile
  BY <1>3, <1>5, <1>7, <1>8, <1>9, <1>10, <1>15, <1>16, <1>20 DEF LoadFile
<1>21. CASE LoadXmltv
  BY <1>6, <1>11, <1>13, <1>14, <1>17, <1>19, <1>21 DEF LoadXmltv
<1> QED
  BY <1>18, <1>20, <1>21 DEF Next

LEMMA ReachAlways == Spec => []ReachInv
<1>1. Init => ReachInv
  BY DEF Init, ReachInv
<1> QED
  BY <1>1, TypeCorrect, IdsAlways, StepReachInv, PTL DEF Spec

(* However many keys a name has, and in whatever order they and their main  *)
(* services are filled, every one of them holds the programme when the loop *)
(* over tvamap is done, and the first of them holds its title, if that is   *)
(* not overlong; so do the others if no ampersand of the title was escaped  *)
(* twice, though the title is decoded in place between one key and the next *)
(* (epg.cpp 334-342, 354-356, 399-407, 752-758).                            *)
THEOREM ProgrammesReachTheirKeys == Spec => []ProgrammeReachesItsKeys
<1>1. ReachInv => ProgrammeReachesItsKeys
  <2> SUFFICES ASSUME ReachInv, programme # None, programme.keys = {},
                      NEW k \in KeysOf(programme.channel)
               PROVE  /\ k \in DOMAIN eventDB
                      /\ programme.start \in DOMAIN eventDB[k].byTime
                      /\ Keeps(k) /\ Fits(Short) =>
                           descriptors[heap[eventDB[k].byTime[programme.start]].data[1]].bytes
                             = Short
    BY DEF ProgrammeReachesItsKeys, Keeps, Short
  <2> QED
    BY DEF ReachInv, Reached
<1> QED
  BY <1>1, ReachAlways, PTL
-----------------------------------------------------------------------------
(* Why the counts of the source's table are exact: an XMLTV document makes  *)
(* every event of the heap and every entry of the table, together.          *)
CountInv ==
  /\ phase = "start" => heap = <<>> /\ descriptors = Empty
  /\ \A id : IsFiniteSet(Places(HeapIds, id))
  /\ source = "XMLTV" => Counts(descriptors, HeapIds)

(* An event that is added adds its list of ids.                             *)
LEMMA HeapIdsGrow ==
  ASSUME TypeOK, NEW e \in EventData, heap' = Append(heap, e)
  PROVE  IsAdded(Len(heap) + 1, HeapIds, HeapIds') /\ HeapIds'[Len(heap) + 1] = e.data
<1> DEFINE n == Len(heap) + 1
<1>1. heap \in Seq(EventData)
  BY DEF TypeOK
<1>2. DOMAIN heap' = DOMAIN heap \cup {n} /\ n \notin DOMAIN heap
  <2>1. /\ DOMAIN heap = 1..Len(heap) /\ DOMAIN heap' = 1..Len(heap')
        /\ Len(heap) \in Nat /\ Len(heap') = Len(heap) + 1
    BY <1>1, AppendProperties, LenProperties
  <2> QED
    BY <2>1
<1>3. heap'[n] = e /\ \A j \in DOMAIN heap : heap'[j] = heap[j]
  BY HeapGrows
<1> QED
  BY <1>2, <1>3 DEF IsAdded, HeapIds

LEMMA StepCounts == TypeOK /\ IdInv /\ ReachInv /\ CountInv /\ [Next]_vars => CountInv'
<1> SUFFICES ASSUME TypeOK, IdInv, ReachInv, CountInv, [Next]_vars
             PROVE  CountInv'
  OBVIOUS
<1>1. ASSUME UNCHANGED <<heap, source, descriptors>>, phase' = phase \/ phase' # "start"
      PROVE  CountInv'
  BY <1>1 DEF CountInv, HeapIds
<1>2. ASSUME NEW id \in FileIds, NEW start \in Times, NEW data \in V5Data \cup V7Data,
             ReadEvent(id, start, data)
      PROVE  CountInv'
  <2> PICK s \in Surroundings : heap' = Append(heap, FileEvent(id, start, data, s))
    BY <1>2, EventRead
  <2> DEFINE e == FileEvent(id, start, data, s)
             n == Len(heap) + 1
  <2>1. e \in EventData /\ data \in Seq(Seq(Nat))
    BY FileEventType, StoreAssumption DEF StoreAssumption
  <2>2. heap' = Append(heap, e) /\ e.data = data
    BY DEF FileEvent
  <2> HIDE DEF e
  <2>3. IsAdded(n, HeapIds, HeapIds') /\ HeapIds'[n] = data
    BY <2>1, <2>2, HeapIdsGrow
  <2> HIDE DEF n
  <2>4. \A c : IsFiniteSet(Places(HeapIds', c))
    <3>1. IsFiniteSet(DOMAIN data)
      BY <2>1, ListIsFinite
    <3>2. \A c : IsFiniteSet(Places(HeapIds, c))
      BY DEF CountInv
    <3> QED
      BY <2>3, <3>1, <3>2, ReferencesGrow
  <2>5. \A c : IsFiniteSet(Places(HeapIds, c)')
    BY <2>4
  <2>6. service # None /\ UNCHANGED <<phase, source>>
    BY <1>2 DEF ReadEvent
  <2>7. phase # "start" /\ source # "XMLTV"
    BY <2>6 DEF IdInv, OneLoader
  <2> QED
    BY <2>5, <2>6, <2>7 DEF CountInv
<1>3. ASSUME NEW id \in TableIds, NEW bytes \in TableBytes, ReadDescriptor(id, bytes)
      PROVE  CountInv'
  <2>1. /\ phase = "table" /\ UNCHANGED <<phase, source, heap>>
    BY <1>3 DEF ReadDescriptor
  <2>2. source # "XMLTV"
    BY <2>1 DEF ReachInv
  <2> QED
    BY <2>1, <2>2 DEF CountInv, HeapIds
<1>4. ASSUME NEW k \in Keys, LoadEventStruct(k) PROVE CountInv'
  <2> DEFINE n  == Len(heap) + 1
             id == NewId(programme.id)
             ds == EventDescriptors(XmlShort(XmlDecode(programme.title)),
                                    XmlDecode(programme.desc), "B")
             e  == [order |-> "B", id |-> id, start |-> programme.start,
                    inline |-> FALSE, data |-> Crcs(ds), status |-> 0,
                    behind |-> <<>>]
  <2>1. /\ programme # None /\ programme.id \in Nat \cup {NoId}
        /\ XmlDecode(programme.title) \in Seq(Nat)
        /\ XmlDecode(programme.desc) \in Seq(Nat)
        /\ \A i \in DOMAIN XmlDecode(programme.title) : XmlDecode(programme.title)[i] # 0
    <3>1. /\ programme # None /\ programme.id \in Nat \cup {NoId}
          /\ programme.title \in Seq(Nat \ {0}) /\ programme.desc \in Seq(Nat)
      BY <1>4 DEF LoadEventStruct, TypeOK, IsProgramme, ReachInv, TitleInv
    <3> QED
      BY <3>1, DecodedTitle, DecodedType
  <2>2. id \in 0..(IdMod - 1)
    BY <2>1, NewIdFacts
  <2>3. e \in EventData /\ e.data = Crcs(ds)
    BY <2>1, <2>2, StructType
  <2>4. /\ heap' = Append(heap, e) /\ descriptors' = Intern(descriptors, ds)
        /\ UNCHANGED <<phase, source>>
    BY <1>4 DEF LoadEventStruct
  <2>5. ds \in Seq(Seq(Nat)) /\ \A i \in DOMAIN ds : Announced(ds[i])
    BY <2>1, XmlDescriptors
  <2> HIDE DEF ds, e
  <2>6. Crcs(ds) \in Seq(Seq(Nat))
    BY <2>5, CrcsType
  <2>7. IsFiniteSet(DOMAIN ds)
    BY <2>5, ListIsFinite
  <2>8. IsAdded(n, HeapIds, HeapIds') /\ HeapIds'[n] = Crcs(ds)
    BY <2>3, <2>4, HeapIdsGrow
  <2>9. source = "XMLTV" /\ phase # "start"
    BY <2>1 DEF IdInv, OneLoader
  <2>10. (\A c : IsFiniteSet(Places(HeapIds, c))) /\ Counts(descriptors, HeapIds)
    BY <2>9 DEF CountInv
  <2> HIDE DEF n
  <2>11. /\ Counts(descriptors', HeapIds') /\ \A c : IsFiniteSet(Places(HeapIds', c))
    <3>1. Counts(Intern(descriptors, ds), HeapIds')
      BY <2>7, <2>8, <2>10, InternCounts
    <3>2. \A c : IsFiniteSet(Places(HeapIds', c))
      BY <2>7, <2>8, <2>10, InternCounts
    <3> QED
      BY <2>4, <3>1, <3>2
  <2>12. Counts(descriptors, HeapIds)' /\ \A c : IsFiniteSet(Places(HeapIds, c)')
    BY <2>11 DEF Counts
  <2> QED
    BY <2>4, <2>9, <2>12 DEF CountInv
<1>5. CASE OpenXmltv
  <2>1. heap = <<>> /\ descriptors = Empty /\ heap' = heap /\ descriptors' = descriptors
        /\ phase' # "start"
    BY <1>5 DEF OpenXmltv, store, CountInv
  <2>2. Counts(descriptors, HeapIds)'
    BY <2>1 DEF Counts, HeapIds, Empty
  <2> QED
    BY <2>1, <2>2 DEF CountInv, HeapIds
<1>6. ASSUME NEW format \in {"V5", "V7"}, NEW order \in Orders, OpenFile(format, order)
      PROVE  CountInv'
  BY <1>6 DEF OpenFile, store, CountInv, HeapIds
<1>7. CASE EndServices
  BY <1>1, <1>7 DEF EndServices, store
<1>8. ASSUME \/ RefuseFile \/ StoreService \/ EndTable \/ EndProgramme \/ EndXmltv
             \/ UNCHANGED vars \/ \E k \in Keys : ReadService(k)
      PROVE  CountInv'
  BY <1>1, <1>8 DEF RefuseFile, StoreService, EndTable, EndProgramme, EndXmltv,
     ReadService, vars, store
<1>9. ASSUME \/ \E ch \in Channels, name \in Names :
                  \/ ReadChannel(ch, name)
                  \/ \E k \in Keys : ReadChannelTsonid(ch, name, k)
             \/ \E ch \in Channels, stamp \in Stamps, title \in Titles \cup {<<>>} :
                  \/ SkipProgramme(ch, stamp, title)
                  \/ \E id \in XmlIds, desc \in Descriptions(ch) :
                       ReadProgramme(ch, stamp, id, title, desc)
      PROVE  CountInv'
  BY <1>1, <1>9 DEF ReadChannel, ReadChannelTsonid, SkipProgramme, ReadProgramme, store
<1>10. CASE LoadFile
  BY <1>2, <1>3, <1>6, <1>7, <1>8, <1>10 DEF LoadFile
<1>11. CASE LoadXmltv
  BY <1>4, <1>5, <1>8, <1>9, <1>11 DEF LoadXmltv
<1> QED
  BY <1>8, <1>10, <1>11 DEF Next

(* Sharing descriptors by content never loses count: after any document the *)
(* reference count of each descriptor is the number of references to it,    *)
(* as far as 16 bits hold it, and every reference has its descriptor        *)
(* (epg.cpp 399-407, 451-459).                                              *)
THEOREM SourceCountsAlwaysExact == Spec => []SourceCountsExact
<1>1. Init => CountInv
  <2> SUFFICES ASSUME Init PROVE CountInv
    OBVIOUS
  <2>1. heap = <<>> /\ descriptors = Empty /\ source = "none"
    BY DEF Init
  <2>2. \A id : Places(HeapIds, id) = {}
    BY <2>1 DEF Places, HeapIds
  <2> QED
    BY <2>1, <2>2, FS_EmptySet DEF CountInv
<1>2. CountInv => SourceCountsExact
  BY DEF CountInv, Counts, HeapIds, SourceCountsExact
<1> QED
  BY <1>1, <1>2, TypeCorrect, IdsAlways, ReachAlways, StepCounts, PTL DEF Spec
-----------------------------------------------------------------------------
(* Loading a table line by line: each line starts from what the line before *)
(* it left.                                                                 *)
IsLoading(f, t, lines, n) ==
  f = [i \in 0..n |-> IF i = 0 THEN Cleared(t) ELSE EnterLine(f[i - 1], lines[i])]

LEMMA LoadingExists ==
  ASSUME NEW t, NEW lines, NEW n \in Nat
  PROVE  \E f : IsLoading(f, t, lines, n)
<1> DEFINE S == {m \in Nat : ~\E f : IsLoading(f, t, lines, m)}
<1>1. ASSUME S # {} PROVE FALSE
  <2>1. PICK m \in S : \A y \in S : m <= y
    <3>1. Min(S) \in S /\ \A y \in S : Min(S) <= y
      BY <1>1, MinNat
    <3> QED
      BY <3>1
  <2>2. CASE m = 0
    <3> DEFINE f == [i \in 0..0 |-> Cleared(t)]
    <3>1. IsLoading(f, t, lines, 0)
      BY DEF IsLoading
    <3> QED
      BY <2>1, <2>2, <3>1
  <2>3. CASE m # 0
    <3>1. m \in Nat /\ m - 1 \in Nat /\ m - 1 \notin S
      BY <2>1, <2>3
    <3>2. PICK f : IsLoading(f, t, lines, m - 1)
      BY <3>1
    <3> DEFINE g == [i \in 0..m |-> IF i = m THEN EnterLine(f[m - 1], lines[m]) ELSE f[i]]
               h == [i \in 0..m |-> IF i = 0 THEN Cleared(t)
                                    ELSE EnterLine(g[i - 1], lines[i])]
    <3>3. \A i \in 0..(m - 1) :
            f[i] = IF i = 0 THEN Cleared(t) ELSE EnterLine(f[i - 1], lines[i])
      BY <3>2 DEF IsLoading
    <3>4. \A i \in 0..(m - 1) : i # m /\ i \in 0..m /\ g[i] = f[i]
      BY <3>1
    <3>5. \A i \in 0..m : i # m => i \in 0..(m - 1)
      BY <3>1
    <3>6. \A i \in 0..m : i # 0 => i - 1 \in 0..(m - 1)
      BY <3>1
    <3>7. \A i \in 0..m : g[i] = h[i]
      <4> TAKE i \in 0..m
      <4>1. CASE i = m
        <5>1. g[i] = EnterLine(f[m - 1], lines[m]) /\ h[i] = EnterLine(g[m - 1], lines[m])
          BY <2>3, <4>1
        <5>2. g[m - 1] = f[m - 1]
          BY <3>4, <3>6, <2>3, <4>1
        <5> QED
          BY <5>1, <5>2
      <4>2. CASE i # m
        <5>1. i \in 0..(m - 1) /\ g[i] = f[i]
          BY <3>4, <3>5, <4>2
        <5>2. CASE i = 0
          BY <3>3, <5>1, <5>2
        <5>3. CASE i # 0
          <6>1. g[i - 1] = f[i - 1]
            BY <3>4, <3>6, <5>3
          <6> QED
            BY <3>3, <5>1, <5>3, <6>1
        <5> QED
          BY <5>2, <5>3
      <4> QED
        BY <4>1, <4>2
    <3>8. DOMAIN g = 0..m /\ DOMAIN h = 0..m
      OBVIOUS
    <3>9. g = h
      BY <3>7, <3>8
    <3>10. IsLoading(g, t, lines, m)
      BY <3>9 DEF IsLoading
    <3> QED
      BY <2>1, <3>10
  <2> QED
    BY <2>2, <2>3
<1> QED
  BY <1>1

LEMMA LoadedLines ==
  ASSUME NEW t, NEW lines, Len(lines) \in Nat
  PROVE  /\ Loaded(t, lines)[0] = Cleared(t)
         /\ \A i \in 1..Len(lines) :
              Loaded(t, lines)[i] = EnterLine(Loaded(t, lines)[i - 1], lines[i])
<1> DEFINE f == Loaded(t, lines)
<1>1. f = CHOOSE g : IsLoading(g, t, lines, Len(lines))
  BY DEF Loaded, IsLoading
<1>2. IsLoading(f, t, lines, Len(lines))
  BY <1>1, LoadingExists
<1> HIDE DEF f
<1>3. \A i \in 0..Len(lines) :
        f[i] = IF i = 0 THEN Cleared(t) ELSE EnterLine(f[i - 1], lines[i])
  BY <1>2 DEF IsLoading
<1> QED
  BY <1>3 DEF f

(* Every key a table redirects is listed with a name, and so are the keys   *)
(* it redirects to and those its names stand for.                           *)
Listed(t) ==
  /\ \A k \in DOMAIN t.tvmap : k \in DOMAIN t.tvamap /\ t.tvmap[k] \in DOMAIN t.tvamap
  /\ \A name \in DOMAIN t.tvnmap : t.tvnmap[name] \in DOMAIN t.tvamap

LEMMA ClearedListed == \A t : Listed(Cleared(t))
BY DEF Listed, Cleared, Empty

LEMMA LineListed ==
  ASSUME NEW t, NEW line, Listed(t)
  PROVE  Listed(EnterLine(t, line))
<1> DEFINE name  == Normal(line.name)
           taken == name \in DOMAIN t.tvnmap /\ Differ(t.tvnmap[name], line.key)
           A == Put(t.tvamap, line.key, name)
           N == Put(t.tvnmap, name, line.key)
           M == Put(t.tvmap, line.key, t.tvnmap[name])
           u == EnterLine(t, line)
<1>1. u.tvamap = A /\ u.tvnmap = (IF taken THEN t.tvnmap ELSE N)
      /\ u.tvmap = (IF taken THEN M ELSE t.tvmap)
  BY DEF EnterLine
<1>2. DOMAIN A = DOMAIN t.tvamap \cup {line.key} /\ DOMAIN N = DOMAIN t.tvnmap \cup {name}
      /\ DOMAIN M = DOMAIN t.tvmap \cup {line.key}
  BY PutDomain
<1>3. N[name] = line.key /\ M[line.key] = t.tvnmap[name]
  BY PutValue
<1>4. (\A x \in DOMAIN t.tvnmap : x # name => N[x] = t.tvnmap[x])
      /\ (\A x \in DOMAIN t.tvmap : x # line.key => M[x] = t.tvmap[x])
  BY PutOther
<1>5. taken => name \in DOMAIN t.tvnmap
  OBVIOUS
<1> HIDE DEF A, N, M, u, taken, name
<1>6. \A k \in DOMAIN u.tvmap : k \in DOMAIN u.tvamap /\ u.tvmap[k] \in DOMAIN u.tvamap
  BY <1>1, <1>2, <1>3, <1>4, <1>5 DEF Listed
<1>7. \A x \in DOMAIN u.tvnmap : u.tvnmap[x] \in DOMAIN u.tvamap
  BY <1>1, <1>2, <1>3, <1>4 DEF Listed
<1> QED
  BY <1>6, <1>7 DEF Listed, u

LEMMA LoadedListed ==
  ASSUME NEW t, NEW lines, Len(lines) \in Nat
  PROVE  Listed(LoadLines(t, lines))
<1> DEFINE S == {i \in 0..Len(lines) : ~Listed(Loaded(t, lines)[i])}
<1>1. Loaded(t, lines)[0] = Cleared(t)
  BY LoadedLines
<1>2. \A i \in 1..Len(lines) :
        Loaded(t, lines)[i] = EnterLine(Loaded(t, lines)[i - 1], lines[i])
  BY LoadedLines
<1>3. ASSUME S # {} PROVE FALSE
  <2>1. S \in SUBSET Nat
    OBVIOUS
  <2>2. Min(S) \in S /\ \A y \in S : Min(S) <= y
    <3> HIDE DEF S
    <3> QED
      BY <1>3, <2>1, MinNat
  <2>3. PICK m \in S : \A y \in S : m <= y
    BY <2>2
  <2>4. m # 0
    BY <1>1, <2>3, ClearedListed
  <2>5. m \in 1..Len(lines) /\ m - 1 \in 0..Len(lines) /\ m - 1 \notin S
    BY <2>3, <2>4
  <2> QED
    BY <1>2, <2>3, <2>5, LineListed
<1> QED
  BY <1>3 DEF LoadLines

(* Why no start time is lost: what a redirected service has, its main       *)
(* service has, or is still to get from the programme being stored.         *)
Tables == [tvmap |-> tvmap, tvnmap |-> tvnmap, tvamap |-> tvamap]

ToCome(j) == IF programme # None /\ j \in programme.keys THEN {programme.start} ELSE {}

KeysNamed ==
  programme # None =>
    \A k \in programme.keys :
      k \in DOMAIN tvamap /\ tvamap[k] = ChannelName(programme.channel)

MainHasAll ==
  source = "XMLTV" =>
    \A k \in DOMAIN eventDB \cap DOMAIN tvmap :
      Follows(k, tvmap[k]) =>
        DOMAIN eventDB[k].byTime \subseteq DOMAIN HeldBy(tvmap[k]).byTime \cup ToCome(tvmap[k])

MainInv ==
  /\ \A k \in DOMAIN tvmap : k \in DOMAIN tvamap /\ tvmap[k] \in DOMAIN tvamap
  /\ KeysNamed /\ MainHasAll

LEMMA StructStarts ==
  ASSUME TypeOK, NEW k \in Keys, LoadEventStruct(k)
  PROVE  /\ k \in DOMAIN eventDB'
         /\ DOMAIN eventDB'[k].byTime
              = DOMAIN HeldBy(Redirected(k)).byTime \cup {programme.start}
         /\ \A j : j # k => HeldBy(j)' = HeldBy(j)
         /\ DOMAIN eventDB \subseteq DOMAIN eventDB'
         /\ DOMAIN eventDB' = DOMAIN eventDB \cup {k, Redirected(k)}
<1> DEFINE id   == NewId(programme.id)
           W    == WithService(k)
           T    == Put(W[k].byTime, programme.start, Len(heap) + 1)
           maps == Enter(W[k], id, programme.start, Len(heap) + 1)
<1>1. eventDB' = [W EXCEPT ![k] = maps]
  BY DEF LoadEventStruct
<1>2. IsFun(W)
  BY WithServiceFacts DEF TypeOK
<1>3. DOMAIN W = DOMAIN eventDB \cup {k, Redirected(k)}
  BY WithServiceFacts DEF TypeOK
<1>4. W[k] = HeldBy(Redirected(k))
  BY WithServiceHolds DEF TypeOK
<1>5. \A j \in DOMAIN W \ {k} : W[j] = HeldBy(j)
  BY WithServiceHolds DEF TypeOK
<1>6. DOMAIN T = DOMAIN W[k].byTime \cup {programme.start}
  BY PutDomain
<1>7. maps.byTime = T
  BY DEF Enter
<1> HIDE DEF W, T, maps
<1>8. DOMAIN eventDB' = DOMAIN W /\ eventDB'[k] = maps
      /\ \A j \in DOMAIN W \ {k} : eventDB'[j] = HeldBy(j)
  BY <1>1, <1>2, <1>3, <1>5
<1>9. ASSUME NEW j, j # k PROVE HeldBy(j)' = HeldBy(j)
  <2>1. CASE j \in DOMAIN W
    <3>1. j \in DOMAIN eventDB' /\ eventDB'[j] = HeldBy(j)
      BY <1>8, <1>9, <2>1
    <3>2. HeldBy(j)' = eventDB'[j]
      BY <3>1 DEF HeldBy
    <3> QED
      BY <3>1, <3>2
  <2>2. CASE j \notin DOMAIN W
    BY <1>3, <1>8, <2>2 DEF HeldBy
  <2> QED
    BY <2>1, <2>2
<1> QED
  BY <1>3, <1>4, <1>6, <1>7, <1>8, <1>9

LEMMA StructMain ==
  ASSUME TypeOK, IdInv, ReachInv, MainInv, NEW k \in Keys, LoadEventStruct(k)
  PROVE  MainInv'
<1>1. /\ programme # None /\ k \in programme.keys
      /\ programme' = Decoded(programme, k)
      /\ UNCHANGED <<tvmap, tvamap, xmltvmap, source>>
  BY DEF LoadEventStruct, tvmaps, xmlmaps
<1>2. /\ programme'.channel = programme.channel /\ programme'.start = programme.start
      /\ programme'.keys = programme.keys \ {k} /\ programme' # None
  BY <1>1, ServedWith DEF TypeOK, IsProgramme, Decoded, None
<1>3. /\ \A j : j # k => HeldBy(j)' = HeldBy(j)
      /\ HeldBy(k)' = eventDB'[k]
      /\ DOMAIN eventDB'[k].byTime
           = DOMAIN HeldBy(Redirected(k)).byTime \cup {programme.start}
      /\ DOMAIN eventDB' = DOMAIN eventDB \cup {k, Redirected(k)}
  BY StructStarts DEF HeldBy
<1>4. KeysNamed'
  <2>1. ChannelName(programme.channel)' = ChannelName(programme.channel)
    BY <1>1, <1>2 DEF ChannelName
  <2> QED
    BY <1>1, <1>2, <2>1 DEF MainInv, KeysNamed
<1>5. \A j : j # k => ToCome(j)' = ToCome(j)
  BY <1>1, <1>2 DEF ToCome
<1>6. ASSUME NEW j \in DOMAIN eventDB' \cap DOMAIN tvmap,
             NEW main, main = tvmap[j], Follows(j, main)
      PROVE  DOMAIN eventDB'[j].byTime \subseteq DOMAIN HeldBy(main)'.byTime \cup ToCome(main)'
  <2>1. /\ main \notin DOMAIN tvmap /\ tvamap[main] = tvamap[j] /\ main # j
        /\ main \in DOMAIN tvamap
    BY <1>6 DEF Follows, MainInv
  <2>2. CASE j = k
    <3>1. Redirected(k) = main /\ HeldBy(main)' = HeldBy(main)
      BY <1>3, <1>6, <2>1, <2>2 DEF Redirected
    <3>2. CASE main \in programme.keys
      <4>1. ToCome(main)' = {programme.start}
        BY <1>2, <2>1, <2>2, <3>2 DEF ToCome
      <4> QED
        BY <1>3, <2>2, <3>1, <4>1
    <3>3. CASE main \notin programme.keys
      <4>1. tvamap[main] = ChannelName(programme.channel)
        BY <1>1, <2>1, <2>2 DEF MainInv, KeysNamed
      <4>2. Reached(main)
        BY <1>1, <2>1, <3>3, <4>1 DEF ReachInv, KeysOf
      <4>3. programme.start \in DOMAIN HeldBy(main).byTime
        BY <4>2 DEF Reached, HeldBy
      <4> QED
        BY <1>3, <2>2, <3>1, <4>3
    <3> QED
      BY <3>2, <3>3
  <2>3. CASE j # k
    <3>1. DOMAIN eventDB'[j].byTime \subseteq DOMAIN HeldBy(main).byTime \cup ToCome(main)
      <4>1. eventDB'[j] = HeldBy(j)
        <5>1. HeldBy(j)' = eventDB'[j]
          BY <1>6 DEF HeldBy
        <5> QED
          BY <1>3, <2>3, <5>1
      <4>2. CASE j \in DOMAIN eventDB
        BY <1>1, <1>6, <4>1, <4>2 DEF MainInv, MainHasAll, HeldBy, IdInv, OneLoader
      <4>3. CASE j \notin DOMAIN eventDB
        BY <4>1, <4>3 DEF HeldBy, NoEvents, Empty
      <4> QED
        BY <4>2, <4>3
    <3>2. CASE main = k
      <4>1. Redirected(k) = k
        BY <2>1, <3>2 DEF Redirected
      <4>2. ToCome(main) \subseteq {programme.start}
        BY DEF ToCome
      <4> QED
        BY <1>3, <3>1, <3>2, <4>1, <4>2
    <3>3. CASE main # k
      BY <1>3, <1>5, <3>1, <3>3
    <3> QED
      BY <3>2, <3>3
  <2> QED
    BY <2>2, <2>3
<1>7. MainHasAll'
  <2> SUFFICES ASSUME NEW j \in DOMAIN eventDB' \cap DOMAIN tvmap', NEW main, main = tvmap'[j],
                      Follows(j, main)'
               PROVE  DOMAIN eventDB'[j].byTime
                        \subseteq DOMAIN HeldBy(main)'.byTime \cup ToCome(main)'
    BY DEF MainHasAll, Follows
  <2>1. j \in DOMAIN tvmap /\ main = tvmap[j] /\ Follows(j, main)
    BY <1>1 DEF Follows
  <2> QED
    BY <1>6, <2>1
<1> QED
  BY <1>1, <1>4, <1>7 DEF MainInv

LEMMA StepMain == TypeOK /\ IdInv /\ ReachInv /\ ApartInv /\ MainInv /\ [Next]_vars => MainInv'
<1> SUFFICES ASSUME TypeOK, IdInv, ReachInv, ApartInv, MainInv, [Next]_vars
             PROVE  MainInv'
  OBVIOUS
<1>1. ASSUME UNCHANGED <<tvmap, tvamap, eventDB, source, programme, xmltvmap>>
      PROVE  MainInv'
  BY <1>1 DEF MainInv, KeysNamed, MainHasAll, HeldBy, ToCome, Follows, ChannelName
<1>2. ASSUME UNCHANGED <<tvmap, tvamap, programme>>, programme = None, source' # "XMLTV"
      PROVE  MainInv'
  BY <1>2 DEF MainInv, KeysNamed, MainHasAll
<1>3. ASSUME NEW format \in {"V5", "V7"}, NEW order \in Orders, OpenFile(format, order)
      PROVE  MainInv'
  BY <1>2, <1>3 DEF OpenFile, tvmaps, IdInv, OneLoader
<1>4. CASE StoreService
  <2>1. programme = None /\ source # "XMLTV" /\ UNCHANGED <<tvmap, tvamap, programme, source>>
    BY <1>4 DEF StoreService, tvmaps, IdInv, OneLoader
  <2> QED
    BY <1>2, <2>1
<1>5. CASE OpenXmltv
  <2>1. eventDB' = Empty /\ programme' = None /\ UNCHANGED programme
    BY <1>5 DEF OpenXmltv, store, ApartInv, IdInv, OneLoader
  <2>2. KeysNamed' /\ MainHasAll'
    BY <2>1 DEF KeysNamed, MainHasAll, Empty
  <2>3. CASE UNCHANGED tvmaps
    BY <2>2, <2>3 DEF MainInv, tvmaps
  <2>4. CASE ~UNCHANGED tvmaps
    <3>1. PICK lines \in TableFiles :
            /\ tvmap' = LoadLines(Tables, lines).tvmap
            /\ tvnmap' = LoadLines(Tables, lines).tvnmap
            /\ tvamap' = LoadLines(Tables, lines).tvamap
      BY <1>5, <2>4 DEF OpenXmltv, Tables
    <3>2. Len(lines) \in Nat
      BY StoreAssumption DEF StoreAssumption
    <3>3. Listed(LoadLines(Tables, lines))
      BY <3>2, LoadedListed
    <3> QED
      BY <2>2, <3>1, <3>3 DEF MainInv, Listed
  <2> QED
    BY <2>3, <2>4
<1>6. ASSUME NEW ch \in Channels, NEW name \in Names, ReadChannel(ch, name)
      PROVE  MainInv'
  <2>1. programme = None /\ programme' = None /\ UNCHANGED <<tvmap, tvamap, eventDB, source>>
    BY <1>6 DEF ReadChannel, NextElement, tvmaps, store
  <2> QED
    BY <2>1 DEF MainInv, KeysNamed, MainHasAll, HeldBy, ToCome, Follows
<1>7. ASSUME NEW ch \in Channels, NEW name \in Names, NEW k \in Keys,
             ReadChannelTsonid(ch, name, k)
      PROVE  MainInv'
  <2>1. /\ programme = None /\ programme' = None /\ UNCHANGED <<tvmap, eventDB, source>>
        /\ tvamap' = PutNew(tvamap, k, name)
    BY <1>7 DEF ReadChannelTsonid, NextElement, store
  <2>2. \A j \in DOMAIN tvamap : j \in DOMAIN tvamap' /\ tvamap'[j] = tvamap[j]
    <3>1. DOMAIN Put(tvamap, k, name) = DOMAIN tvamap \cup {k}
      BY PutDomain
    <3>2. \A y \in DOMAIN tvamap : y # k => Put(tvamap, k, name)[y] = tvamap[y]
      BY PutOther
    <3> QED
      BY <2>1, <3>1, <3>2 DEF PutNew
  <2>3. \A j \in DOMAIN tvmap : Follows(j, tvmap[j])' => Follows(j, tvmap[j])
    BY <2>1, <2>2 DEF MainInv, Follows
  <2>4. \A j : HeldBy(j)' = HeldBy(j) /\ ToCome(j)' = ToCome(j)
    BY <2>1 DEF HeldBy, ToCome
  <2>5. MainHasAll'
    BY <2>1, <2>3, <2>4 DEF MainInv, MainHasAll
  <2> QED
    BY <2>1, <2>2, <2>5 DEF MainInv, KeysNamed
<1>8. ASSUME NEW ch \in Channels, NEW stamp \in Stamps, NEW title \in Titles \cup {<<>>},
             NEW id \in XmlIds, NEW desc \in Descriptions(ch),
             ReadProgramme(ch, stamp, id, title, desc)
      PROVE  MainInv'
  <2>1. /\ programme = None /\ programme'.channel = ch
        /\ programme'.keys = {k \in DOMAIN tvamap : tvamap[k] = ChannelName(ch)}
        /\ UNCHANGED <<tvmap, tvamap, eventDB, source, xmltvmap>>
    BY <1>8 DEF ReadProgramme, KeysOf, NextElement, tvmaps, store, xmlmaps
  <2>2. KeysNamed'
    BY <2>1 DEF KeysNamed, ChannelName
  <2>3. \A j : HeldBy(j)' = HeldBy(j) /\ ToCome(j) = {}
    BY <2>1 DEF HeldBy, ToCome
  <2>4. MainHasAll'
    BY <2>1, <2>3 DEF MainInv, MainHasAll, Follows
  <2> QED
    BY <2>1, <2>2, <2>4 DEF MainInv
<1>9. CASE EndProgramme
  <2>1. /\ programme.keys = {} /\ programme' = None
        /\ UNCHANGED <<tvmap, tvamap, eventDB, source>>
    BY <1>9 DEF EndProgramme, tvmaps, store
  <2>2. \A j : HeldBy(j)' = HeldBy(j) /\ ToCome(j) = {}
    BY <2>1 DEF HeldBy, ToCome
  <2> QED
    BY <2>1, <2>2 DEF MainInv, MainHasAll, KeysNamed, Follows
<1>10. ASSUME NEW k \in Keys, LoadEventStruct(k) PROVE MainInv'
  BY <1>10, StructMain
<1>11. ASSUME \/ RefuseFile \/ EndServices \/ EndTable \/ EndXmltv \/ UNCHANGED vars
              \/ \E k \in Keys : ReadService(k)
       PROVE  MainInv'
  BY <1>1, <1>11 DEF RefuseFile, EndServices, EndTable, EndXmltv, ReadService, vars,
                     tvmaps, store, xmlmaps
<1>12. ASSUME NEW id \in FileIds, NEW start \in Times, NEW data \in V5Data \cup V7Data,
              ReadEvent(id, start, data)
       PROVE  MainInv'
  BY <1>1, <1>12 DEF ReadEvent, tvmaps, xmlmaps
<1>13. ASSUME \/ \E id \in TableIds, bytes \in TableBytes : ReadDescriptor(id, bytes)
              \/ \E ch \in Channels, stamp \in Stamps, title \in Titles \cup {<<>>} :
                   SkipProgramme(ch, stamp, title)
       PROVE  MainInv'
  <2>1. UNCHANGED <<tvmap, tvamap, eventDB, source, programme, xmltvmap>>
    BY <1>13 DEF ReadDescriptor, SkipProgramme, NextElement, tvmaps, store, xmlmaps
  <2> QED
    BY <1>1, <2>1
<1>14. CASE LoadFile
  BY <1>3, <1>4, <1>11, <1>12, <1>13, <1>14 DEF LoadFile
<1>15. CASE LoadXmltv
  BY <1>5, <1>6, <1>7, <1>8, <1>9, <1>10, <1>11, <1>13, <1>15 DEF LoadXmltv
<1> QED
  BY <1>11, <1>14, <1>15 DEF Next

LEMMA StepKeepsStarts == TypeOK /\ IdInv /\ MainInv /\ [Next]_vars => NoStartLostStep
<1> SUFFICES ASSUME TypeOK, IdInv, MainInv, [Next]_vars, source = "XMLTV",
                    NEW j \in DOMAIN eventDB, j \in DOMAIN tvmap => Follows(j, tvmap[j])
             PROVE  DOMAIN eventDB[j].byTime \subseteq DOMAIN eventDB'[j].byTime
  BY DEF NoStartLostStep
<1>1. CASE UNCHANGED eventDB
  BY <1>1
<1>2. ASSUME NEW k \in Keys, LoadEventStruct(k)
      PROVE  DOMAIN eventDB[j].byTime \subseteq DOMAIN eventDB'[j].byTime
  <2>1. /\ \A i : i # k => HeldBy(i)' = HeldBy(i)
        /\ DOMAIN eventDB'[k].byTime
             = DOMAIN HeldBy(Redirected(k)).byTime \cup {programme.start}
        /\ DOMAIN eventDB \subseteq DOMAIN eventDB'
    BY <1>2, StructStarts
  <2>2. HeldBy(j)' = eventDB'[j] /\ HeldBy(j) = eventDB[j]
    <3>1. j \in DOMAIN eventDB'
      BY <2>1
    <3> QED
      BY <3>1 DEF HeldBy
  <2>3. CASE j # k
    BY <2>1, <2>2, <2>3
  <2>4. CASE j = k /\ k \notin DOMAIN tvmap
    BY <2>1, <2>2, <2>4 DEF Redirected
  <2>5. CASE j = k /\ k \in DOMAIN tvmap
    <3>1. /\ Redirected(k) = tvmap[k]
          /\ DOMAIN eventDB[k].byTime \subseteq DOMAIN HeldBy(tvmap[k]).byTime \cup ToCome(tvmap[k])
      BY <2>5 DEF Redirected, MainInv, MainHasAll
    <3>2. ToCome(tvmap[k]) \subseteq {programme.start}
      BY DEF ToCome
    <3> QED
      BY <2>1, <2>5, <3>1, <3>2
  <2> QED
    BY <2>3, <2>4, <2>5
<1>3. service = None
  BY DEF IdInv, OneLoader
<1> QED
  BY <1>1, <1>2, <1>3
  DEF Next, LoadFile, LoadXmltv, vars, OpenFile, RefuseFile, ReadService, ReadEvent,
      StoreService, EndServices, ReadDescriptor, EndTable, OpenXmltv, ReadChannel,
      ReadChannelTsonid, SkipProgramme, ReadProgramme, EndProgramme, EndXmltv, store

(* A redirected service starts over from its main service at every          *)
(* programme, and loses no start time by it, in any document, with any      *)
(* table (epg.cpp 334-342, 752-758), as long as the main service bears its  *)
(* name and is not redirected itself.                                       *)
THEOREM NoStartIsLost == Spec => NoStartLost
<1>1. Init => MainInv
  <2> SUFFICES ASSUME Init PROVE MainInv
    OBVIOUS
  <2>1. PICK lines \in TableFiles : /\ tvmap = LoadLines(NoTables, lines).tvmap
                                    /\ tvamap = LoadLines(NoTables, lines).tvamap
    BY DEF Init
  <2>2. Len(lines) \in Nat
    BY StoreAssumption DEF StoreAssumption
  <2>3. Listed(LoadLines(NoTables, lines))
    BY <2>2, LoadedListed
  <2> QED
    BY <2>1, <2>3 DEF Init, MainInv, KeysNamed, MainHasAll, Listed
<1>2. Init => ApartInv
  BY DEF Init, ApartInv, Empty
<1>3. TypeOK /\ IdInv /\ MainInv /\ [Next]_vars => [NoStartLostStep]_vars
  BY StepKeepsStarts
<1> QED
  BY <1>1, <1>2, <1>3, TypeCorrect, IdsAlways, ReachAlways, StepApart, StepMain, PTL
  DEF Spec, NoStartLost
=============================================================================
