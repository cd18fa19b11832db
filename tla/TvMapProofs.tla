----------------------------- MODULE TvMapProofs ----------------------------
(***************************************************************************)
(* What TLAPS proves of the channel tables: for any files, names and       *)
(* number of runs.                                                         *)
(***************************************************************************)
EXTENDS TvMap, Lemmas, FiniteSetTheorems, TLAPS

IsTables(t) == t = [tvmap |-> t.tvmap, tvnmap |-> t.tvnmap, tvamap |-> t.tvamap]

Redirects(f) == \A k \in DOMAIN f : k = InvalidKey \/ f[k] = InvalidKey

LEMMA PutDomain == \A f, x, v : DOMAIN Put(f, x, v) = DOMAIN f \cup {x}
BY DEF Put

LEMMA PutValues ==
  \A f, x, v : \A y \in DOMAIN f \cup {x} :
    Put(f, x, v)[y] = IF y = x THEN v ELSE f[y]
BY DEF Put

(* A line is only redirected if it or what it is redirected to is invalid. *)
LEMMA EnterRedirects ==
  ASSUME NEW t, NEW line, Redirects(t.tvmap)
  PROVE  IsTables(EnterLine(t, line)) /\ Redirects(EnterLine(t, line).tvmap)
<1> DEFINE name == Normal(line.name)
           main == t.tvnmap[name]
           taken == name \in DOMAIN t.tvnmap /\ Differ(main, line.key)
           redirected == Put(t.tvmap, line.key, main)
<1>1. EnterLine(t, line).tvmap = IF taken THEN redirected ELSE t.tvmap
  BY DEF EnterLine
<1>2. IsTables(EnterLine(t, line))
  BY DEF EnterLine, IsTables
<1>3. ASSUME taken PROVE Redirects(redirected)
  <2>1. line.key = InvalidKey \/ main = InvalidKey
    BY <1>3 DEF Differ
  <2> HIDE DEF main
  <2>2. DOMAIN redirected = DOMAIN t.tvmap \cup {line.key}
    BY PutDomain
  <2>3. \A y \in DOMAIN redirected :
          redirected[y] = IF y = line.key THEN main ELSE t.tvmap[y]
    BY <2>2, PutValues
  <2> HIDE DEF redirected
  <2> QED
    BY <2>1, <2>2, <2>3 DEF Redirects
<1> HIDE DEF redirected, taken
<1> QED
  BY <1>1, <1>2, <1>3

TablesInv == IsTables(tables) /\ Redirects(tables.tvmap)

LEMMA StepRedirects == TablesInv /\ [Next]_vars => TablesInv'
<1> SUFFICES ASSUME TablesInv, [Next]_vars PROVE TablesInv'
  OBVIOUS
<1>1. ASSUME tables' = tables PROVE TablesInv'
  BY <1>1 DEF TablesInv, IsTables, Redirects
<1>2. ASSUME tables' = Cleared(tables) PROVE TablesInv'
  BY <1>2 DEF TablesInv, Cleared, IsTables, Redirects, Empty
<1>3. ASSUME tables' = NoTables PROVE TablesInv'
  BY <1>3 DEF TablesInv, NoTables, IsTables, Redirects, Empty
<1>4. ASSUME NEW tvnmap, NEW tvamap,
             tables' = [tvmap |-> tables.tvmap, tvnmap |-> tvnmap, tvamap |-> tvamap]
      PROVE  TablesInv'
  BY <1>4 DEF TablesInv, IsTables, Redirects
<1>5. CASE ReadLine
  BY <1>5, EnterRedirects DEF ReadLine, TablesInv
<1>6. ASSUME NEW k \in Keys, NEW name \in EpgNames, ReadChannelTsonid(k, name)
      PROVE  TablesInv'
  <2>1. tables' = [tables EXCEPT !.tvamap = PutNew(@, k, name),
                                 !.tvnmap = PutNew(@, name, k)]
    BY <1>6 DEF ReadChannelTsonid, EnterChannel
  <2>2. tables' = [tvmap |-> tables.tvmap, tvnmap |-> PutNew(tables.tvnmap, name, k),
                   tvamap |-> PutNew(tables.tvamap, k, name)]
    BY <2>1 DEF TablesInv, IsTables
  <2> QED
    BY <2>2, <1>4
<1>7. CASE SaveAll
  <2>1. PICK tvamap : tables' = [tables EXCEPT !.tvamap = tvamap]
    BY <1>7 DEF SaveAll
  <2>2. tables' = [tvmap |-> tables.tvmap, tvnmap |-> tables.tvnmap, tvamap |-> tvamap]
    BY <2>1 DEF TablesInv, IsTables
  <2> QED
    BY <2>2, <1>4
<1>8. CASE SaveDat
  <2>1. PICK tvnmap : tables' = [tables EXCEPT !.tvnmap = tvnmap]
    BY <1>8 DEF SaveDat
  <2>2. tables' = [tvmap |-> tables.tvmap, tvnmap |-> tvnmap, tvamap |-> tables.tvamap]
    BY <2>1 DEF TablesInv, IsTables
  <2> QED
    BY <2>2, <1>4
<1>9. CASE OpenTable \/ OpenXmltv
  BY <1>1, <1>2, <1>9 DEF OpenTable, OpenXmltv, Open
<1>10. CASE EndLines \/ EndEpg \/ SaveFails \/ UNCHANGED vars
  BY <1>1, <1>10 DEF EndLines, EndEpg, SaveFails, vars
<1>11. CASE NextRun
  BY <1>3, <1>11 DEF NextRun
<1> QED
  BY <1>5, <1>6, <1>7, <1>8, <1>9, <1>10, <1>11 DEF Next

(* The missing operator!= of uniqueEPGKey (epg.cpp 546): tvmap never        *)
(* redirects one real service to another.                                  *)
THEOREM OnlyInvalidRedirected == Spec => []RedirectsOnlyInvalid
<1>1. Init => TablesInv
  BY DEF Init, TablesInv, NoTables, IsTables, Redirects, Empty
<1>2. TablesInv => RedirectsOnlyInvalid
  BY DEF TablesInv, Redirects, RedirectsOnlyInvalid
<1> QED
  BY <1>1, <1>2, StepRedirects, PTL DEF Spec

-----------------------------------------------------------------------------
(* A finite set in order: each element once. *)
LEMMA OrderLists ==
  ASSUME NEW S, IsFiniteSet(S), NEW s \in SetToSeqs(S)
  PROVE  /\ Cardinality(S) \in Nat
         /\ s \in [1..Cardinality(S) -> S]
         /\ \A x \in S : \E i \in 1..Cardinality(S) : s[i] = x
<1> DEFINE n == Cardinality(S)
<1>1. n \in Nat
  BY FS_CardinalityType
<1>2. s \in [1..n -> S] /\ \A i, j \in 1..n : i # j => s[i] # s[j]
  BY DEF SetToSeqs
<1>3. IsFiniteSet(1..n) /\ Cardinality(1..n) = n
  BY <1>1, FS_Interval
<1> HIDE DEF n
<1>4. s \in Injection(1..n, S)
  BY <1>2 DEF Injection, IsInjective
<1>5. s \in Surjection(1..n, S)
  BY <1>3, <1>4, FS_Injection DEF n
<1> QED
  BY <1>1, <1>2, <1>5 DEF Surjection, n

LEMMA Listed ==
  ASSUME NEW D, NEW S, NEW s, NEW f,
         \A i \in D : s[i] \in S,
         \A x \in S : \E i \in D : s[i] = x
  PROVE  /\ {s[i] : i \in D} = S
         /\ {f[s[i]] : i \in D} = {f[x] : x \in S}
OBVIOUS

(* What save_tvmap writes of a map: each line once, and nothing else. *)
LEMMA AllLinesRight ==
  ASSUME NEW f, IsFiniteSet(DOMAIN f), NEW file \in AllLines(f)
  PROVE  /\ KeysOf(file) = DOMAIN f
         /\ NamesOf(file) = {f[k] : k \in DOMAIN f}
<1>1. PICK s \in SetToSeqs(DOMAIN f) :
        file = [i \in DOMAIN s |-> [key |-> s[i], name |-> f[s[i]]]]
  BY DEF AllLines, InOrder
<1>2. /\ DOMAIN s = DOMAIN file
      /\ \A i \in DOMAIN file : s[i] \in DOMAIN f
      /\ \A x \in DOMAIN f : \E i \in DOMAIN file : s[i] = x
  BY <1>1, OrderLists, SMTT(30)
<1>3. \A i \in DOMAIN file : file[i].key = s[i] /\ file[i].name = f[s[i]]
  BY <1>1
<1>4. /\ KeysOf(file) = {s[i] : i \in DOMAIN file}
      /\ NamesOf(file) = {f[s[i]] : i \in DOMAIN file}
  BY <1>3 DEF KeysOf, NamesOf
<1>5. /\ {s[i] : i \in DOMAIN file} = DOMAIN f
      /\ {f[s[i]] : i \in DOMAIN file} = {f[k] : k \in DOMAIN f}
  BY <1>2, Listed
<1> QED
  BY <1>4, <1>5

LEMMA NameLinesRight ==
  ASSUME NEW f, IsFiniteSet(DOMAIN f), NEW file \in NameLines(f)
  PROVE  /\ NamesOf(file) = DOMAIN f
         /\ KeysOf(file) = {f[n] : n \in DOMAIN f}
         /\ Len(file) = Cardinality(DOMAIN f)
<1>1. PICK s \in SetToSeqs(DOMAIN f) :
        file = [i \in DOMAIN s |-> [key |-> f[s[i]], name |-> s[i]]]
  BY DEF NameLines, InOrder
<1>2. /\ DOMAIN s = DOMAIN file
      /\ \A i \in DOMAIN file : s[i] \in DOMAIN f
      /\ \A x \in DOMAIN f : \E i \in DOMAIN file : s[i] = x
  BY <1>1, OrderLists, SMTT(30)
<1>3. \A i \in DOMAIN file : file[i].name = s[i] /\ file[i].key = f[s[i]]
  BY <1>1
<1>4. /\ Cardinality(DOMAIN f) \in Nat
      /\ DOMAIN s = 1..Cardinality(DOMAIN f)
  BY OrderLists
<1>5. Len(file) = Cardinality(DOMAIN f)
  BY <1>1, <1>4
<1>6. /\ NamesOf(file) = {s[i] : i \in DOMAIN file}
      /\ KeysOf(file) = {f[s[i]] : i \in DOMAIN file}
  BY <1>3 DEF KeysOf, NamesOf
<1>7. /\ {s[i] : i \in DOMAIN file} = DOMAIN f
      /\ {f[s[i]] : i \in DOMAIN file} = {f[n] : n \in DOMAIN f}
  BY <1>2, Listed
<1> QED
  BY <1>5, <1>6, <1>7

(* tvamap's names are in tvnmap, and tvnmap's services in tvamap. *)
Agree(tvnmap, tvamap) ==
  /\ IsFiniteSet(DOMAIN tvnmap) /\ IsFiniteSet(DOMAIN tvamap)
  /\ \A k \in DOMAIN tvamap : tvamap[k] \in DOMAIN tvnmap
  /\ \A n \in DOMAIN tvnmap : tvnmap[n] \in DOMAIN tvamap

LEMMA EmptyAgrees == Agree(Empty, Empty)
<1>1. IsFiniteSet({})
  BY FS_EmptySet
<1> QED
  BY <1>1 DEF Agree, Empty

LEMMA PutAgrees ==
  ASSUME NEW tvnmap, NEW tvamap, Agree(tvnmap, tvamap), NEW k, NEW name
  PROVE  /\ Agree(Put(tvnmap, name, k), Put(tvamap, k, name))
         /\ name \in DOMAIN tvnmap => Agree(tvnmap, Put(tvamap, k, name))
         /\ k \in DOMAIN tvamap => Agree(Put(tvnmap, name, k), tvamap)
<1>1. IsFiniteSet(DOMAIN tvnmap \cup {name}) /\ IsFiniteSet(DOMAIN tvamap \cup {k})
  BY FS_AddElement DEF Agree
<1> DEFINE pn == Put(tvnmap, name, k)
           pa == Put(tvamap, k, name)
<1>2. /\ DOMAIN pn = DOMAIN tvnmap \cup {name}
      /\ \A n \in DOMAIN tvnmap \cup {name} :
           pn[n] = IF n = name THEN k ELSE tvnmap[n]
  BY DEF Put
<1>3. /\ DOMAIN pa = DOMAIN tvamap \cup {k}
      /\ \A x \in DOMAIN tvamap \cup {k} :
           pa[x] = IF x = k THEN name ELSE tvamap[x]
  BY DEF Put
<1> HIDE DEF pn, pa
<1>4. Agree(pn, pa)
  BY <1>1, <1>2, <1>3 DEF Agree
<1>5. name \in DOMAIN tvnmap => Agree(tvnmap, pa)
  BY <1>1, <1>3 DEF Agree
<1>6. k \in DOMAIN tvamap => Agree(pn, tvamap)
  BY <1>1, <1>2 DEF Agree
<1> QED
  BY <1>4, <1>5, <1>6 DEF pn, pa

LEMMA EnterAgrees ==
  ASSUME NEW t, NEW line, Agree(t.tvnmap, t.tvamap)
  PROVE  Agree(EnterLine(t, line).tvnmap, EnterLine(t, line).tvamap)
<1> DEFINE name == Normal(line.name)
           taken == name \in DOMAIN t.tvnmap /\ Differ(t.tvnmap[name], line.key)
           e == EnterLine(t, line)
<1>1. /\ e.tvnmap = IF taken THEN t.tvnmap ELSE Put(t.tvnmap, name, line.key)
      /\ e.tvamap = Put(t.tvamap, line.key, name)
  BY DEF EnterLine
<1>2. /\ Agree(Put(t.tvnmap, name, line.key), Put(t.tvamap, line.key, name))
      /\ name \in DOMAIN t.tvnmap => Agree(t.tvnmap, Put(t.tvamap, line.key, name))
  BY PutAgrees
<1> HIDE DEF e, name
<1>3. Agree(e.tvnmap, e.tvamap)
  BY <1>1, <1>2
<1> QED
  BY <1>3 DEF e

LEMMA ChannelAgrees ==
  ASSUME NEW tvnmap, NEW tvamap, Agree(tvnmap, tvamap), NEW k, NEW name
  PROVE  Agree(PutNew(tvnmap, name, k), PutNew(tvamap, k, name))
<1>1. Agree(Put(tvnmap, name, k), Put(tvamap, k, name))
  BY PutAgrees
<1>2. name \in DOMAIN tvnmap => Agree(tvnmap, Put(tvamap, k, name))
  BY PutAgrees
<1>3. k \in DOMAIN tvamap => Agree(Put(tvnmap, name, k), tvamap)
  BY PutAgrees
<1> QED
  BY <1>1, <1>2, <1>3 DEF PutNew

(* What SaveDat finds after SaveAll wrote its file. *)
ListWritten ==
  /\ IsFiniteSet(DOMAIN tables.tvnmap)
  /\ \A x \in NamesOf(tvmap_all) :
       x \in DOMAIN tables.tvnmap \/ \E k \in DOMAIN named : named[k] = x
  /\ \A n \in DOMAIN tables.tvnmap : tables.tvnmap[n] \in KeysOf(tvmap_all)
  /\ DOMAIN named \subseteq KeysOf(tvmap_all)

Matched ==
  /\ NamesOf(tvmap_all) \subseteq NamesOf(tvmap_dat)
  /\ KeysOf(tvmap_dat) \subseteq KeysOf(tvmap_all)
  /\ DOMAIN named \subseteq KeysOf(tvmap_all)
  /\ Cardinality(NamesOf(tvmap_dat)) = Len(tvmap_dat)

Agreeing == Agree(tables.tvnmap, tables.tvamap)

FilesInv ==
  /\ step \in {"start", "lines", "epg", "all", "dat", "end"}
  /\ DOMAIN named \subseteq Keys
  /\ step = "start" => tables = NoTables
  /\ step \in {"lines", "epg", "all"} => Agreeing
  /\ step = "dat" /\ written => ListWritten
  /\ step = "end" /\ written => Matched

(* Opening a table leaves tvamap as it is, which OpenXmltv may only do       *)
(* because without a name there is no service.                               *)
LEMMA OpenAgrees ==
  ASSUME FilesInv, OpenTable \/ OpenXmltv
  PROVE  Agreeing'
<1>1. Agreeing /\ DOMAIN tables.tvnmap = {}
  <2>1. CASE OpenTable
    <3>1. tables.tvnmap = Empty /\ tables.tvamap = Empty
      BY <2>1 DEF OpenTable, FilesInv, NoTables
    <3> QED
      BY <3>1, EmptyAgrees DEF Agreeing, Empty
  <2>2. CASE OpenXmltv
    BY <2>2 DEF OpenXmltv, FilesInv, Empty
  <2> QED
    BY <2>1, <2>2
<1>2. DOMAIN tables.tvamap = {}
  BY <1>1 DEF Agreeing, Agree
<1>3. Agree(Empty, tables.tvamap)
  BY <1>2, FS_EmptySet DEF Agree, Empty
<1>4. tables' = tables \/ tables' = Cleared(tables)
  BY DEF OpenTable, OpenXmltv, Open
<1>5. ASSUME tables' = Cleared(tables) PROVE Agreeing'
  <2>1. tables'.tvnmap = Empty /\ tables'.tvamap = tables.tvamap
    BY <1>5 DEF Cleared
  <2> QED
    BY <2>1, <1>3 DEF Agreeing
<1> QED
  BY <1>1, <1>4, <1>5 DEF Agreeing

(* Only services have names, so what save_tvmap adds is finite. *)
LEMMA AddedFinite ==
  ASSUME DOMAIN named \subseteq Keys, NEW D, IsFiniteSet(D)
  PROVE  /\ IsFiniteSet(D \cup DOMAIN named)
         /\ \A new, first :
              first \in [new -> DOMAIN named] /\ (\A n \in new : named[first[n]] = n)
                => IsFiniteSet(D \cup new)
<1>1. IsFiniteSet(DOMAIN named)
  BY TvMapAssumption, FS_Subset
<1>2. IsFiniteSet(D \cup DOMAIN named)
  BY <1>1, FS_Union
<1>3. ASSUME NEW new, NEW first \in [new -> DOMAIN named], \A n \in new : named[first[n]] = n
      PROVE  IsFiniteSet(D \cup new)
  <2>1. first \in Injection(new, DOMAIN named)
    BY <1>3 DEF Injection, IsInjective
  <2>2. IsFiniteSet(new)
    BY <1>1, <2>1, FS_Injection
  <2> QED
    BY <2>2, FS_Union
<1> QED
  BY <1>2, <1>3

(* save_tvmap, mode 0 *)
LEMMA SaveAllLists ==
  ASSUME TablesInv, FilesInv, SaveAll
  PROVE  ListWritten'
<1> DEFINE old == tables.tvamap
           all == [k \in DOMAIN old \cup DOMAIN named |->
                     IF k \in DOMAIN old THEN old[k] ELSE named[k]]
<1>1. /\ step = "all"
      /\ tables' = [tables EXCEPT !.tvamap = all]
      /\ tvmap_all' \in AllLines(all)
      /\ UNCHANGED named
  BY DEF SaveAll
<1>2. Agree(tables.tvnmap, old) /\ DOMAIN named \subseteq Keys
  BY <1>1 DEF FilesInv, Agreeing
<1>3. tables'.tvnmap = tables.tvnmap
  BY <1>1 DEF TablesInv, IsTables
<1>4. IsFiniteSet(DOMAIN all)
  <2>1. IsFiniteSet(DOMAIN old \cup DOMAIN named)
    BY <1>2, AddedFinite DEF Agree
  <2> QED
    BY <2>1
<1>5. /\ DOMAIN all = DOMAIN old \cup DOMAIN named
      /\ \A k \in DOMAIN all : all[k] = IF k \in DOMAIN old THEN old[k] ELSE named[k]
  OBVIOUS
<1> HIDE DEF all
<1>6. /\ KeysOf(tvmap_all') = DOMAIN all
      /\ NamesOf(tvmap_all') = {all[k] : k \in DOMAIN all}
  BY <1>1, <1>4, AllLinesRight
<1>7. \A x \in NamesOf(tvmap_all') :
        x \in DOMAIN tables.tvnmap \/ \E k \in DOMAIN named : named[k] = x
  BY <1>2, <1>5, <1>6 DEF Agree
<1>8. /\ \A n \in DOMAIN tables.tvnmap : tables.tvnmap[n] \in KeysOf(tvmap_all')
      /\ DOMAIN named \subseteq KeysOf(tvmap_all')
  BY <1>2, <1>5, <1>6 DEF Agree
<1>9. (NamesOf(tvmap_all))' = NamesOf(tvmap_all') /\ (KeysOf(tvmap_all))' = KeysOf(tvmap_all')
  BY DEF NamesOf, KeysOf
<1> QED
  BY <1>1, <1>2, <1>3, <1>7, <1>8, <1>9 DEF ListWritten, Agree

(* save_tvmap, mode 1 *)
LEMMA SaveDatMatches ==
  ASSUME TablesInv, FilesInv, SaveDat, written
  PROVE  Matched'
<1> DEFINE old == tables.tvnmap
           new == {named[k] : k \in DOMAIN named} \ DOMAIN old
<1>1. PICK first \in {f \in [new -> DOMAIN named] : \A n \in new : named[f[n]] = n} :
        tvmap_dat' \in NameLines([n \in DOMAIN old \cup new |->
                                    IF n \in new THEN first[n] ELSE old[n]])
  BY DEF SaveDat
<1>2. step = "dat" /\ UNCHANGED <<named, tvmap_all>>
  BY DEF SaveDat
<1>3. ListWritten /\ DOMAIN named \subseteq Keys
  BY <1>2 DEF FilesInv
<1> DEFINE dat == [n \in DOMAIN old \cup new |-> IF n \in new THEN first[n] ELSE old[n]]
<1>4. IsFiniteSet(DOMAIN dat)
  <2>1. first \in [new -> DOMAIN named] /\ \A n \in new : named[first[n]] = n
    BY <1>1
  <2>2. IsFiniteSet(DOMAIN old)
    BY <1>3 DEF ListWritten
  <2> HIDE DEF new
  <2>3. IsFiniteSet(DOMAIN old \cup new)
    BY <1>3, <2>1, <2>2, AddedFinite
  <2> QED
    BY <2>3
<1>5. /\ DOMAIN dat = DOMAIN old \cup new
      /\ \A n \in DOMAIN dat :
           dat[n] = IF n \in new THEN first[n] ELSE old[n]
  OBVIOUS
<1>6. \A n \in new : first[n] \in DOMAIN named
  BY <1>1
<1>7. tvmap_dat' \in NameLines(dat)
  BY <1>1
<1>8. \A k \in DOMAIN named : named[k] \in DOMAIN old \cup new
  OBVIOUS
<1> HIDE DEF dat, new
<1>9. /\ NamesOf(tvmap_dat') = DOMAIN dat
      /\ KeysOf(tvmap_dat') = {dat[n] : n \in DOMAIN dat}
      /\ Len(tvmap_dat') = Cardinality(DOMAIN dat)
  BY <1>4, <1>7, NameLinesRight
<1>10. NamesOf(tvmap_all) \subseteq NamesOf(tvmap_dat')
  BY <1>3, <1>5, <1>8, <1>9 DEF ListWritten
<1>11. KeysOf(tvmap_dat') \subseteq KeysOf(tvmap_all)
  BY <1>3, <1>5, <1>6, <1>9 DEF ListWritten
<1>12. /\ (NamesOf(tvmap_all))' = NamesOf(tvmap_all)
       /\ (KeysOf(tvmap_all))' = KeysOf(tvmap_all)
       /\ (NamesOf(tvmap_dat))' = NamesOf(tvmap_dat')
       /\ (KeysOf(tvmap_dat))' = KeysOf(tvmap_dat')
  BY <1>2 DEF NamesOf, KeysOf
<1> QED
  BY <1>2, <1>3, <1>9, <1>10, <1>11, <1>12 DEF Matched, ListWritten

LEMMA StepFiles == TablesInv /\ FilesInv /\ [Next]_vars => FilesInv'
<1> SUFFICES ASSUME TablesInv, FilesInv, [Next]_vars PROVE FilesInv'
  OBVIOUS
<1> USE DEF FilesInv
<1>1. CASE OpenTable
  BY <1>1, OpenAgrees DEF OpenTable, Open
<1>2. CASE ReadLine
  <2>1. Agreeing'
    BY <1>2, EnterAgrees DEF ReadLine, Agreeing
  <2> QED
    BY <1>2, <2>1 DEF ReadLine
<1>3. CASE EndLines
  BY <1>3 DEF EndLines, Agreeing
<1>4. CASE OpenXmltv
  BY <1>4, OpenAgrees DEF OpenXmltv, Open
<1>5. ASSUME NEW k \in Keys, NEW name \in EpgNames, ReadChannelTsonid(k, name)
      PROVE  FilesInv'
  <2>1. /\ tables'.tvnmap = PutNew(tables.tvnmap, name, k)
        /\ tables'.tvamap = PutNew(tables.tvamap, k, name)
    BY <1>5 DEF ReadChannelTsonid, EnterChannel, TablesInv, IsTables
  <2>2. Agreeing'
    BY <1>5, <2>1, ChannelAgrees DEF ReadChannelTsonid, Agreeing
  <2> QED
    BY <1>5, <2>2 DEF ReadChannelTsonid
<1>6. CASE EndEpg
  <2>1. DOMAIN named' \subseteq Keys
    BY <1>6 DEF EndEpg
  <2> QED
    BY <1>6, <2>1 DEF EndEpg, Agreeing
<1>7. CASE SaveAll
  <2>1. step' = "dat" /\ named' = named
    BY <1>7 DEF SaveAll
  <2> QED
    BY <1>7, <2>1, SaveAllLists
<1>8. CASE SaveDat
  <2>1. step' = "end" /\ named' = named /\ written' = written
    BY <1>8 DEF SaveDat
  <2> QED
    BY <1>8, <2>1, SaveDatMatches
<1>9. CASE SaveFails
  BY <1>9 DEF SaveFails
<1>10. CASE NextRun
  BY <1>10 DEF NextRun, Empty
<1>11. CASE UNCHANGED vars
  <2>1. Agreeing' <=> Agreeing
    BY <1>11 DEF vars, Agreeing
  <2>2. ListWritten' <=> ListWritten
    BY <1>11 DEF vars, files, ListWritten, NamesOf, KeysOf
  <2>3. Matched' <=> Matched
    BY <1>11 DEF vars, files, Matched, NamesOf, KeysOf
  <2> QED
    BY <1>11, <2>1, <2>2, <2>3 DEF vars
<1> QED
  BY <1>1, <1>2, <1>3, <1>4, <1>5, <1>6, <1>7, <1>8, <1>9, <1>10, <1>11 DEF Next

(* readme.txt on -tvmap, and epg.cpp 563-612: after a run that wrote both    *)
(* files, every name of tvmap_all.dat is in tvmap.dat, every service of      *)
(* tvmap.dat in tvmap_all.dat, and tvmap.dat has each name once, whatever    *)
(* tables, events and XMLTV channels the run and the runs before it read.    *)
THEOREM FilesAlwaysMatch == Spec => []FilesMatch
<1>1. Init => TablesInv
  BY DEF Init, TablesInv, NoTables, IsTables, Redirects, Empty
<1>2. Init => FilesInv
  BY DEF Init, FilesInv, Empty
<1>3. FilesInv => FilesMatch
  BY DEF FilesInv, FilesMatch, Matched
<1> QED
  BY <1>1, <1>2, <1>3, StepRedirects, StepFiles, PTL DEF Spec

-----------------------------------------------------------------------------
(* A name as load_tvmap leaves it: without white space, and without two '_'  *)
(* in a row.                                                                 *)
Neat(s) ==
  /\ s \in Seq(Nat)
  /\ \A i \in 1..Len(s) : s[i] > 32
  /\ \A i \in 1..Len(s) - 1 : ~(s[i] = Underscore /\ s[i + 1] = Underscore)

EndsBlank(out) == out # <<>> /\ Last(out) = Underscore

LEMMA AppendNeat ==
  ASSUME NEW out, Neat(out), NEW c \in Nat, c > 32, ~(EndsBlank(out) /\ c = Underscore)
  PROVE  Neat(Append(out, c))
<1> DEFINE a == Append(out, c)
<1>1. out \in Seq(Nat) /\ Len(out) \in Nat
  BY DEF Neat
<1>2. /\ a \in Seq(Nat) /\ Len(a) = Len(out) + 1 /\ a[Len(out) + 1] = c
      /\ \A i \in 1..Len(out) : a[i] = out[i]
  BY <1>1
<1>3. Len(out) > 0 => ~(out[Len(out)] = Underscore /\ c = Underscore)
  BY <1>1 DEF EndsBlank, Last
<1> HIDE DEF a
<1>4. \A i \in 1..Len(a) : a[i] > 32
  <2> TAKE i \in 1..Len(a)
  <2>1. i \in 1..Len(out) \/ i = Len(out) + 1
    BY <1>1, <1>2
  <2> QED
    BY <1>2, <2>1 DEF Neat
<1>5. \A i \in 1..Len(a) - 1 : ~(a[i] = Underscore /\ a[i + 1] = Underscore)
  <2> TAKE i \in 1..Len(a) - 1
  <2>1. i \in 1..Len(out)
    BY <1>1, <1>2
  <2>2. CASE i = Len(out)
    BY <1>1, <1>2, <1>3, <2>1, <2>2
  <2>3. CASE i # Len(out)
    <3>1. i \in 1..Len(out) - 1 /\ i + 1 \in 1..Len(out)
      BY <1>1, <2>1, <2>3
    <3> QED
      BY <1>2, <2>1, <3>1 DEF Neat
  <2> QED
    BY <2>2, <2>3
<1> QED
  BY <1>2, <1>4, <1>5 DEF Neat, a

(* One character more. *)
LEMMA SqueezeIs ==
  ASSUME NEW out, NEW c \in Nat
  PROVE  Squeeze(out, c) =
           IF c \in Blank THEN IF EndsBlank(out) THEN out ELSE Append(out, Underscore)
           ELSE IF c <= 32 THEN out ELSE Append(out, c)
<1>1. CASE c \in Blank /\ EndsBlank(out)
  BY <1>1 DEF Squeeze, EndsBlank
<1>2. CASE c \in Blank /\ ~EndsBlank(out)
  BY <1>2 DEF Squeeze, EndsBlank
<1>3. CASE c \notin Blank /\ c <= 32
  BY <1>3 DEF Squeeze, EndsBlank, IsSpace
<1>4. CASE c \notin Blank /\ ~(c <= 32)
  BY <1>4 DEF Squeeze, EndsBlank, IsSpace
<1> QED
  BY <1>1, <1>2, <1>3, <1>4

LEMMA SqueezeNeat ==
  ASSUME NEW out, Neat(out), NEW c \in Nat
  PROVE  Neat(Squeeze(out, c))
<1>1. CASE c \in Blank /\ ~EndsBlank(out)
  <2>1. Underscore \in Nat /\ Underscore > 32
    BY DEF Underscore
  <2>2. Neat(Append(out, Underscore))
    BY <1>1, <2>1, AppendNeat
  <2> QED
    BY <1>1, <2>2, SqueezeIs
<1>2. CASE c \notin Blank /\ c > 32
  BY <1>2, SqueezeIs, AppendNeat DEF Blank
<1>3. Squeeze(out, c) = out \/ (c \in Blank /\ ~EndsBlank(out)) \/ (c \notin Blank /\ c > 32)
  BY SqueezeIs
<1> QED
  BY <1>1, <1>2, <1>3

IsSqueezing(f, s) ==
  f = [n \in 0..Len(s) |-> IF n = 0 THEN <<>> ELSE Squeeze(f[n - 1], s[n])]

LEMMA SqueezedSteps ==
  ASSUME NEW s \in Seq(Nat)
  PROVE  /\ Squeezed(s)[0] = <<>>
         /\ \A n \in 1..Len(s) : Squeezed(s)[n] = Squeeze(Squeezed(s)[n - 1], s[n])
<1> DEFINE S == {out \in Seq(Nat) : Neat(out)}
           g == [p \in (1..Len(s)) \X S |-> Squeeze(p[2], s[p[1]])]
           F == Squeezed(s)
<1>1. Len(s) \in Nat /\ \A n \in 1..Len(s) : s[n] \in Nat
  OBVIOUS
<1>2. <<>> \in S
  BY DEF Neat
<1>3. \A n \in 1..Len(s), out \in S : Squeeze(out, s[n]) \in S
  BY <1>1, SqueezeNeat DEF Neat
<1>4. /\ g \in [(1..Len(s)) \X S -> S]
      /\ \A n \in 1..Len(s), out \in S : g[<<n, out>>] = Squeeze(out, s[n])
  <2>1. \A p \in (1..Len(s)) \X S : p[1] \in 1..Len(s) /\ p[2] \in S
    OBVIOUS
  <2> HIDE DEF S
  <2> QED
    BY <1>3, <2>1
<1> HIDE DEF S, g
<1>5. PICK f : Repeats(f, S, <<>>, Len(s), g)
  BY <1>1, <1>2, <1>4, RepetitionExists
<1>6. /\ f \in [0..Len(s) -> S]
      /\ \A n \in 0..Len(s) : f[n] = IF n = 0 THEN <<>> ELSE g[<<n, f[n - 1]>>]
  BY <1>5 DEF Repeats
<1>7. \A n \in 0..Len(s) : n # 0 => n \in 1..Len(s) /\ f[n - 1] \in S
  <2>1. \A n \in 0..Len(s) : n # 0 => n \in 1..Len(s) /\ n - 1 \in 0..Len(s)
    BY <1>1
  <2> QED
    BY <1>6, <2>1
<1>8. \A n \in 0..Len(s) : f[n] = IF n = 0 THEN <<>> ELSE Squeeze(f[n - 1], s[n])
  BY <1>4, <1>6, <1>7
<1>9. f = [n \in 0..Len(s) |-> f[n]]
  BY <1>6
<1>10. IsSqueezing(f, s)
  BY <1>8, <1>9 DEF IsSqueezing
<1>11. F = CHOOSE h : IsSqueezing(h, s)
  BY DEF Squeezed, IsSqueezing
<1>12. IsSqueezing(F, s)
  BY <1>10, <1>11
<1> HIDE DEF F
<1>13. \A n \in 0..Len(s) : F[n] = IF n = 0 THEN <<>> ELSE Squeeze(F[n - 1], s[n])
  BY <1>12 DEF IsSqueezing
<1> QED
  BY <1>1, <1>13 DEF F

(* Every name comes out neat, and a neat one as it is. *)
LEMMA SqueezedNeat ==
  ASSUME NEW s \in Seq(Nat)
  PROVE  Neat(Squeezed(s)[Len(s)])
<1> DEFINE B == {n \in 0..Len(s) : ~Neat(Squeezed(s)[n])}
<1>1. Len(s) \in Nat /\ \A n \in 1..Len(s) : s[n] \in Nat
  OBVIOUS
<1>2. ASSUME B # {} PROVE FALSE
  <2>1. B \in SUBSET Nat
    OBVIOUS
  <2>2. Min(B) \in B /\ \A y \in B : Min(B) <= y
    <3> HIDE DEF B
    <3> QED
      BY <1>2, <2>1, MinNat
  <2>3. PICK m \in B : \A y \in B : m <= y
    BY <2>2
  <2>4. m # 0
    <3>1. Neat(<<>>)
      BY DEF Neat
    <3> QED
      BY <2>3, <3>1, SqueezedSteps
  <2>5. m \in 1..Len(s) /\ m - 1 \in 0..Len(s) /\ m - 1 \notin B
    BY <1>1, <2>3, <2>4
  <2>6. Neat(Squeezed(s)[m - 1])
    BY <2>5
  <2>7. Squeezed(s)[m] = Squeeze(Squeezed(s)[m - 1], s[m])
    BY <2>5, SqueezedSteps
  <2> QED
    BY <1>1, <2>3, <2>5, <2>6, <2>7, SqueezeNeat
<1> QED
  BY <1>1, <1>2

LEMMA SqueezedStays ==
  ASSUME NEW s, Neat(s)
  PROVE  Squeezed(s)[Len(s)] = s
<1> DEFINE B == {n \in 0..Len(s) : Squeezed(s)[n] # SubSeq(s, 1, n)}
<1>1. s \in Seq(Nat) /\ Len(s) \in Nat /\ \A n \in 1..Len(s) : s[n] \in Nat /\ s[n] > 32
  BY DEF Neat
<1>2. ASSUME B # {} PROVE FALSE
  <2>1. B \in SUBSET Nat
    OBVIOUS
  <2>2. Min(B) \in B /\ \A y \in B : Min(B) <= y
    <3> HIDE DEF B
    <3> QED
      BY <1>2, <2>1, MinNat
  <2>3. PICK m \in B : \A y \in B : m <= y
    BY <2>2
  <2>4. m # 0
    <3>1. SubSeq(s, 1, 0) = <<>>
      BY <1>1
    <3> QED
      BY <1>1, <2>3, <3>1, SqueezedSteps
  <2>5. m \in 1..Len(s) /\ m - 1 \in 0..Len(s) /\ m - 1 \notin B
    BY <1>1, <2>3, <2>4
  <2> DEFINE out == SubSeq(s, 1, m - 1)
  <2>6. Squeezed(s)[m] = Squeeze(out, s[m])
    BY <1>1, <2>5, SqueezedSteps
  <2>7. /\ out \in Seq(Nat) /\ Len(out) = m - 1
        /\ \A i \in 1..m - 1 : out[i] = s[i]
    BY <1>1, <2>5
  <2>8. Append(out, s[m]) = SubSeq(s, 1, m)
    BY <1>1, <2>5
  <2> HIDE DEF out
  <2>9. ~(EndsBlank(out) /\ s[m] = Underscore)
    <3>1. SUFFICES ASSUME EndsBlank(out), s[m] = Underscore PROVE FALSE
      OBVIOUS
    <3>2. m - 1 \in 1..Len(s) - 1 /\ m - 1 + 1 = m /\ out[m - 1] = Underscore
      BY <1>1, <2>5, <2>7, <3>1 DEF EndsBlank, Last
    <3>3. s[m - 1] = Underscore
      BY <1>1, <2>5, <2>7, <3>2
    <3> QED
      BY <3>1, <3>2, <3>3 DEF Neat
  <2>10. Squeeze(out, s[m]) = Append(out, s[m])
    <3>1. s[m] \in Nat /\ s[m] > 32
      BY <1>1, <2>5
    <3>2. s[m] \in Blank => s[m] = Underscore
      BY <3>1 DEF Blank
    <3> QED
      BY <2>9, <3>1, <3>2, SqueezeIs
  <2> QED
    BY <2>3, <2>6, <2>8, <2>10
<1>3. SubSeq(s, 1, Len(s)) = s
  BY <1>1
<1>4. Len(s) \in 0..Len(s) /\ Len(s) \notin B
  BY <1>1, <1>2
<1> QED
  BY <1>3, <1>4

LEMMA TrimType ==
  ASSUME NEW s \in Seq(Nat)
  PROVE  Trim(s) \in Seq(Nat)
<1> DEFINE solid == {i \in DOMAIN s : ~IsSpace(s[i])}
<1>1. CASE solid = {}
  BY <1>1 DEF Trim
<1>2. CASE solid # {}
  <2>1. solid \in SUBSET (1..Len(s)) /\ solid \in SUBSET Nat /\ Len(s) \in Nat
    OBVIOUS
  <2>2. Trim(s) = SubSeq(s, Min(solid), Max(solid))
    BY <1>2 DEF Trim
  <2> HIDE DEF solid
  <2>3. Min(solid) \in solid /\ Max(solid) \in solid
    BY <1>2, <2>1, MinNat, MaxIndex
  <2>4. Min(solid) \in 1..Len(s) /\ Max(solid) \in 1..Len(s)
    BY <2>1, <2>3
  <2> QED
    BY <2>2, <2>4
<1> QED
  BY <1>1, <1>2

LEMMA TrimStays ==
  ASSUME NEW s, Neat(s)
  PROVE  Trim(s) = s
<1> DEFINE solid == {i \in DOMAIN s : ~IsSpace(s[i])}
<1>1. s \in Seq(Nat) /\ Len(s) \in Nat /\ \A n \in 1..Len(s) : s[n] \in Nat /\ s[n] > 32
  BY DEF Neat
<1>2. solid = 1..Len(s)
  BY <1>1 DEF IsSpace
<1>3. CASE s = <<>>
  BY <1>2, <1>3 DEF Trim
<1>4. CASE s # <<>>
  <2>1. 1 \in 1..Len(s) /\ Len(s) \in 1..Len(s)
    BY <1>1, <1>4
  <2>2. Trim(s) = SubSeq(s, Min(1..Len(s)), Max(1..Len(s)))
    BY <1>2, <2>1 DEF Trim
  <2>3. Min(1..Len(s)) = 1
    <3>1. 1..Len(s) \in SUBSET Nat /\ 1..Len(s) # {}
      BY <2>1
    <3>2. Min(1..Len(s)) \in 1..Len(s) /\ Min(1..Len(s)) <= 1
      BY <2>1, <3>1, MinNat
    <3> QED
      BY <3>2
  <2>4. Max(1..Len(s)) = Len(s)
    <3>1. 1..Len(s) \in SUBSET (1..Len(s)) /\ 1..Len(s) # {}
      BY <2>1
    <3>2. Max(1..Len(s)) \in 1..Len(s) /\ Max(1..Len(s)) >= Len(s)
      BY <1>1, <2>1, <3>1, MaxIndex
    <3> QED
      BY <1>1, <3>2
  <2> QED
    BY <1>1, <2>2, <2>3, <2>4
<1> QED
  BY <1>3, <1>4

(* Reading a name again does not change it (epg.cpp 500-540). *)
THEOREM NormalIdempotent ==
  ASSUME NEW s \in Seq(Nat)
  PROVE  Normal(s) \in Seq(Nat) /\ Normal(Normal(s)) = Normal(s)
<1>1. Neat(Normal(s))
  BY TrimType, SqueezedNeat DEF Normal
<1>2. Normal(Normal(s)) = Normal(s)
  <2> DEFINE n == Normal(s)
  <2> HIDE DEF n
  <2>1. Neat(n) => Normal(n) = n
    BY TrimStays, SqueezedStays DEF Normal
  <2> QED
    BY <1>1, <2>1 DEF n
<1> QED
  BY <1>1, <1>2 DEF Neat

-----------------------------------------------------------------------------
(* The last line of a key, whose name counts. *)
IsLast(file, k, i) ==
  /\ i \in DOMAIN file /\ file[i].key = k
  /\ \A j \in DOMAIN file : j > i => file[j].key # k

Lines == Seq([key : Nat, name : Seq(Nat)])

LEMMA NameOfLast ==
  ASSUME NEW file \in Lines, NEW k, NEW i, IsLast(file, k, i)
  PROVE  NameOf(file, k) = Normal(file[i].name)
<1> DEFINE S == {j \in DOMAIN file : file[j].key = k}
<1>1. DOMAIN file = 1..Len(file) /\ Len(file) \in Nat
  BY DEF Lines
<1>2. S \in SUBSET (1..Len(file)) /\ i \in S
  BY <1>1 DEF IsLast
<1>3. Max(S) \in S /\ Max(S) >= i
  <2>1. S # {}
    BY <1>2
  <2> HIDE DEF S
  <2> QED
    BY <1>1, <1>2, <2>1, MaxIndex
<1>4. Max(S) = i
  BY <1>1, <1>2, <1>3 DEF IsLast
<1> QED
  BY <1>4 DEF NameOf

LEMMA LastExists ==
  ASSUME NEW file \in Lines, NEW k \in KeysOf(file)
  PROVE  \E i : IsLast(file, k, i)
<1> DEFINE S == {j \in DOMAIN file : file[j].key = k}
<1>1. DOMAIN file = 1..Len(file) /\ Len(file) \in Nat
  BY DEF Lines
<1>2. S \in SUBSET (1..Len(file)) /\ S # {}
  BY <1>1 DEF KeysOf
<1>3. Max(S) \in S /\ \A j \in S : Max(S) >= j
  <2> HIDE DEF S
  <2> QED
    BY <1>1, <1>2, MaxIndex
<1>4. \A j \in DOMAIN file : j > Max(S) => j \notin S
  <2> HIDE DEF S
  <2>1. Max(S) \in Nat
    <3>1. \A x \in S : x \in Nat
      BY <1>2
    <3> QED
      BY <1>3, <3>1
  <2>2. \A j \in DOMAIN file : j \in Nat
    BY <1>1
  <2> QED
    BY <1>3, <2>1, <2>2
<1>5. IsLast(file, k, Max(S))
  BY <1>3, <1>4 DEF IsLast
<1> QED
  BY <1>5

LEMMA NameOfType ==
  ASSUME NEW file \in Lines, NEW k \in KeysOf(file)
  PROVE  NameOf(file, k) \in Seq(Nat) /\ Normal(NameOf(file, k)) = NameOf(file, k)
<1>1. PICK i : IsLast(file, k, i)
  BY LastExists
<1>2. file[i].name \in Seq(Nat)
  <2> DEFINE R == [key : Nat, name : Seq(Nat)]
  <2>1. \A r \in R : r.name \in Seq(Nat)
    OBVIOUS
  <2>2. file \in Seq(R)
    BY DEF Lines
  <2> HIDE DEF R
  <2>3. i \in 1..Len(file)
    BY <1>1, <2>2 DEF IsLast
  <2>4. file[i] \in R
    BY <2>2, <2>3
  <2> QED
    BY <2>1, <2>4
<1> QED
  BY <1>1, <1>2, NameOfLast, NormalIdempotent

(* With the first line read, the others say what they said. *)
LEMMA NameOfTail ==
  ASSUME NEW file \in Lines, file # <<>>, NEW k
  PROVE  /\ Tail(file) \in Lines /\ Head(file) \in [key : Nat, name : Seq(Nat)]
         /\ k \in KeysOf(file) <=> k = Head(file).key \/ k \in KeysOf(Tail(file))
         /\ k \in KeysOf(Tail(file)) => NameOf(Tail(file), k) = NameOf(file, k)
         /\ k \in KeysOf(file) /\ k \notin KeysOf(Tail(file)) =>
              NameOf(file, k) = Normal(Head(file).name)
<1> DEFINE t == Tail(file)
<1>1. DOMAIN file = 1..Len(file) /\ Len(file) \in Nat /\ Len(file) > 0
  BY DEF Lines
<1>2. /\ t \in Lines /\ Head(file) = file[1] /\ Head(file) \in [key : Nat, name : Seq(Nat)]
      /\ DOMAIN t = 1..Len(file) - 1
      /\ \A i \in 1..Len(file) - 1 : t[i] = file[i + 1]
  <2> DEFINE R == [key : Nat, name : Seq(Nat)]
  <2>1. file \in Seq(R) /\ file # <<>>
    BY DEF Lines
  <2> HIDE DEF R
  <2>2. t \in Seq(R) /\ Head(file) = file[1] /\ file[1] \in R
    BY <1>1, <2>1
  <2>3. Len(t) = Len(file) - 1 /\ \A i \in 1..Len(file) - 1 : t[i] = file[i + 1]
    BY <1>1, <2>1
  <2>4. DOMAIN t = 1..Len(file) - 1
    BY <2>2, <2>3
  <2> QED
    BY <2>2, <2>3, <2>4 DEF Lines, R
<1> HIDE DEF t
<1>3. \A i \in DOMAIN file :
        i = 1 \/ (i - 1 \in DOMAIN t /\ i - 1 + 1 = i /\ t[i - 1] = file[i])
  BY <1>1, <1>2
<1>4. \A i \in DOMAIN t : i + 1 \in DOMAIN file /\ t[i] = file[i + 1]
  BY <1>1, <1>2
<1>5. 1 \in DOMAIN file
  BY <1>1
<1>6. k \in KeysOf(file) <=> k = Head(file).key \/ k \in KeysOf(t)
  BY <1>2, <1>3, <1>4, <1>5 DEF KeysOf
<1>7. ASSUME k \in KeysOf(t) PROVE NameOf(t, k) = NameOf(file, k)
  <2>1. PICK i : IsLast(t, k, i)
    BY <1>2, <1>7, LastExists
  <2>2. i \in 1..Len(file) - 1 /\ i + 1 \in DOMAIN file /\ t[i] = file[i + 1]
    BY <1>2, <1>4, <2>1 DEF IsLast
  <2>3. ASSUME NEW j \in DOMAIN file, j > i + 1 PROVE file[j].key # k
    <3>1. j - 1 \in DOMAIN t /\ j - 1 > i /\ t[j - 1] = file[j]
      BY <1>1, <1>3, <2>2, <2>3
    <3> QED
      BY <2>1, <3>1 DEF IsLast
  <2>4. IsLast(file, k, i + 1)
    BY <2>1, <2>2, <2>3 DEF IsLast
  <2> QED
    BY <1>2, <2>1, <2>2, <2>4, NameOfLast
<1>8. ASSUME k \in KeysOf(file), k \notin KeysOf(t)
      PROVE  NameOf(file, k) = Normal(Head(file).name)
  <2>1. file[1].key = k
    BY <1>2, <1>6, <1>8
  <2>2. ASSUME NEW j \in DOMAIN file, j > 1 PROVE file[j].key # k
    BY <1>1, <1>3, <1>8, <2>2 DEF KeysOf
  <2>3. IsLast(file, k, 1)
    BY <1>5, <2>1, <2>2 DEF IsLast
  <2> QED
    BY <1>2, <2>3, NameOfLast
<1> QED
  BY <1>2, <1>6, <1>7, <1>8 DEF t

-----------------------------------------------------------------------------
TypedTables(tvnmap, tvamap) ==
  /\ IsFiniteSet(DOMAIN tvnmap) /\ IsFiniteSet(DOMAIN tvamap)
  /\ \A n \in DOMAIN tvnmap : n \in Seq(Nat) /\ tvnmap[n] \in Nat
  /\ \A k \in DOMAIN tvamap : k \in Nat /\ tvamap[k] \in Seq(Nat)

LinesInv ==
  /\ unread \in Lines
  /\ tvmap_all # NoFile => tvmap_all \in Lines
  /\ tvmap_dat # NoFile => tvmap_dat \in Lines
  /\ TypedTables(tables.tvnmap, tables.tvamap)
  /\ \A k \in DOMAIN named : named[k] \in Seq(Nat)

LEMMA EmptyTyped == TypedTables(Empty, Empty) /\ <<>> \in Lines
<1>1. IsFiniteSet({})
  BY FS_EmptySet
<1> QED
  BY <1>1 DEF TypedTables, Empty, Lines

LEMMA PutTyped ==
  ASSUME NEW tvnmap, NEW tvamap, TypedTables(tvnmap, tvamap),
         NEW k \in Nat, NEW name \in Seq(Nat)
  PROVE  /\ TypedTables(Put(tvnmap, name, k), Put(tvamap, k, name))
         /\ TypedTables(tvnmap, Put(tvamap, k, name))
         /\ TypedTables(Put(tvnmap, name, k), tvamap)
<1> DEFINE pn == Put(tvnmap, name, k)
           pa == Put(tvamap, k, name)
<1>1. /\ DOMAIN pn = DOMAIN tvnmap \cup {name}
      /\ \A n \in DOMAIN tvnmap \cup {name} :
           pn[n] = IF n = name THEN k ELSE tvnmap[n]
  BY DEF Put
<1>2. /\ DOMAIN pa = DOMAIN tvamap \cup {k}
      /\ \A x \in DOMAIN tvamap \cup {k} :
           pa[x] = IF x = k THEN name ELSE tvamap[x]
  BY DEF Put
<1> HIDE DEF pn, pa
<1>3. \A n \in DOMAIN pn : n \in Seq(Nat) /\ pn[n] \in Nat
  BY <1>1 DEF TypedTables
<1>4. \A x \in DOMAIN pa : x \in Nat /\ pa[x] \in Seq(Nat)
  BY <1>2 DEF TypedTables
<1>5. IsFiniteSet(DOMAIN pn) /\ IsFiniteSet(DOMAIN pa)
  <2>1. IsFiniteSet(DOMAIN tvnmap \cup {name}) /\ IsFiniteSet(DOMAIN tvamap \cup {k})
    BY FS_AddElement DEF TypedTables
  <2> QED
    BY <1>1, <1>2, <2>1
<1> QED
  BY <1>3, <1>4, <1>5 DEF TypedTables, pn, pa

LEMMA EnterTyped ==
  ASSUME NEW t, NEW line \in [key : Nat, name : Seq(Nat)], TypedTables(t.tvnmap, t.tvamap)
  PROVE  TypedTables(EnterLine(t, line).tvnmap, EnterLine(t, line).tvamap)
<1> DEFINE name == Normal(line.name)
           taken == name \in DOMAIN t.tvnmap /\ Differ(t.tvnmap[name], line.key)
           e == EnterLine(t, line)
<1>1. /\ e.tvnmap = IF taken THEN t.tvnmap ELSE Put(t.tvnmap, name, line.key)
      /\ e.tvamap = Put(t.tvamap, line.key, name)
  BY DEF EnterLine
<1>2. line.key \in Nat /\ name \in Seq(Nat)
  BY NormalIdempotent
<1> HIDE DEF name
<1>3. /\ TypedTables(Put(t.tvnmap, name, line.key), Put(t.tvamap, line.key, name))
      /\ TypedTables(t.tvnmap, Put(t.tvamap, line.key, name))
  BY <1>2, PutTyped
<1> HIDE DEF e
<1>4. TypedTables(e.tvnmap, e.tvamap)
  BY <1>1, <1>3
<1> QED
  BY <1>4 DEF e

LEMMA ChannelTyped ==
  ASSUME NEW tvnmap, NEW tvamap, TypedTables(tvnmap, tvamap),
         NEW k \in Nat, NEW name \in Seq(Nat)
  PROVE  TypedTables(PutNew(tvnmap, name, k), PutNew(tvamap, k, name))
<1>1. /\ TypedTables(Put(tvnmap, name, k), Put(tvamap, k, name))
      /\ TypedTables(tvnmap, Put(tvamap, k, name))
      /\ TypedTables(Put(tvnmap, name, k), tvamap)
  BY PutTyped
<1> QED
  BY <1>1 DEF PutNew

(* What save_tvmap writes are lines again. *)
LEMMA AllLinesTyped ==
  ASSUME NEW f, IsFiniteSet(DOMAIN f), NEW file \in AllLines(f),
         \A k \in DOMAIN f : k \in Nat /\ f[k] \in Seq(Nat)
  PROVE  /\ file \in Lines
         /\ \A k \in DOMAIN f : NameOf(file, k) = Normal(f[k])
<1>1. PICK s \in SetToSeqs(DOMAIN f) :
        file = [i \in DOMAIN s |-> [key |-> s[i], name |-> f[s[i]]]]
  BY DEF AllLines, InOrder
<1> DEFINE n == Cardinality(DOMAIN f)
           R == [key : Nat, name : Seq(Nat)]
<1>2. /\ n \in Nat /\ s \in [1..n -> DOMAIN f]
      /\ \A x \in DOMAIN f : \E i \in 1..n : s[i] = x
  BY OrderLists
<1>3. \A i, j \in 1..n : i # j => s[i] # s[j]
  BY <1>2 DEF SetToSeqs
<1>4. DOMAIN file = 1..n /\ \A i \in 1..n : file[i] = [key |-> s[i], name |-> f[s[i]]]
  BY <1>1, <1>2
<1>5. \A i \in 1..n : file[i] \in R
  BY <1>2, <1>4
<1>6. \A i \in 1..n : file[i].key = s[i] /\ file[i].name = f[s[i]]
  BY <1>4
<1> HIDE DEF R, n
<1>7. file \in Seq(R)
  <2>1. file = [i \in 1..n |-> file[i]]
    BY <1>1, <1>4
  <2>2. [i \in 1..n |-> file[i]] \in Seq(R)
    BY <1>2, <1>5
  <2> QED
    BY <2>1, <2>2
<1>8. file \in Lines
  BY <1>7 DEF Lines, R
<1>9. ASSUME NEW k \in DOMAIN f PROVE NameOf(file, k) = Normal(f[k])
  <2>1. PICK i \in 1..n : s[i] = k
    BY <1>2
  <2>2. \A j \in 1..n : j > i => file[j].key # k
    <3>1. \A j \in 1..n : j > i => j # i
      BY <1>2
    <3> QED
      BY <1>3, <1>6, <2>1, <3>1
  <2>3. IsLast(file, k, i)
    BY <1>4, <1>6, <2>1, <2>2 DEF IsLast
  <2> QED
    BY <1>6, <1>8, <2>1, <2>3, NameOfLast
<1> QED
  BY <1>8, <1>9

LEMMA NameLinesTyped ==
  ASSUME NEW f, IsFiniteSet(DOMAIN f), NEW file \in NameLines(f),
         \A x \in DOMAIN f : x \in Seq(Nat) /\ f[x] \in Nat
  PROVE  file \in Lines
<1>1. PICK s \in SetToSeqs(DOMAIN f) :
        file = [i \in DOMAIN s |-> [key |-> f[s[i]], name |-> s[i]]]
  BY DEF NameLines, InOrder
<1> DEFINE n == Cardinality(DOMAIN f)
           R == [key : Nat, name : Seq(Nat)]
<1>2. n \in Nat /\ s \in [1..n -> DOMAIN f]
  BY OrderLists
<1>3. DOMAIN file = 1..n /\ \A i \in 1..n : file[i] = [key |-> f[s[i]], name |-> s[i]]
  BY <1>1, <1>2
<1>4. \A i \in 1..n : file[i] \in R
  BY <1>2, <1>3
<1> HIDE DEF R, n
<1>5. file = [i \in 1..n |-> file[i]]
  BY <1>1, <1>3
<1>6. [i \in 1..n |-> file[i]] \in Seq(R)
  BY <1>2, <1>4
<1> QED
  BY <1>5, <1>6 DEF Lines, R

-----------------------------------------------------------------------------
(* save_tvmap, mode 0: the tables then, and the names it wrote. *)
LEMMA SaveAllTyped ==
  ASSUME TablesInv, FilesInv, LinesInv, SaveAll
  PROVE  /\ LinesInv'
         /\ tvmap_all' \in Lines
         /\ \A k \in DOMAIN tables.tvamap :
              k \in KeysOf(tvmap_all') /\ NameOf(tvmap_all', k) = Normal(tables.tvamap[k])
<1> DEFINE old == tables.tvamap
           all == [k \in DOMAIN old \cup DOMAIN named |->
                     IF k \in DOMAIN old THEN old[k] ELSE named[k]]
<1>1. /\ tables' = [tables EXCEPT !.tvamap = all]
      /\ tvmap_all' \in AllLines(all)
      /\ UNCHANGED <<unread, named, tvmap_dat>>
  BY DEF SaveAll
<1>2. /\ TypedTables(tables.tvnmap, old)
      /\ DOMAIN named \subseteq Keys /\ \A k \in DOMAIN named : named[k] \in Seq(Nat)
  BY DEF LinesInv, FilesInv
<1>3. tables'.tvnmap = tables.tvnmap /\ tables'.tvamap = all
  BY <1>1 DEF TablesInv, IsTables
<1>4. IsFiniteSet(DOMAIN old \cup DOMAIN named)
  BY <1>2, AddedFinite DEF TypedTables
<1>5. /\ DOMAIN all = DOMAIN old \cup DOMAIN named
      /\ \A k \in DOMAIN old \cup DOMAIN named :
           all[k] = IF k \in DOMAIN old THEN old[k] ELSE named[k]
  OBVIOUS
<1> HIDE DEF all
<1>6. \A k \in DOMAIN all : k \in Nat /\ all[k] \in Seq(Nat)
  BY <1>2, <1>5, TvMapAssumption DEF TypedTables
<1>7. /\ tvmap_all' \in Lines
      /\ \A k \in DOMAIN all : NameOf(tvmap_all', k) = Normal(all[k])
      /\ KeysOf(tvmap_all') = DOMAIN all
  BY <1>1, <1>4, <1>5, <1>6, AllLinesTyped, AllLinesRight
<1>8. TypedTables(tables.tvnmap, all)
  BY <1>2, <1>4, <1>5, <1>6 DEF TypedTables
<1>9. LinesInv'
  BY <1>1, <1>3, <1>7, <1>8 DEF LinesInv
<1> QED
  BY <1>5, <1>7, <1>9

(* save_tvmap, mode 1 *)
LEMMA SaveDatTyped ==
  ASSUME TablesInv, FilesInv, LinesInv, SaveDat
  PROVE  LinesInv'
<1> DEFINE old == tables.tvnmap
           new == {named[k] : k \in DOMAIN named} \ DOMAIN old
<1>1. PICK first \in {f \in [new -> DOMAIN named] : \A n \in new : named[f[n]] = n} :
        LET tvnmap == [n \in DOMAIN old \cup new |-> IF n \in new THEN first[n] ELSE old[n]]
        IN tables' = [tables EXCEPT !.tvnmap = tvnmap] /\ tvmap_dat' \in NameLines(tvnmap)
  BY DEF SaveDat
<1> DEFINE dat == [n \in DOMAIN old \cup new |-> IF n \in new THEN first[n] ELSE old[n]]
<1>2. /\ tables' = [tables EXCEPT !.tvnmap = dat] /\ tvmap_dat' \in NameLines(dat)
      /\ UNCHANGED <<unread, named, tvmap_all>>
  BY <1>1 DEF SaveDat
<1>3. /\ TypedTables(old, tables.tvamap)
      /\ DOMAIN named \subseteq Keys /\ \A k \in DOMAIN named : named[k] \in Seq(Nat)
  BY DEF LinesInv, FilesInv
<1>4. tables'.tvnmap = dat /\ tables'.tvamap = tables.tvamap
  BY <1>2 DEF TablesInv, IsTables
<1>5. /\ DOMAIN dat = DOMAIN old \cup new
      /\ \A n \in DOMAIN old \cup new : dat[n] = IF n \in new THEN first[n] ELSE old[n]
  OBVIOUS
<1>6. \A n \in new : n \in Seq(Nat)
  BY <1>3
<1>7. first \in [new -> DOMAIN named] /\ \A n \in new : named[first[n]] = n
  BY <1>1
<1> HIDE DEF dat, new
<1>8. IsFiniteSet(DOMAIN old \cup new)
  BY <1>3, <1>7, AddedFinite DEF TypedTables
<1>9. \A n \in DOMAIN dat : n \in Seq(Nat) /\ dat[n] \in Nat
  BY <1>3, <1>5, <1>6, <1>7, TvMapAssumption DEF TypedTables
<1>10. tvmap_dat' \in Lines
  BY <1>2, <1>5, <1>8, <1>9, NameLinesTyped
<1>11. TypedTables(dat, tables.tvamap)
  BY <1>3, <1>5, <1>8, <1>9 DEF TypedTables
<1> QED
  BY <1>2, <1>3, <1>4, <1>10, <1>11 DEF LinesInv

LEMMA StepTyped == TablesInv /\ FilesInv /\ LinesInv /\ [Next]_vars => LinesInv'
<1> SUFFICES ASSUME TablesInv, FilesInv, LinesInv, [Next]_vars PROVE LinesInv'
  OBVIOUS
<1>1. ASSUME NEW file, file # NoFile => file \in Lines, Open(file),
             UNCHANGED <<named, files>>
      PROVE  LinesInv'
  <2>1. TypedTables(Empty, tables.tvamap)
    BY EmptyTyped DEF LinesInv, TypedTables
  <2>2. CASE file = NoFile
    BY <1>1, <2>2 DEF Open, LinesInv, files
  <2>3. CASE file # NoFile
    <3>1. tables'.tvnmap = Empty /\ tables'.tvamap = tables.tvamap /\ unread' = file
      BY <1>1, <2>3 DEF Open, Cleared
    <3> QED
      BY <1>1, <2>1, <2>3, <3>1 DEF LinesInv, files
  <2> QED
    BY <2>2, <2>3
<1>2. CASE OpenTable
  BY <1>1, <1>2 DEF OpenTable, LinesInv
<1>3. CASE OpenXmltv
  BY <1>1, <1>3 DEF OpenXmltv, LinesInv
<1>4. CASE ReadLine
  <2>1. /\ tables' = EnterLine(tables, Head(unread)) /\ unread' = Tail(unread)
        /\ unread # <<>> /\ UNCHANGED <<named, files>>
    BY <1>4 DEF ReadLine
  <2>2. unread' \in Lines /\ Head(unread) \in [key : Nat, name : Seq(Nat)]
    BY <2>1, NameOfTail DEF LinesInv
  <2>3. TypedTables(tables'.tvnmap, tables'.tvamap)
    BY <2>1, <2>2, EnterTyped DEF LinesInv
  <2> QED
    BY <2>1, <2>2, <2>3 DEF LinesInv, files
<1>5. ASSUME NEW k \in Keys, NEW name \in EpgNames, ReadChannelTsonid(k, name)
      PROVE  LinesInv'
  <2>1. /\ tables'.tvnmap = PutNew(tables.tvnmap, name, k)
        /\ tables'.tvamap = PutNew(tables.tvamap, k, name)
        /\ UNCHANGED <<unread, named, files>>
    BY <1>5 DEF ReadChannelTsonid, EnterChannel, TablesInv, IsTables
  <2>2. k \in Nat /\ name \in Seq(Nat)
    BY TvMapAssumption DEF IsName
  <2>3. TypedTables(tables'.tvnmap, tables'.tvamap)
    BY <2>1, <2>2, ChannelTyped DEF LinesInv
  <2> QED
    BY <2>1, <2>3 DEF LinesInv, files
<1>6. CASE EndEpg
  <2>1. PICK S \in SUBSET Keys : named' \in [S -> EpgNames]
    BY <1>6 DEF EndEpg
  <2>2. \A k \in DOMAIN named' : named'[k] \in Seq(Nat)
    BY <2>1, TvMapAssumption DEF IsName
  <2> QED
    BY <1>6, <2>2 DEF EndEpg, LinesInv, files
<1>7. CASE SaveAll
  BY <1>7, SaveAllTyped
<1>8. CASE SaveDat
  BY <1>8, SaveDatTyped
<1>9. CASE NextRun
  BY <1>9, EmptyTyped DEF NextRun, LinesInv, files, NoTables, Empty
<1>10. CASE EndLines \/ SaveFails \/ UNCHANGED vars
  BY <1>10 DEF EndLines, SaveFails, vars, LinesInv, files
<1> QED
  BY <1>2, <1>3, <1>4, <1>5, <1>6, <1>7, <1>8, <1>9, <1>10 DEF Next

-----------------------------------------------------------------------------
(* What tvmap_all.dat says of a service is known, or still to be read. *)
Keeps(file, rest, tvamap) ==
  \A k \in KeysOf(file) :
    IF k \in KeysOf(rest) THEN NameOf(rest, k) = NameOf(file, k)
    ELSE k \in DOMAIN tvamap /\ tvamap[k] = NameOf(file, k)

Kept == Keeps(tvmap_all, unread, tables.tvamap)

KeptInv ==
  /\ step # "lines" => unread = <<>>
  /\ tvmap_all # NoFile /\ step \in {"lines", "epg", "all"} => Kept

LEMMA KeptFrame ==
  UNCHANGED <<tvmap_all, unread>> /\ tables'.tvamap = tables.tvamap => (Kept' <=> Kept)
BY DEF Kept

LEMMA NothingUnread == KeysOf(<<>>) = {}
BY DEF KeysOf

(* Nothing is forgotten by a table that has what another has. *)
LEMMA KeepsMore ==
  ASSUME NEW file, NEW rest, NEW tvamap, NEW more, Keeps(file, rest, tvamap),
         \A x \in DOMAIN tvamap : x \in DOMAIN more /\ more[x] = tvamap[x]
  PROVE  Keeps(file, rest, more)
BY DEF Keeps

(* A line read goes from the file to the table. *)
LEMMA KeepsRead ==
  ASSUME NEW file, NEW rest \in Seq([key : Nat, name : Seq(Nat)]), rest # <<>>,
         NEW tvamap, Keeps(file, rest, tvamap)
  PROVE  Keeps(file, Tail(rest), Put(tvamap, Head(rest).key, Normal(Head(rest).name)))
<1> DEFINE key == Head(rest).key
           name == Normal(Head(rest).name)
           next == Put(tvamap, key, name)
           after == Tail(rest)
<1>1. /\ DOMAIN next = DOMAIN tvamap \cup {key}
      /\ next[key] = name
      /\ \A x \in DOMAIN tvamap : x # key => next[x] = tvamap[x]
  BY DEF Put
<1> HIDE DEF key, name, next, after
<1>2. Keeps(file, after, next)
  <2> SUFFICES ASSUME NEW k \in KeysOf(file)
               PROVE  IF k \in KeysOf(after)
                        THEN NameOf(after, k) = NameOf(file, k)
                        ELSE k \in DOMAIN next /\ next[k] = NameOf(file, k)
    BY DEF Keeps
  <2>1. IF k \in KeysOf(rest) THEN NameOf(rest, k) = NameOf(file, k)
        ELSE k \in DOMAIN tvamap /\ tvamap[k] = NameOf(file, k)
    BY DEF Keeps
  <2>2. /\ k \in KeysOf(rest) <=> k = key \/ k \in KeysOf(after)
        /\ k \in KeysOf(after) => NameOf(after, k) = NameOf(rest, k)
        /\ k \in KeysOf(rest) /\ k \notin KeysOf(after) => NameOf(rest, k) = name
    BY NameOfTail DEF Lines, key, name, after
  <2>3. CASE k \in KeysOf(after)
    BY <2>1, <2>2, <2>3
  <2>4. CASE k \notin KeysOf(after) /\ k = key
    BY <1>1, <2>1, <2>2, <2>4
  <2>5. CASE k \notin KeysOf(after) /\ k # key
    BY <1>1, <2>1, <2>2, <2>5
  <2> QED
    BY <2>3, <2>4, <2>5
<1> QED
  BY <1>2 DEF key, name, next, after

LEMMA FileKeeps == \A file, tvamap : Keeps(file, file, tvamap)
BY DEF Keeps

LEMMA OpenKeeps ==
  ASSUME FilesInv, KeptInv, OpenTable \/ OpenXmltv
  PROVE  KeptInv'
<1>1. CASE OpenTable
  <2>1. /\ step = "start" /\ unread = <<>> /\ UNCHANGED tvmap_all
        /\ Open(IF tvmap_all # NoFile THEN tvmap_all ELSE tvmap_dat)
    BY <1>1 DEF OpenTable, KeptInv, files
  <2>2. CASE tvmap_all # NoFile
    <3>1. step' = "lines" /\ unread' = tvmap_all
      BY <2>1, <2>2 DEF Open
    <3>2. Kept'
      BY <2>1, <2>2, <3>1, FileKeeps DEF Kept
    <3> QED
      BY <3>1, <3>2 DEF KeptInv
  <2>3. CASE tvmap_all = NoFile
    <3>1. step' = "lines" \/ (step' = "epg" /\ unread' = <<>>)
      BY <2>1, <2>3 DEF Open
    <3> QED
      BY <2>1, <2>3, <3>1 DEF KeptInv
  <2> QED
    BY <2>2, <2>3
<1>2. CASE OpenXmltv
  <2>1. /\ step = "epg" /\ DOMAIN tables.tvnmap = {} /\ UNCHANGED tvmap_all /\ unread = <<>>
        /\ Open(tvmap_dat)
    BY <1>2 DEF OpenXmltv, KeptInv, files, Empty
  <2>2. DOMAIN tables.tvamap = {}
    BY <2>1 DEF FilesInv, Agreeing, Agree
  <2>3. tvmap_all # NoFile => KeysOf(tvmap_all) = {}
    BY <2>1, <2>2, NothingUnread DEF KeptInv, Kept, Keeps
  <2>4. tvmap_all' # NoFile => Kept'
    BY <2>1, <2>3 DEF Kept, Keeps
  <2>5. step' = "lines" \/ (step' = "epg" /\ unread' = <<>>)
    BY <2>1 DEF Open
  <2> QED
    BY <2>4, <2>5 DEF KeptInv
<1> QED
  BY <1>1, <1>2

LEMMA LineKeeps ==
  ASSUME LinesInv, KeptInv, ReadLine
  PROVE  KeptInv'
<1>1. /\ step = "lines" /\ step' = "lines" /\ unread # <<>> /\ UNCHANGED tvmap_all
      /\ tables' = EnterLine(tables, Head(unread)) /\ unread' = Tail(unread)
  BY DEF ReadLine, files
<1>2. tables'.tvamap = Put(tables.tvamap, Head(unread).key, Normal(Head(unread).name))
  BY <1>1 DEF EnterLine
<1>3. ASSUME tvmap_all # NoFile PROVE Kept'
  <2>1. Keeps(tvmap_all, unread, tables.tvamap)
    BY <1>1, <1>3 DEF KeptInv, Kept
  <2>2. Keeps(tvmap_all, Tail(unread), tables'.tvamap)
    BY <1>1, <1>2, <2>1, KeepsRead DEF LinesInv, Lines
  <2> QED
    BY <1>1, <2>2 DEF Kept
<1> QED
  BY <1>1, <1>3 DEF KeptInv

LEMMA StepKept == TablesInv /\ FilesInv /\ LinesInv /\ KeptInv /\ [Next]_vars => KeptInv'
<1> SUFFICES ASSUME TablesInv, FilesInv, LinesInv, KeptInv, [Next]_vars PROVE KeptInv'
  OBVIOUS
<1>1. CASE OpenTable \/ OpenXmltv
  BY <1>1, OpenKeeps
<1>2. CASE ReadLine
  BY <1>2, LineKeeps
<1>3. CASE EndLines \/ EndEpg \/ UNCHANGED vars
  BY <1>3, KeptFrame DEF EndLines, EndEpg, vars, KeptInv, files
<1>4. ASSUME NEW k \in Keys, NEW name \in EpgNames, ReadChannelTsonid(k, name)
      PROVE  KeptInv'
  <2>1. /\ tables'.tvamap = PutNew(tables.tvamap, k, name)
        /\ step = "epg" /\ UNCHANGED <<step, unread, tvmap_all>>
    BY <1>4 DEF ReadChannelTsonid, EnterChannel, TablesInv, IsTables, files
  <2> DEFINE more == PutNew(tables.tvamap, k, name)
  <2>2. \A x \in DOMAIN tables.tvamap : x \in DOMAIN more /\ more[x] = tables.tvamap[x]
    BY DEF PutNew, Put
  <2> HIDE DEF more
  <2>3. Keeps(tvmap_all, unread, tables.tvamap) => Keeps(tvmap_all, unread, more)
    BY <2>2, KeepsMore
  <2>4. Kept => Kept'
    BY <2>1, <2>3 DEF Kept, more
  <2> QED
    BY <2>1, <2>4 DEF KeptInv
<1>5. CASE SaveAll
  BY <1>5 DEF SaveAll, KeptInv
<1>6. CASE SaveDat
  BY <1>6 DEF SaveDat, KeptInv
<1>7. CASE SaveFails
  BY <1>7 DEF SaveFails, KeptInv
<1>8. CASE NextRun
  BY <1>8 DEF NextRun, KeptInv
<1> QED
  BY <1>1, <1>2, <1>3, <1>4, <1>5, <1>6, <1>7, <1>8 DEF Next

(* Only save_tvmap writes the file, and it writes what was read. *)
LEMMA StepKeepsList ==
  TablesInv /\ FilesInv /\ LinesInv /\ KeptInv /\ [Next]_vars => [ListKeptStep]_vars
<1> SUFFICES ASSUME TablesInv, FilesInv, LinesInv, KeptInv, [Next]_vars PROVE ListKeptStep
  OBVIOUS
<1>1. CASE SaveAll
  <2> SUFFICES ASSUME tvmap_all # NoFile, NEW k \in KeysOf(tvmap_all)
               PROVE  /\ k \in KeysOf(tvmap_all')
                      /\ NameOf(tvmap_all', k) = NameOf(tvmap_all, k)
    BY DEF ListKeptStep
  <2>1. k \in DOMAIN tables.tvamap /\ tables.tvamap[k] = NameOf(tvmap_all, k)
    <3>1. step = "all" /\ unread = <<>>
      BY <1>1 DEF SaveAll, KeptInv
    <3> QED
      BY <3>1, NothingUnread DEF KeptInv, Kept, Keeps
  <2>2. k \in KeysOf(tvmap_all') /\ NameOf(tvmap_all', k) = Normal(tables.tvamap[k])
    BY <1>1, <2>1, SaveAllTyped
  <2>3. Normal(NameOf(tvmap_all, k)) = NameOf(tvmap_all, k)
    BY NameOfType DEF LinesInv
  <2> QED
    BY <2>1, <2>2, <2>3
<1>2. ASSUME tvmap_all' = tvmap_all PROVE ListKeptStep
  BY <1>2 DEF ListKeptStep, KeysOf, NameOf
<1>3. SaveAll \/ tvmap_all' = tvmap_all
  BY DEF Next, OpenTable, ReadLine, EndLines, OpenXmltv, ReadChannelTsonid, EndEpg, SaveDat,
     SaveFails, NextRun, vars, files
<1> QED
  BY <1>1, <1>2, <1>3

(* epg.cpp 545-554, 585-588: once tvmap_all.dat lists a service it always    *)
(* will, under the name load_tvmap read, whatever later runs load and        *)
(* whichever writes fail.                                                    *)
THEOREM ListAlwaysKept == Spec => ListKept
<1>1. Init => TablesInv
  BY DEF Init, TablesInv, NoTables, IsTables, Redirects, Empty
<1>2. Init => FilesInv
  BY DEF Init, FilesInv, Empty
<1>3. Init => LinesInv
  BY EmptyTyped, TvMapAssumption DEF Init, LinesInv, NoTables, Empty, Lines
<1>4. Init => KeptInv
  BY DEF Init, KeptInv
<1> QED
  BY <1>1, <1>2, <1>3, <1>4, StepRedirects, StepFiles, StepTyped, StepKept, StepKeepsList,
     PTL DEF Spec, ListKept
=============================================================================
