------------------------------- MODULE TvMap --------------------------------
(***************************************************************************)
(* The channel tables over several runs of epgen -tvmap (main.cpp,         *)
(* lib/epg.cpp): a run reads tvmap_all.dat or else tvmap.dat line by line, *)
(* an XMLTV document may add channels, the events loaded give services     *)
(* their names, and save_tvmap writes both files, from which the next run  *)
(* starts.                                                                 *)
(***************************************************************************)
EXTENDS TvTables

CONSTANTS
  Keys,        \* services, numbered in the order of memcmp
  Files,       \* tables a user may supply, sequences of lines
  EpgNames,    \* trimmed channel names found in events and XMLTV documents
  NoFile,      \* the contents of a file that is not there
  MaxRuns      \* bound on the runs

(* What fgets and strtok leave together as the name of a line. *)
IsName(name) ==
  /\ name \in Seq(Nat) /\ Trim(name) # <<>>
  /\ \A i \in DOMAIN name : name[i] \notin {0, 10, 35, 58, 61}

ASSUME TvMapAssumption ==
  /\ Keys \subseteq Nat /\ IsFiniteSet(Keys) /\ InvalidKey \in Nat
  /\ \A file \in Files :
       /\ file \in Seq([key : Nat, name : Seq(Nat)])
       /\ \A i \in DOMAIN file : IsName(file[i].name)
  /\ \A name \in EpgNames : IsName(name)
  /\ MaxRuns \in Nat

VARIABLES
  step,         \* "start", "lines", "epg", "all", "dat" or "end"
  unread,       \* the lines of the table file still to be read
  tables,       \* tvmap, tvnmap and tvamap
  named,        \* the services of eventDB with a channel name, and the name
  tvmap_all,    \* the two files, sequences of lines
  tvmap_dat,
  written,      \* whether this run could write the files so far
  runs

vars == <<step, unread, tables, named, tvmap_all, tvmap_dat, written, runs>>
files == <<tvmap_all, tvmap_dat>>

Init ==
  /\ step = "start" /\ unread = <<>> /\ tables = NoTables /\ named = Empty
  /\ \/ tvmap_all = NoFile /\ tvmap_dat \in Files \cup {NoFile}
     \/ tvmap_all \in Files /\ tvmap_dat = NoFile
  /\ written = TRUE /\ runs = 1

Open(file) ==
  IF file = NoFile
    THEN step' = "epg" /\ UNCHANGED <<unread, tables>>
    ELSE step' = "lines" /\ unread' = file /\ tables' = Cleared(tables)

(* main: tvmap_all.dat is preferred. *)
OpenTable ==
  /\ step = "start"
  /\ Open(IF tvmap_all # NoFile THEN tvmap_all ELSE tvmap_dat)
  /\ UNCHANGED <<named, files, written, runs>>

ReadLine ==
  /\ step = "lines" /\ unread # <<>>
  /\ tables' = EnterLine(tables, Head(unread))
  /\ unread' = Tail(unread)
  /\ UNCHANGED <<step, named, files, written, runs>>

EndLines ==
  /\ step = "lines" /\ unread = <<>>
  /\ step' = "epg"
  /\ UNCHANGED <<unread, tables, named, files, written, runs>>

(* loadepg_from_xmltv: with no names it reads tvmap.dat, epgen being run    *)
(* in the directory of the input.                                           *)
OpenXmltv ==
  /\ step = "epg" /\ tables.tvnmap = Empty
  /\ Open(tvmap_dat)
  /\ UNCHANGED <<named, files, written, runs>>

ReadChannelTsonid(k, name) ==
  /\ step = "epg"
  /\ tables' = EnterChannel(tables, k, name)
  /\ UNCHANGED <<step, unread, named, files, written, runs>>

(* Whatever events were loaded, these services have a name in one. *)
EndEpg ==
  /\ step = "epg"
  /\ named' \in UNION {[S -> EpgNames] : S \in SUBSET Keys}
  /\ step' = "all"
  /\ UNCHANGED <<unread, tables, files, written, runs>>

(* The elements of S in their order, the one element of this set.           *)
InOrder(S, Less(_, _)) ==
  {s \in SetToSeqs(S) : \A i, j \in DOMAIN s : i < j => Less(s[i], s[j])}

(* The lines of a map in the order of its keys. *)
AllLines(tvamap) ==
  {[i \in DOMAIN keys |-> [key |-> keys[i], name |-> tvamap[keys[i]]]] :
     keys \in InOrder(DOMAIN tvamap, <)}

LexLess(a, b) ==
  \E n \in 0..Len(a) :
    /\ n < Len(b) /\ SubSeq(a, 1, n) = SubSeq(b, 1, n)
    /\ n = Len(a) \/ a[n + 1] < b[n + 1]

NameLines(tvnmap) ==
  {[i \in DOMAIN names |-> [key |-> tvnmap[names[i]], name |-> names[i]]] :
     names \in InOrder(DOMAIN tvnmap, LexLess)}

(* save_tvmap, mode 0: services that are not listed yet are added. *)
SaveAll ==
  LET tvamap == [k \in DOMAIN tables.tvamap \cup DOMAIN named |->
                   IF k \in DOMAIN tables.tvamap THEN tables.tvamap[k] ELSE named[k]]
  IN /\ step = "all"
     /\ tables' = [tables EXCEPT !.tvamap = tvamap]
     /\ tvmap_all' \in AllLines(tvamap)
     /\ step' = "dat"
     /\ UNCHANGED <<unread, named, tvmap_dat, written, runs>>

(* save_tvmap, mode 1: a name that is not known stands for one of the       *)
(* services that have it, the first in the order of the hash map.           *)
SaveDat ==
  LET new == {named[k] : k \in DOMAIN named} \ DOMAIN tables.tvnmap
  IN /\ step = "dat"
     /\ \E first \in {f \in [new -> DOMAIN named] : \A n \in new : named[f[n]] = n} :
          LET tvnmap == [n \in DOMAIN tables.tvnmap \cup new |->
                           IF n \in new THEN first[n] ELSE tables.tvnmap[n]]
          IN /\ tables' = [tables EXCEPT !.tvnmap = tvnmap]
             /\ tvmap_dat' \in NameLines(tvnmap)
     /\ step' = "end"
     /\ UNCHANGED <<unread, named, tvmap_all, written, runs>>

(* fopen fails: save_tvmap returns -1, which main ignores. *)
SaveFails ==
  /\ step \in {"all", "dat"}
  /\ step' = IF step = "all" THEN "dat" ELSE "end"
  /\ written' = FALSE
  /\ UNCHANGED <<unread, tables, named, files, runs>>

NextRun ==
  /\ step = "end" /\ runs < MaxRuns
  /\ step' = "start" /\ tables' = NoTables /\ named' = Empty
  /\ written' = TRUE /\ runs' = runs + 1
  /\ UNCHANGED <<unread, files>>

Next ==
  \/ OpenTable
  \/ ReadLine
  \/ EndLines
  \/ OpenXmltv
  \/ \E k \in Keys, name \in EpgNames : ReadChannelTsonid(k, name)
  \/ EndEpg
  \/ SaveAll
  \/ SaveDat
  \/ SaveFails
  \/ NextRun

Spec == Init /\ [][Next]_vars
-----------------------------------------------------------------------------
KeysOf(file) == {file[i].key : i \in DOMAIN file}
NamesOf(file) == {file[i].name : i \in DOMAIN file}

(* The name a file gives a key, as load_tvmap reads it. *)
NameOf(file, k) == Normal(file[Max({i \in DOMAIN file : file[i].key = k})].name)

(* A redirection has the invalid key at one end: two real services that     *)
(* share a name are never redirected to each other, whatever the tables     *)
(* say (epg.cpp 546, where != compares truth values).                       *)
RedirectsOnlyInvalid ==
  \A k \in DOMAIN tables.tvmap : k = InvalidKey \/ tables.tvmap[k] = InvalidKey

(* Once tvmap_all.dat lists a service it always will, under the same name,  *)
(* whatever later runs load and whichever writes fail (epg.cpp 545-554,     *)
(* 585-588).                                                                *)
ListKeptStep ==
  tvmap_all # NoFile =>
    \A k \in KeysOf(tvmap_all) :
      k \in KeysOf(tvmap_all') /\ NameOf(tvmap_all', k) = NameOf(tvmap_all, k)
ListKept == [][ListKeptStep]_vars

(* readme.txt, on -tvmap: tvmap_all.dat holds all channels and tvmap.dat    *)
(* each name once.  When a run wrote both, the names of the former are in   *)
(* the latter and the services of the latter in the former (epg.cpp         *)
(* 585-594).                                                                *)
FilesMatch ==
  step = "end" /\ written =>
    /\ NamesOf(tvmap_all) \subseteq NamesOf(tvmap_dat)
    /\ KeysOf(tvmap_dat) \subseteq KeysOf(tvmap_all)
    /\ DOMAIN named \subseteq KeysOf(tvmap_all)
    /\ Cardinality(NamesOf(tvmap_dat)) = Len(tvmap_dat)
=============================================================================
