------------------------------ MODULE TvTables ------------------------------
(***************************************************************************)
(* The channel tables tvmap, tvnmap and tvamap and how epg::load_tvmap     *)
(* (lib/epg.cpp) enters a line "sid:onid:tsid=name" in them.  A line is a  *)
(* key and a name, the name a sequence of characters without ':', '=' and  *)
(* '#'; what cannot be parsed as a line is skipped by the code and left    *)
(* out here.                                                               *)
(***************************************************************************)
EXTENDS Naturals, Sequences, FiniteSets, SequencesExt, FiniteSetsExt

CONSTANT InvalidKey    \* uniqueEPGKey(-1,-1,-1), above every other key

Empty == [x \in {} |-> {}]        \* an empty map

(* std::map::operator[] as an assignment. *)
Put(f, x, v) == [y \in DOMAIN f \cup {x} |-> IF y = x THEN v ELSE f[y]]

(* insert() instead of operator[]: an earlier value stays. *)
PutNew(f, x, v) == IF x \in DOMAIN f THEN f ELSE Put(f, x, v)

Underscore == 95
Blank == {9, 32, Underscore}
IsSpace(c) == c <= 32

Trim(s) ==
  LET solid == {i \in DOMAIN s : ~IsSpace(s[i])}
  IN IF solid = {} THEN <<>> ELSE SubSeq(s, Min(solid), Max(solid))

(* One character more of a name: a run of blanks becomes one '_', other     *)
(* white space is dropped.                                                  *)
Squeeze(out, c) ==
  CASE c \in Blank /\ out # <<>> /\ Last(out) = Underscore -> out
    [] c \in Blank /\ ~(out # <<>> /\ Last(out) = Underscore)
         -> Append(out, Underscore)
    [] c \notin Blank /\ IsSpace(c) -> out
    [] OTHER -> Append(out, c)

(* The name after each of its characters. *)
Squeezed(s) ==
  LET out[n \in 0..Len(s)] == IF n = 0 THEN <<>> ELSE Squeeze(out[n - 1], s[n])
  IN out

(* The name as load_tvmap enters it. *)
Normal(name) == Squeezed(Trim(name))[Len(Trim(name))]

(* Mutant: the comparison that was probably meant. *)
DifferAsKeys(a, b) == a # b

(* a != b: uniqueEPGKey has no operator!=, so both are converted to bool    *)
(* first, and it is only true if exactly one of them is the invalid key.    *)
Differ(a, b) == (a = InvalidKey) # (b = InvalidKey)

(* Mutant: the line of a redirected key is not listed. *)
EnterLineUnlisted(t, line) ==
  LET name  == Normal(line.name)
      taken == name \in DOMAIN t.tvnmap /\ Differ(t.tvnmap[name], line.key)
  IN [tvmap  |-> IF taken THEN Put(t.tvmap, line.key, t.tvnmap[name]) ELSE t.tvmap,
      tvnmap |-> IF taken THEN t.tvnmap ELSE Put(t.tvnmap, name, line.key),
      tvamap |-> IF taken THEN t.tvamap ELSE Put(t.tvamap, line.key, name)]

(* A name that stands for another key keeps it, and the line's key is       *)
(* redirected there; otherwise the name stands for the line's key.          *)
EnterLine(t, line) ==
  LET name  == Normal(line.name)
      taken == name \in DOMAIN t.tvnmap /\ Differ(t.tvnmap[name], line.key)
  IN [tvmap  |-> IF taken THEN Put(t.tvmap, line.key, t.tvnmap[name]) ELSE t.tvmap,
      tvnmap |-> IF taken THEN t.tvnmap ELSE Put(t.tvnmap, name, line.key),
      tvamap |-> Put(t.tvamap, line.key, name)]

(* load_tvmap clears two of the tables and keeps the third. *)
Cleared(t) == [tvmap |-> Empty, tvnmap |-> Empty, tvamap |-> t.tvamap]

(* The tables after each of the lines, and after the last one.              *)
Loaded(t, lines) ==
  LET after[n \in 0..Len(lines)] ==
        IF n = 0 THEN Cleared(t) ELSE EnterLine(after[n - 1], lines[n])
  IN after

LoadLines(t, lines) == Loaded(t, lines)[Len(lines)]

NoTables == [tvmap |-> Empty, tvnmap |-> Empty, tvamap |-> Empty]

(* Mutant: the condition on the key is inverted. *)
EnterChannelInverted(t, k, name) ==
  [t EXCEPT !.tvamap = IF k \in DOMAIN @ THEN Put(@, k, name) ELSE @,
            !.tvnmap = PutNew(@, name, k)]

(* A tsonid attribute of an XMLTV channel enters key and name, as they are, *)
(* where the tables have neither.                                           *)
EnterChannel(t, k, name) ==
  [t EXCEPT !.tvamap = PutNew(@, k, name), !.tvnmap = PutNew(@, name, k)]
=============================================================================
