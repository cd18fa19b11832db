------------------------------ MODULE MCTvMap -------------------------------
(***************************************************************************)
(* Small instances of TvMap.  A user's file has two lines, which may give  *)
(* one name to two keys or one key two names; one of the names is changed  *)
(* when load_tvmap reads it, and events bear that name as it was.          *)
(***************************************************************************)
EXTENDS TvMap

Plain == <<65>>                       \* "A"
Spaced == <<65, 32, 66>>              \* "A B", which is read as "A_B"
MCNames == {Spaced}

MCLines == [key : Keys, name : {Plain, Spaced}]
MCFiles == {<<>>} \cup {<<a, b>> : a \in MCLines, b \in MCLines}
=============================================================================
