----------------------------- MODULE EpgPromise -----------------------------
(***************************************************************************)
(* What readme.txt promises of a conversion: the program loads the source  *)
(* correctly and then writes what is in memory to the target file.  A      *)
(* programme is a service key, a start time and the texts shown for it,    *)
(* which are Unknown where the program misreads or cannot read them.       *)
(***************************************************************************)
CONSTANT Unknown

VARIABLES
  memory,   \* the programmes loaded
  file,     \* the programmes a reader finds in the target file
  stage     \* "loading", "saving", "done" or "aborted"

vars == <<memory, file, stage>>

Init == memory = {} /\ file = {} /\ stage = "loading"

(* Until saving begins anything may become of the memory. *)
Load == stage = "loading" /\ stage' \in {"loading", "saving"} /\ file' = file

(* Saving adds programmes of the memory to the file and nothing else. *)
Save ==
  /\ stage = "saving"
  /\ UNCHANGED stage
  /\ file' \subseteq memory
  /\ file \subseteq file'
  /\ UNCHANGED memory

(* A file that was finished holds them all. *)
Finish ==
  /\ stage = "saving" /\ file = memory
  /\ stage' = "done"
  /\ UNCHANGED <<memory, file>>

(* Only at a programme it cannot read may the program break off. *)
Abort ==
  /\ stage = "saving" /\ \E p \in memory \ file : p[3] = Unknown
  /\ stage' = "aborted"
  /\ UNCHANGED <<memory, file>>

Next == Load \/ Save \/ Finish \/ Abort

Spec == Init /\ [][Next]_vars
=============================================================================
