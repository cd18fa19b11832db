------------------------------ MODULE TextCut -------------------------------
(***************************************************************************)
(* How a description is cut into the texts of extended descriptors: the    *)
(* loops of eventData::get_v7 and epg::loadepg_from_event_struct, with the *)
(* loop of eString::mid inside, which walks the text from its beginning    *)
(* for every chunk.                                                        *)
(***************************************************************************)
EXTENDS Text

CONSTANTS
  Texts,        \* the descriptions there are
  Codings,      \* the values of encode they are cut with; epgen passes UTF8
  ChunkWidth,   \* 240 in the code: what a chunk aims to hold
  MaxLength     \* 255 in the code: descriptor_length is one byte

ASSUME CutAssumption ==
  /\ Texts \subseteq Seq(Byte) /\ Codings \subseteq Encodings
  /\ ChunkWidth \in Nat /\ MaxLength \in Nat
  /\ ChunkWidth + 14 <= MaxLength

VARIABLES
  text, encode,
  pos,          \* of the outer loop: how much of the text is in chunks
  i, j,         \* of mid
  cutting,      \* "walk" in the loop of mid, "take" behind it, "cut" at the end
  chunks,       \* from where to where each descriptor's text goes
  starts, far   \* history: the ends of all steps, and the last of them

cutVars == <<text, encode, pos, i, j, cutting, chunks, starts, far>>

CutInit ==
  /\ text \in Texts /\ encode \in Codings
  /\ pos = 0 /\ i = 0 /\ j = 0
  /\ cutting = IF text = <<>> THEN "cut" ELSE "walk"
  /\ chunks = <<>>
  /\ starts = {0} /\ far = 0

FirstColon(s) == {k \in DOMAIN s : s[k] = 58 /\ \A l \in 1..k - 1 : s[l] # 58}

(* The first chunk ends with the name of the channel, if it has one.       *)
MaxLen ==
  IF pos = 0 /\ \E k \in FirstColon(text) : k <= ChunkWidth + 1
  THEN CHOOSE k \in FirstColon(text) : k <= ChunkWidth + 1
  ELSE ChunkWidth

(* Mutant: the chunk begins behind the character it should begin with.     *)
FromBehind(next) == IF i <= pos /\ next > pos THEN next ELSE j

(* The character that holds position pos is where the chunk begins.        *)
From(next) == IF i <= pos /\ next > pos THEN i ELSE j

WalkOn ==
  LET next == StepOver(text, encode, i)
  IN /\ cutting = "walk" /\ ~StepEnds(text, encode, i)
     /\ i' = next /\ j' = From(next)
     /\ cutting' = IF next > pos /\ next - From(next) > MaxLen THEN "take" ELSE "walk"
     /\ starts' = starts \cup {next}
     /\ far' = IF next > far THEN next ELSE far
     /\ UNCHANGED <<text, encode, pos, chunks>>

WalkOut ==
  /\ cutting = "walk" /\ StepEnds(text, encode, i)
  /\ cutting' = "take"
  /\ UNCHANGED <<text, encode, pos, i, j, chunks, starts, far>>

(* Mutant: an empty chunk does not end the loop.                           *)
TakeAny ==
  /\ cutting = "take"
  /\ chunks' = IF i = j THEN chunks ELSE Append(chunks, [from |-> j, to |-> i])
  /\ pos' = pos + (i - j)
  /\ cutting' = IF pos' < Len(text) THEN "walk" ELSE "cut"
  /\ i' = 0 /\ j' = 0
  /\ UNCHANGED <<text, encode, starts, far>>

Take ==
  /\ cutting = "take"
  /\ chunks' = IF i = j THEN chunks ELSE Append(chunks, [from |-> j, to |-> i])
  /\ pos' = pos + (i - j)
  /\ cutting' = IF i # j /\ pos' < Len(text) THEN "walk" ELSE "cut"
  /\ i' = 0 /\ j' = 0
  /\ UNCHANGED <<text, encode, starts, far>>

CutNext == WalkOn \/ WalkOut \/ Take

CutSpec == CutInit /\ [][CutNext]_cutVars

(* One thread, no other work: the loops go on as long as they can.         *)
FairCut == WF_cutVars(CutNext)
-----------------------------------------------------------------------------
(* The chunks of a UTF-8 description follow each other without a gap or an *)
(* overlap, and in the end they are all of it (get_v7, mid, stepUTF8).     *)
ChunksContiguous ==
  encode = UTF8 =>
    /\ \A k \in DOMAIN chunks :
         chunks[k].from = IF k = 1 THEN 0 ELSE chunks[k - 1].to
    /\ cutting = "cut" =>
         IF chunks = <<>> THEN text = <<>> ELSE chunks[Len(chunks)].to = Len(text)

(* However long the last character of a chunk is, with the colon's and the *)
(* header's bytes it still fits the byte descriptor_length.                *)
ChunksFit ==
  encode = UTF8 => \A k \in DOMAIN chunks : chunks[k].to - chunks[k].from + 7 <= MaxLength

(* Chunks give the description back, and each fits its descriptor.         *)
ChunksRight == ChunksContiguous /\ ChunksFit

WellFormed(s) ==
  LET ok[p \in 0..Len(s)] ==
        \/ p = Len(s)
        \/ ~Continues(s[p + 1]) /\ Complete(s, p) /\ ok[p + 1 + Follow(s[p + 1])]
  IN ok[0]

(* No character of a sound UTF-8 text is cut in two (stepUTF8).            *)
CharactersWhole ==
  encode = UTF8 /\ WellFormed(text) =>
    \A k \in DOMAIN chunks :
      chunks[k].to < Len(text) => ~Continues(text[chunks[k].to + 1])

(* Cutting comes to an end in every encoding, though mid never reaches the *)
(* end of a text but in UTF-8.                                             *)
CutEnds == <>(cutting = "cut")
=============================================================================
