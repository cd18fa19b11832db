----------------------------- MODULE LoopLength -----------------------------
(***************************************************************************)
(* The descriptors_loop_length of an event on its way through get_v5,      *)
(* EITEvent and saveepg (lib/dvb.cpp, lib/epg.cpp).  Its low byte is       *)
(* carried as it is; its high nibble shares byte 10 of the event with the  *)
(* status bits, and which half it is in depends on the compiler's          *)
(* bitfields, on the file the event comes from and on how often            *)
(* adjust_eit_event_endian has swapped the two halves.  V5 events keep     *)
(* their own byte 10; for all others get_v5 builds the event in the one    *)
(* static buffer eventData::data, and get_v7 uses that buffer for ids.     *)
(* The compiler is one for a little-endian machine, as all are that        *)
(* readme.txt names.                                                       *)
(***************************************************************************)
EXTENDS Naturals, Sequences

CONSTANTS
  Nibbles,     \* 0..15 in the code
  MaxEvents    \* bound on the events loaded

ASSUME LoopAssumption ==
  /\ Nibbles \subseteq 0..15 /\ 0 \in Nibbles
  /\ MaxEvents \in Nat

VARIABLES
  events,    \* the loaded events, see Event
  data10,    \* byte 10 of eventData::data, <<upper half, lower half>>
  plan,      \* the passes over the events that main makes
  pass,      \* the one it is in
  next,      \* the event that pass comes to
  seen,      \* the event EITEvent looked at last, and the nibble it found
  written    \* the nibbles by which saveepg took the lengths of what it wrote

vars == <<events, data10, plan, pass, next, seen, written>>

Bytes == Nibbles \X Nibbles

(* hi: the true nibble; file: the byte order of the file, XMLTV counting as *)
(* "B"; inline: whether it is a V5 event; byte10 and order: EITdata[10] of  *)
(* a V5 event and eventData::endian.                                        *)
Event == [hi : Nibbles, file : {"B", "L"}, inline : BOOLEAN, byte10 : Bytes,
          order : {"B", "L"}]

(* Mutant: the field is masked out and not shifted down. *)
FieldUnshifted(b) == 16 * b[1]

(* descriptors_loop_length_hi is the last bitfield of its byte: the upper   *)
(* half on a little-endian machine.                                         *)
Field(b) == b[1]
WithField(b, hi) == <<hi, b[2]>>

Swapped(b) == <<b[2], b[1]>>

(* Mutant: the swap is made for the other byte order. *)
AdjustInverted(b, order) == IF order = "B" THEN Swapped(b) ELSE b

(* adjust_eit_event_endian; "X" is what its callers get by default.         *)
Adjust(b, order) == IF order = "B" THEN b ELSE Swapped(b)

(* A V5 file has the nibble where DVB has it, a little-endian one swapped.  *)
FileByte(order, hi, status) == Adjust(<<status, hi>>, order)

(* The passes main makes for -o, then for -d, then for -tvmap; "names"      *)
(* looks for a channel name and ends at the first event that has one.       *)
OutputPasses == {<<>>, <<"v5">>, <<"v7">>, <<"names", "full">>}
DisplayPasses == {<<>>, <<"full">>}
MapPasses == {<<>>, <<"names", "names">>}

Loaded(order, inline, n) ==
  {[i \in 1..n |->
      [hi |-> his[i], file |-> order, inline |-> inline, order |-> order,
       byte10 |-> IF inline THEN FileByte(order, his[i], status[i]) ELSE <<0, 0>>]] :
   his \in [1..n -> Nibbles], status \in [1..n -> Nibbles]}

(* Mutant: an automatic buffer, which holds anything. *)
FreshBufferAutomatic == Bytes

(* eventData::data has static storage. *)
FreshBuffer == {<<0, 0>>}

Init ==
  /\ \E order \in {"B", "L"}, inline \in BOOLEAN, n \in 1..MaxEvents :
       events \in Loaded(order, inline, n)
  /\ \E out \in OutputPasses, disp \in DisplayPasses, tvmap \in MapPasses :
       plan = out \o disp \o tvmap
  /\ pass = 1 /\ next = 1
  /\ data10 \in FreshBuffer
  /\ seen = [event |-> 0, hi |-> 0] /\ written = <<>>

(* Mutant: what the buffer held before is not replaced. *)
GetV5Stale(e, order) == Adjust(IF e.inline THEN e.byte10 ELSE data10, order)

(* Byte 10 of what get_v5 returns for event e: stored bytes or the buffer.  *)
GetV5(e, order) ==
  Adjust(IF e.inline THEN e.byte10 ELSE WithField(data10, e.hi), order)

(* get_v5 leaves the byte where it found it; only a caller that asks for a  *)
(* byte order changes the event's own.                                      *)
LeaveByte(b, order) ==
  IF events[next].inline
    THEN /\ events' = [events EXCEPT ![next].byte10 = b, ![next].order = order]
         /\ UNCHANGED data10
    ELSE data10' = b /\ UNCHANGED events

InPass(passes) ==
  pass \in DOMAIN plan /\ plan[pass] \in passes /\ next \in DOMAIN events

(* dispepg, save_tvmap, saveepg_to_xmltv: get_v5 without an order, and      *)
(* EITEvent, which swaps its copy whatever the order.                       *)
View ==
  LET e == events[next]
      b == GetV5(e, e.order)
  IN /\ InPass({"names", "full"})
     /\ LeaveByte(b, e.order)
     /\ seen' = [event |-> next, hi |-> Field(Adjust(b, "X"))]
     /\ next' = next + 1
     /\ UNCHANGED <<plan, pass, written>>

(* saveepg to a V5 file, which main only offers in big endian. *)
SaveV5 ==
  LET b == GetV5(events[next], "B")
  IN /\ InPass({"v5"})
     /\ LeaveByte(b, "B")
     /\ written' = Append(written, Field(b))
     /\ next' = next + 1
     /\ UNCHANGED <<plan, pass, seen>>

(* saveepg to a V7 file: get_v7 reads the descriptors of a V5 event up to   *)
(* the length in its bytes as they are stored, and those of another by all  *)
(* its ids (dvb.cpp 257-302); it puts an id at byte 10 of the buffer.       *)
SaveV7 ==
  LET e == events[next]
  IN /\ InPass({"v7"})
     /\ data10' \in Bytes
     /\ written' = Append(written, IF e.inline THEN Field(e.byte10) ELSE e.hi)
     /\ next' = next + 1
     /\ UNCHANGED <<events, plan, pass, seen>>

EndPass ==
  /\ pass \in DOMAIN plan
  /\ plan[pass] = "names" \/ next > Len(events)
  /\ pass' = pass + 1 /\ next' = 1
  /\ UNCHANGED <<events, data10, plan, seen, written>>

Next == View \/ SaveV5 \/ SaveV7 \/ EndPass

Spec == Init /\ [][Next]_vars
-----------------------------------------------------------------------------
TypeOK ==
  /\ events \in Seq(Event)
  /\ data10 \in Bytes
  /\ plan \in Seq({"v5", "v7", "names", "full"})
  /\ pass \in 1..(Len(plan) + 1) /\ next \in 1..(Len(events) + 1)
  /\ seen \in [event : 0..Len(events), hi : Nibbles]
  /\ written \in Seq(Nibbles)

SeenRight == seen.event # 0 => seen.hi = events[seen.event].hi

(* EITEvent finds the true length of a big-endian V5 event and of a         *)
(* little-endian V7 event, whatever passes went before and whatever they    *)
(* left in the shared buffer (dvb.cpp 189-245, 708-709).                    *)
LengthSeen ==
  (seen.event # 0
     /\ (events[seen.event].inline <=> events[seen.event].file = "B"))
  => SeenRight

ShortEvents == \A i \in DOMAIN events : events[i].hi = 0 /\ ~events[i].inline
NothingSavedInV7 == \A i \in DOMAIN plan : plan[i] # "v7"

(* For big-endian V7 and XMLTV sources this holds while the descriptors of  *)
(* every event take less than 256 bytes and nothing is saved in V7: then    *)
(* the half byte get_v5 does not clear is still 0 (dvb.cpp 204, 230-239).   *)
ShortLengthSeen == ShortEvents /\ NothingSavedInV7 => SeenRight

(* saveepg takes the true length of an event into the file, as V5 or as V7, *)
(* except where the source is a big-endian V5 file, whose status bits are   *)
(* taken for the nibble (epg.cpp 299-305, dvb.cpp 302).                     *)
LengthTaken ==
  \A i \in DOMAIN written :
    ~(events[i].inline /\ events[i].file = "B") => written[i] = events[i].hi

(* readme.txt, on -d: "载入数据文件后显示数据内容" (the contents of the data  *)
(* file are shown after it is loaded): what is shown of an event ends where *)
(* its descriptors end.                                                     *)
DisplayedLengthRight == SeenRight
=============================================================================
