------------------------------ MODULE Entities ------------------------------
(***************************************************************************)
(* XML_DECODE (lib/estring.cpp), which takes the entities from a text.  It *)
(* is given the text by reference: the ampersands are decoded in the text  *)
(* itself, the other entities in a copy of it.                             *)
(***************************************************************************)
EXTENDS Naturals, Sequences

Amp == <<38, 97, 109, 112, 59>>
Lt == <<38, 108, 116, 59>>
Gt == <<38, 103, 116, 59>>
Nbsp == <<38, 110, 98, 115, 112, 59>>

(* Where in a text an entity begins. *)
Begins(s, entity) ==
  {k \in DOMAIN s : k + Len(entity) <= Len(s) + 1
                      /\ SubSeq(s, k, k + Len(entity) - 1) = entity}

(* The text after each of its characters, with a character for each entity; *)
(* no two places of an entity overlap, and what was put in is not searched  *)
(* again.                                                                   *)
Unescaped(s, entity, char) ==
  LET at == Begins(s, entity)
      upTo[n \in 0..Len(s)] ==
        IF n = 0 THEN <<>>
        ELSE IF \E k \in at : k < n /\ n < k + Len(entity) THEN upTo[n - 1]
        ELSE Append(upTo[n - 1], IF n \in at THEN char ELSE s[n])
  IN upTo

Replaced(s, entity, char) == Unescaped(s, entity, char)[Len(s)]

(* What XML_DECODE leaves in the text it is given. *)
DecodedInPlace(s) == Replaced(s, Amp, 38)

(* Mutant: ampersands are decoded last. *)
XmlDecodeLast(s) ==
  DecodedInPlace(Replaced(Replaced(Replaced(s, Lt, 60), Gt, 62), Nbsp, 32))

(* What XML_DECODE returns. *)
XmlDecode(s) ==
  Replaced(Replaced(Replaced(DecodedInPlace(s), Lt, 60), Gt, 62), Nbsp, 32)
=============================================================================
