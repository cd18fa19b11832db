----------------------------- MODULE XmltvText ------------------------------
(***************************************************************************)
(* The texts of an event on their way to XMLTV (epg::saveepg_to_xmltv) and *)
(* back (loadepg_from_xmltv, loadepg_from_event_struct).  A description    *)
(* begins with the name of the channel and a colon; XMLTV keeps the name   *)
(* with the channel.                                                       *)
(***************************************************************************)
EXTENDS Text

CONSTANT NameWidth      \* 45 in the code: what a channel's name may be long

ASSUME XmltvTextAssumption == NameWidth \in Nat

Br == <<60, 98, 114, 62>>
BR == <<60, 66, 82, 62>>
Colons(desc) == {k \in DOMAIN desc : desc[k] = 58}

(* The name an event's description suggests for its channel.               *)
NameIn(desc) ==
  IF Colons(desc) = {} THEN <<>> ELSE XmlEncode(Trim(Left(desc, Min(Colons(desc)) - 1)))

(* The first description with a name of the right length counts, and else  *)
(* the last of all, whatever it suggests; without a name it is the key.    *)
DisplayName(descs) ==
  LET short == {k \in DOMAIN descs : Colons(descs[k]) # {} /\ Len(NameIn(descs[k])) <= NameWidth}
  IN IF short # {} THEN NameIn(descs[Min(short)])
     ELSE IF descs = <<>> THEN <<>> ELSE NameIn(descs[Len(descs)])

(* Leading dots and blanks.  As in trim, a text of nothing else is emptied, *)
(* and so is one with as many of them as there is text left behind.        *)
WithoutDots(s) ==
  LET said == {k \in DOMAIN s : ~IsSpaceChar(s[k]) /\ s[k] # 46}
      rest == SubSeq(s, Min(said), Len(s))
  IN IF said = {} \/ Min(said) - 1 = Len(rest) THEN <<>> ELSE rest

(* The text of <desc>: the name with its colon goes, wherever it stands.   *)
XmltvDesc(desc) ==
  LET name == Trim(Left(desc, Min(Colons(desc))))
      named == Colons(desc) # {} /\ Len(name) \in 1..NameWidth + 1
      said == IF named THEN Trim(StrReplace(desc, name, <<>>, UTF8)) ELSE desc
      plain == IF Colons(desc) = {} THEN said
               ELSE StrReplace(StrReplace(said, Br, <<>>, UTF8), BR, <<>>, UTF8)
  IN XmlEncode(Trim(IF plain = <<46>> THEN <<>> ELSE WithoutDots(plain)))

XmltvTitle(name) == Trim(XmlEncode(name))


(* loadepg_from_xmltv puts the name back, unless the description begins    *)
(* with it.                                                                *)
WithName(name, desc) ==
  IF name = <<>> \/ Left(desc, Len(name)) = name THEN desc ELSE name \o <<58>> \o desc

(* The text of <desc>, as the parser gives it to the loader, which decodes *)
(* it once more when it makes an event of it.                              *)
Loaded(name, xml) == XmlDecode(WithName(name, XmlDecode(xml)))
Again(name, desc) == Loaded(name, XmltvDesc(desc))
-----------------------------------------------------------------------------
(* Said plainly: without dots or blanks around it, longer than a           *)
(* character, with no entity and no line break of HTML.                    *)
PlainName(name) == name # <<>> /\ Stripped(name) = name /\ XmlDecode(name) = name

PlainlySaid(said) ==
  /\ Len(said) > 1 /\ Stripped(said) = said /\ said[1] # 46
  /\ XmlDecode(said) = said
  /\ \A f \in {Br, BR} : Finds(said, f) = {}

(* A description comes back from XMLTV as it was if it is said plainly and *)
(* with the channel's name once.                                           *)
DescriptionSurvives(name, said) ==
  PlainName(name) /\ PlainlySaid(said) /\ Finds(said, Left(name, 1)) = {} =>
    Again(name, name \o <<58>> \o said) = name \o <<58>> \o said

(* XMLTV that epgen wrote is a fixed point: what comes back from it is     *)
(* written again as it is, whatever the first description looked like, if  *)
(* what is left of it neither begins with the channel's name nor has that  *)
(* name with a colon in it.                                                *)
WrittenAgainAlike(name, said) ==
  LET written == XmltvDesc(name \o <<58>> \o said)
      left == XmlDecode(written)
  IN /\ PlainName(name) /\ XmlDecode(said) = said /\ Len(written) > 1
     /\ Left(left, Len(name)) # name /\ Finds(left, name \o <<58>>) = {}
     => XmltvDesc(Again(name, name \o <<58>> \o said)) = written

(* The channel gets the same name whatever the order of its events is, if  *)
(* all that name it by one short enough agree (saveepg_to_xmltv).          *)
NameOfAnyOrder(descs) ==
  LET short == {NameIn(descs[k]) : k \in {l \in DOMAIN descs :
                  Colons(descs[l]) # {} /\ Len(NameIn(descs[l])) <= NameWidth}}
  IN Cardinality(short) = 1 =>
       DisplayName(descs) \in short /\ DisplayName(Reverse(descs)) \in short

(* An event made for the second channel of a name has the same texts as    *)
(* the first, though XML_DECODE changed them, if nothing was escaped twice. *)
DecodedForAllKeys(s) ==
  Finds(s, <<38, 97, 109, 112, 59, 97, 109, 112, 59>>) = {} =>
    XmlDecode(DecodedInPlace(s)) = XmlDecode(s)
=============================================================================
