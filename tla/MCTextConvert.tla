--------------------------- MODULE MCTextConvert ----------------------------
(***************************************************************************)
(* convertDVBUTF8 on texts announced as ISO-8859.                          *)
(***************************************************************************)
EXTENDS TextConvert

MCDatas == {<<b>> \o s : b \in {1, 5, 11}, s \in SeqOf({65, 228}, 3)}
MCCodings == {0, UTF8}
=============================================================================
