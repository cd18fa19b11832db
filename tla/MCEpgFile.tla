----------------------------- MODULE MCEpgFile ------------------------------
(***************************************************************************)
(* Small instances of EpgFile.  A length byte of 16 leaves room for titles *)
(* of up to 8 characters (248 in the code), a chunk width of 3 makes two   *)
(* chunks of a description of 6 characters, with the first cut at a ':'.   *)
(***************************************************************************)
EXTENDS EpgFile

MCTimeOf == [s \in Stamps |-> IF s = "t2" THEN 2 ELSE 1]

NameA == <<65>>
MCNames == {NameA, <<66>>}

Line(k, name) == [key |-> k, name |-> name]
NoTable == <<>>
TwoOfOneName == <<Line(1, NameA), Line(2, NameA)>>
Redirection == <<Line(9, NameA), Line(1, NameA)>>    \* "-1:-1:-1=A", "1=A"
XmlTables == {NoTable, TwoOfOneName, Redirection}
FileTables == {NoTable, Redirection}
RedirectionOnly == {Redirection}

Spaced == <<65, 32, 66>>
SpacedNames == {NameA, Spaced}
SpacedTable == {<<Line(1, Spaced), Line(2, NameA)>>}

ShortV7 == V7Short(<<97>>, <<98>>)
LongShort == V7Short(<<97, 97, 97, 97>>, <<98, 98, 98, 98>>)
Extended(i) == ExtendedEvent(i, <<99, 58, 100, 101>>, "B")
Other == <<80, 1, 0>>
NoText == <<ExtendedTag, 6, 0>> \o Lang \o <<0, 0>>

(* Loops of 37 and of 25 bytes: 2 and 1 are their true nibbles. *)
MCV5Data == {<<ShortV7, Extended(1), Extended(2)>>, <<LongShort, NoText>>}
MCBeyond == {<<Extended(3)>>}
Id1 == <<1>>
Id2 == <<2>>
MCV7Data == {<<Id1, Id2>>}
MCTableIds == {Id1, Id2}
MCTableBytes == {ShortV7, Extended(1), Other}

LongTitle(c) == <<c, c, c, c, c, c, c, c, c, c, c>>
AmpTwice == <<38, 97, 109, 112, 59, 97, 109, 112, 59>>   \* "&amp;amp;"
LtTwice == <<38, 97, 109, 112, 59, 108, 116, 59>>           \* "&amp;lt;"
MCTitles == {AmpTwice, LtTwice, LongTitle(97)}
(* Which id a channel has makes no difference. *)
ChannelSymmetry == Permutations(Channels)
MCXmlIds == {NoId, 2}
MCDescs == {<<99, 58, 100, 101, 102, 103>>}
=============================================================================
