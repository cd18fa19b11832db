----------------------------- MODULE MCLibrary ------------------------------
(***************************************************************************)
(* The parts of lib/ that the event store and the XML documents are built  *)
(* on, each alone: a behaviour belongs to one part, the others stand still. *)
(* `sample` is what functions of data are applied to.                      *)
(***************************************************************************)
EXTENDS TextConvert, EventTexts, XmltvText, XmlQueue, XmlBuffers, EPtrList, Md5, DvbTime

VARIABLES part, sample

vars == <<part, sample, convertVars, cutVars, qvars, bufferVars, listOfPtrVars, md5Vars, timeVars>>

Parts == {"convert", "cut", "queue", "lists", "strings", "pointers", "md5", "days", "clock",
          "durations", "texts", "codes", "searches"}
-----------------------------------------------------------------------------
(* Texts to convert: every announcement, and for the codings with more     *)
(* than one byte to a character those bytes between which they decide.     *)
MCDatas ==
  {<<>>} \cup {<<b>> \o s : b \in (0..31) \ (1..11), s \in SeqOf({0, 65}, 2)}
    \cup {<<GB18030>> \o s : s \in SeqOf({65, 129, 48, 164, 255}, 4)}
    \cup {<<BIG5>> \o s : s \in SeqOf({65, 200, 127, 160, 164}, 4)}
    \cup {<<b>> \o s : b \in {17, UTF16LE}, s \in SeqOf({0, 216, 220, 65}, 6)}
    \cup {<<UNICODE>> \o s : s \in SeqOf({0, 216, 65}, 4)}
MCTables == {0, UTF8, UTF16BE, UTF16LE}
MCFilled ==
  {{}, {"page81", "page21", "page30", "pagea6", "pagea8", "ext2", "pagea9", "pagefe", "ranges",
        "big5a1", "big5c9"}}

(* Descriptions to cut: a letter, a colon, characters of two bytes and of  *)
(* six, one that is not whole, and the beginning of a descriptor.          *)
MCTexts ==
  {FlattenSeq(s) : s \in SeqOf({<<97>>, <<58>>, <<195, 164>>, <<252, 191, 191, 191, 191, 191>>,
                                <<228, 184>>}, 4)}
    \cup {<<97, 98>> \o <<78, 0, 0, 101, 110, 103>> \o s : s \in {<<>>, <<97>>, <<97, 97, 97>>}}

(* Texts of up to n letters and marks, and pairs of a name and what is     *)
(* said.                                                                   *)
Said(n) ==
  {FlattenSeq(s) : s \in SeqOf({<<98>>, <<66>>, <<58>>, <<32>>, <<46>>, <<38>>, <<97, 109, 112, 59>>,
                                <<108, 116, 59>>, <<60>>, <<195, 164>>, <<195>>}, n)}
MCNames == SeqOf({98, 32, 38, 66}, 3)
TextPairs == ({<<>>, <<98>>, <<98, 66>>} \X Said(3)) \cup (MCNames \X Said(2))

(* Three blocks of indices that follow each other, with gaps.              *)
Ranges ==
  {r \in [0..5 -> 0..7] : \A k \in 0..4 : IF k % 2 = 0 THEN r[k] <= r[k + 1] ELSE r[k] < r[k + 1]}

MCZones == {-11, -5, 0, 1, 8}
MCSummers == {<<100, 200>>, <<50, 70>>}
MCHours == 0..250
MCDurations == {7 * n : n \in 0..65535}
MCBefore == {<<"a", "b">>, <<"a", "c">>, <<"b", "c">>}
MCLess == {<<1, 2>>}

Samples ==
  CASE part = "texts" -> TextPairs
    [] part = "codes" -> 0..65535
    [] part = "searches" -> {r \in (0..7) \X Ranges : r[2][0] <= r[1] /\ r[1] <= r[2][5]}
    [] OTHER -> {<<>>}
-----------------------------------------------------------------------------
NoText ==
  /\ text = <<>> /\ encode = 0 /\ pos = 0 /\ i = 0 /\ j = 0 /\ cutting = "cut"
  /\ chunks = <<>> /\ starts = {0} /\ far = 0

NoData ==
  /\ data = <<>> /\ table = 0 /\ coding = 0 /\ start = 0 /\ at = 0 /\ out = <<>>
  /\ code = 0 /\ converting = "done" /\ turn = FALSE

Init ==
  /\ part \in Parts
  /\ QueueInit /\ BuffersInit
  /\ (part # "pointers" => autoDelete = FALSE) /\ PtrListInit
  /\ (part # "md5" => length = 0 /\ way = "bytes") /\ Md5Init
  /\ (part # "clock" => hour = 0 /\ place = [zone |-> 0, summer |-> <<50, 70>>, timeoff |-> 0])
  /\ (part # "durations" => duration = 0) /\ TimeInit
  /\ IF part = "cut" THEN CutInit ELSE NoText
  /\ IF part = "convert" THEN ConvertInit ELSE NoData
  /\ sample \in Samples

Still(others) == UNCHANGED <<part, sample, others>>

StepConvert ==
  /\ part = "convert" /\ ConvertNext
  /\ Still(<<cutVars, qvars, bufferVars, listOfPtrVars, md5Vars, timeVars>>)
StepCut ==
  /\ part = "cut" /\ CutNext
  /\ Still(<<convertVars, qvars, bufferVars, listOfPtrVars, md5Vars, timeVars>>)
StepQueue ==
  /\ part = "queue" /\ QueueNext
  /\ Still(<<convertVars, cutVars, bufferVars, listOfPtrVars, md5Vars, timeVars>>)
StepBuffers ==
  /\ \/ part = "lists" /\ ListNext
     \/ part = "strings" /\ StringNext
  /\ Still(<<convertVars, cutVars, qvars, listOfPtrVars, md5Vars, timeVars>>)
StepPointers ==
  /\ part = "pointers" /\ PtrListNext
  /\ Still(<<convertVars, cutVars, qvars, bufferVars, md5Vars, timeVars>>)
StepMd5 ==
  /\ part = "md5" /\ Md5Next
  /\ Still(<<convertVars, cutVars, qvars, bufferVars, listOfPtrVars, timeVars>>)
StepDays ==
  /\ part = "days" /\ Tomorrow
  /\ Still(<<convertVars, cutVars, qvars, bufferVars, listOfPtrVars, md5Vars>>)

Next ==
  StepConvert \/ StepCut \/ StepQueue \/ StepBuffers \/ StepPointers \/ StepMd5 \/ StepDays

Spec == Init /\ [][Next]_vars /\ FairCut /\ WF_convertVars(ConvertNext)
-----------------------------------------------------------------------------
(* The properties of functions of data, for every sample.                  *)

(* Texts are trimmed, escaped and compared as their comments have it, also *)
(* when a second service gets what the first one's decoding left, and a    *)
(* text turned back into GB2312 is not shifted (Text, TextConvert,         *)
(* XmltvText).                                                             *)
TextsSound ==
  part = "texts" =>
    /\ CompareOrders(sample[1], sample[2])
    /\ sample[1] = <<>> =>
         /\ TrimStrips(sample[2])
         /\ EntitiesSurvive(sample[2])
         /\ DecodedForAllKeys(sample[2])
         /\ \A full \in {{}, {"gb2312"}} : BackToGB2312(sample[2], full)


(* All pairs of bytes, all codes, all sets of 16 codes, and any index      *)
(* among three blocks are looked up where they are (LookupsInTable,        *)
(* SummariesInPage, RankCounts, SearchFinds).                              *)
CodesFound ==
  /\ part = "codes" =>
       /\ LookupsInTable(sample \div 256, sample % 256)
       /\ SummariesInPage(sample)
       /\ RankCounts(sample, sample % 16) /\ RankCounts(sample, 15)
  /\ part = "searches" => SearchFinds(sample[1], sample[2], 3)
=============================================================================
