------------------------------- MODULE MCXml --------------------------------
(***************************************************************************)
(* Pieces of source for the XML library: whole tags, parts of tags that    *)
(* another piece goes on with, text with entities, and what a writer of a  *)
(* document gets wrong.                                                    *)
(***************************************************************************)
EXTENDS XmlDocuments

Whole == {
  <<"<", "a", ">">>,
  <<"<", "/", "a", " ", ">">>,
  <<"<", "b", " ", "y", "=", "\"", "1", ">", "\"", " ", "x", "=", "'", "\"", "'", ">",
    "<", "c", "/", ">", "<", "/", "b", ">">>,
  <<"t", "&", "lt;", "&", "u", "\n">>,
  <<"<", "!", "-", "-", "c", "-", "-", ">", "<", "!", "[", "CDATA[", "d", "&", "]", "]", ">">>,
  <<"<", "?", "p", " ", "q", "?", ">">>,
  <<"<", "?", "xml", " ", "version", "=", "\"", "1", "\"", " ", "encoding", "=", "\"", "gbk", "\"", "?", ">",
    "<", "!", "DOCTYPE", " ", "a", " ", "SYSTEM", " ", "\"", "s", "\"", ">">> }

Parts == {
  <<"<">>,
  <<"<", "b", " ", "x", "=", "\"">>,
  <<"&", "#60;", Lead, Tail2, "\"", ">">>,
  <<" ", "/", ">">> }

AllChunks == Whole \cup Parts

Names == << <<"x">>, <<"y">> >>
=============================================================================
