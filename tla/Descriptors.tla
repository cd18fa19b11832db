---------------------------- MODULE Descriptors ----------------------------
(***************************************************************************)
(* The DVB event descriptors of lib/dvb.cpp and the content-addressed      *)
(* table they are shared in.  A descriptor is its sequence of bytes, as    *)
(* `new __u8[...]` holds it; a table maps the CRC-32 of a descriptor to    *)
(* its reference count and its bytes (descriptorMap, descriptorPair).      *)
(* Texts are sequences of one-byte characters in UTF-8.                    *)
(***************************************************************************)
EXTENDS Naturals, Sequences, FiniteSets, SequencesExt, FiniteSetsExt

CONSTANTS
  LenMod,       \* 256 in the code: descriptor_length is one byte
  RefMod,       \* 65536 in the code: the reference count is a __u16
  ChunkWidth    \* 240 in the code: what one extended descriptor aims to hold

ASSUME DescriptorAssumption ==
  /\ LenMod \in Nat \ {0}
  /\ RefMod \in Nat \ {0}
  /\ ChunkWidth \in Nat /\ ChunkWidth + 9 < LenMod   \* a chunk's length is a byte

Orders == {"B", "L"}     \* B_ENDIAN and L_ENDIAN

ShortTag == 77           \* DESCR_SHORT_EVENT
ExtendedTag == 78        \* DESCR_EXTENDED_EVENT
Lang == <<101, 110, 103>>
UTF8 == 21               \* UTF8_ENCODING, the first byte of every text
Colon == 58

(* A short event descriptor with the name and whatever follows it. *)
ShortEvent(name, rest) ==
  <<ShortTag, (Len(name) + Len(rest) + 5) % LenMod>> \o Lang
    \o <<(Len(name) + 1) % LenMod, UTF8>> \o name \o rest

(* The short descriptor made for an XMLTV programme: a text length of 0. *)
XmlShort(name) == ShortEvent(name, <<0>>)

(* The short descriptor get_v7 makes: a text of at least the encoding byte. *)
V7Short(name, text) ==
  ShortEvent(name, <<(Len(text) + 1) % LenMod, UTF8>> \o text)

(* descriptor_number and last_descriptor_number of the i-th chunk, in the   *)
(* nibble order adjust_eit_extented_descriptor_endian leaves.               *)
ChunkNumber(i, order) ==
  LET number == (i - 1) % 16
      last == IF i = 1 THEN 0 ELSE (i - 2) % 16
  IN IF order = "B" THEN number * 16 + last ELSE last * 16 + number

ExtendedEvent(i, chunk, order) ==
  <<ExtendedTag, (Len(chunk) + 7) % LenMod, ChunkNumber(i, order)>> \o Lang
    \o <<0, (Len(chunk) + 1) % LenMod, UTF8>> \o chunk

(* The first chunk ends with the first ':' if it comes early enough;        *)
(* eString::mid then adds one character to every chunk.                     *)
FirstCut(desc) ==
  LET colons == {i \in DOMAIN desc : desc[i] = Colon}
  IN IF colons = {} \/ Min(colons) > ChunkWidth + 1
       THEN ChunkWidth
       ELSE Min(colons)

(* Mutant: the rest of a text after the last full chunk is dropped. *)
ChunksFullOnly(desc) ==
  LET first == Min({FirstCut(desc) + 1, Len(desc)})
      more  == (Len(desc) - first) \div (ChunkWidth + 1)
      end(i) == first + (i - 1) * (ChunkWidth + 1)
  IN IF desc = <<>> THEN <<>>
     ELSE [i \in 1..(more + 1) |->
             SubSeq(desc, IF i = 1 THEN 1 ELSE end(i - 1) + 1, end(i))]

Chunks(desc) ==
  LET first == Min({FirstCut(desc) + 1, Len(desc)})
      more  == (Len(desc) - first + ChunkWidth) \div (ChunkWidth + 1)
      end(i) == Min({Len(desc), first + (i - 1) * (ChunkWidth + 1)})
  IN IF desc = <<>> THEN <<>>
     ELSE [i \in 1..(more + 1) |->
             SubSeq(desc, IF i = 1 THEN 1 ELSE end(i - 1) + 1, end(i))]

(* The descriptors of an event: a short one, then the numbered chunks.      *)
EventDescriptors(short, desc, order) ==
  <<short>> \o
    [i \in DOMAIN Chunks(desc) |-> ExtendedEvent(i, Chunks(desc)[i], order)]
-----------------------------------------------------------------------------
(* Mutant: the CRC stops short by the two header bytes. *)
CrcWithoutHeader(d) == SubSeq(d, 1, d[2])

(* The id of a descriptor: the CRC over the descriptor_length + 2 bytes the *)
(* length byte announces, which is not all of it once the length wrapped.   *)
(* CRC-32 itself is taken to be injective on the bytes it reads.            *)
Crc(d) == SubSeq(d, 1, d[2] + 2)

(* The id of every descriptor of a sequence. *)
Crcs(ds) == [i \in DOMAIN ds |-> Crc(ds[i])]

Uses(ds, id) == {i \in DOMAIN ds : Crc(ds[i]) = id}

(* Mutant: a descriptor that is there already is not counted. *)
InternUncounted(table, ds) ==
  [id \in DOMAIN table \cup {Crc(ds[i]) : i \in DOMAIN ds} |->
     IF id \in DOMAIN table THEN table[id]
     ELSE [count |-> 1, bytes |-> ds[Min(Uses(ds, id))]]]

(* Enter descriptors one after the other: a known id only counts one more   *)
(* reference and the new bytes are deleted.                                 *)
Intern(table, ds) ==
  [id \in DOMAIN table \cup {Crc(ds[i]) : i \in DOMAIN ds} |->
     IF id \in DOMAIN table
       THEN [count |-> (table[id].count + Cardinality(Uses(ds, id))) % RefMod,
             bytes |-> table[id].bytes]
       ELSE [count |-> Cardinality(Uses(ds, id)) % RefMod,
             bytes |-> ds[Min(Uses(ds, id))]]]

(* The places where lists of ids refer to an id, and how many there are.    *)
PlacesIn(list, id) == {i \in DOMAIN list : list[i] = id}

Places(lists, id) == UNION {{n} \X PlacesIn(lists[n], id) : n \in DOMAIN lists}

References(lists, id) == Cardinality(Places(lists, id))

(* Every entry of a table counts exactly the references some lists of ids   *)
(* hold, modulo the 16 bits of the count, and no reference lacks its entry. *)
Counts(table, lists) ==
  /\ \A id \in DOMAIN table : table[id].count = References(lists, id) % RefMod
  /\ \A n \in DOMAIN lists : \A i \in DOMAIN lists[n] : lists[n][i] \in DOMAIN table
-----------------------------------------------------------------------------
(* Reading descriptors back, as Descriptor::create and its classes do.      *)
ShortName(d) == SubSeq(d, 8, 6 + d[6])

ShortText(d) ==
  LET at == 7 + d[6]
  IN IF at - 3 >= d[2] THEN <<>> ELSE SubSeq(d, at + 2, at + d[at])

ExtendedText(d) == SubSeq(d, 10, 8 + d[8])

(* The descriptors up to the first of an unknown tag, where the loops of    *)
(* get_v7 and EITEvent break.                                               *)
KnownPrefix(ds) ==
  LET unknown == {i \in DOMAIN ds : ds[i][1] \notin {ShortTag, ExtendedTag}}
  IN IF unknown = {} THEN ds ELSE SubSeq(ds, 1, Min(unknown) - 1)

(* An extended descriptor with no text at all, not even its encoding byte:  *)
(* txt.at(0) throws std::out_of_range, which nothing catches.               *)
Throws(ds) ==
  \E i \in DOMAIN KnownPrefix(ds) : ds[i][1] = ExtendedTag /\ ds[i][8] = 0

(* The texts of the extended descriptors, joined up to each descriptor.     *)
JoinedTexts(ds) ==
  LET upTo[n \in 0..Len(ds)] ==
        IF n = 0 THEN <<>>
        ELSE IF ds[n][1] = ExtendedTag THEN upTo[n - 1] \o ExtendedText(ds[n])
        ELSE upTo[n - 1]
  IN upTo

(* Title, text and description of an event: the last short descriptor       *)
(* counts, the texts of the extended ones are joined.                       *)
Content(ds) ==
  LET known  == KnownPrefix(ds)
      shorts == {i \in DOMAIN known : known[i][1] = ShortTag}
  IN [title |-> IF shorts = {} THEN <<>> ELSE ShortName(known[Max(shorts)]),
      text  |-> IF shorts = {} THEN <<>> ELSE ShortText(known[Max(shorts)]),
      desc  |-> JoinedTexts(known)[Len(known)]]

(* A descriptor all of whose bytes its length byte announces. *)
Fits(d) == Len(d) = d[2] + 2

(* An extended descriptor that holds the text its text length announces.    *)
HoldsText(d) == d[1] = ExtendedTag => Len(d) >= 8 /\ 8 + d[8] <= Len(d)

(* A short descriptor that holds the title and the text it announces, both  *)
(* of a length one byte tells.                                              *)
HoldsTitle(d) ==
  LET at == 7 + d[6]
  IN d[1] = ShortTag =>
       /\ Len(d) >= 6 /\ d[6] < LenMod /\ 6 + d[6] <= Len(d)
       /\ at - 3 < d[2] => at <= Len(d) /\ d[at] < LenMod /\ at + d[at] <= Len(d)
=============================================================================
