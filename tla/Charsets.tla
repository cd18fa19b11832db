------------------------------ MODULE Charsets ------------------------------
(***************************************************************************)
(* The character tables of gb18030.h and big5.h: how two or four bytes are *)
(* turned into an index, which table it is looked up in and what happens   *)
(* where a table has no entry.  A table is the number of its entries;      *)
(* whether there is an entry, and which, is the caller's choice: `full`    *)
(* are the tables with an entry at the place looked up, `entry` its code.  *)
(***************************************************************************)
EXTENDS Integers, Sequences, FiniteSets

gbkext1_2uni_page81 == 6080
gb2312_2uni_page21 == 831
gb2312_2uni_page30 == 6768
cp936ext_2uni_pagea6 == 181 - 159
cp936ext_2uni_pagea8 == 128 - 122
gb18030ext_2uni_pagea9 == 13
gb18030ext_2uni_pagefe == 96
gbkext2_2uni_pagea8 == 8272
big5_2uni_pagea1 == 6121
big5_2uni_pagec9 == 7652
gb2312_uni2indx_page00 == 70
gb2312_uni2indx_page20 == 101
gb2312_uni2indx_page30 == 35
gb2312_uni2indx_page4e == 1263
gb2312_uni2indx_page9e == 27
gb2312_uni2indx_pageff == 15

(* The index ranges of the 206 blocks of four-byte characters of the BMP.  *)
gb18030uni_charset2uni_ranges == 412
gb18030uni_ranges == 206

IlSeq == -2      \* RET_ILSEQ
TooFew == -4     \* RET_TOOFEW(0)

Bad(n) == [n |-> n, code |-> 0]
Good(n, code) == [n |-> n, code |-> code]
First(r, other) == IF r.n # IlSeq THEN r ELSE other

NoLookup == [table |-> "none", at |-> 0, entries |-> 1]
Lookup(table, at, entries) == [table |-> table, at |-> at, entries |-> entries]

Found(place, full, entry) ==
  IF place.table \in full THEN Good(2, entry) ELSE Bad(IlSeq)
-----------------------------------------------------------------------------
SecondByte(c2) == c2 \in 64..126 \/ c2 \in 128..254

(* Index in rows of so many characters, with a gap at 0x7F.                *)
Index(columns, c1, c2) == columns * (c1 - 129) + c2 - (IF c2 >= 128 THEN 65 ELSE 64)

ExtPlace(c1, c2) ==
  LET i == Index(190, c1, c2)
  IN IF c1 \in 129..160 /\ SecondByte(c2) /\ i < 6080
       THEN Lookup("page81", i, gbkext1_2uni_page81)
     ELSE NoLookup

Gb2312Place(c1, c2) ==
  LET i == 94 * (c1 - 161) + c2 - 161
  IN IF ~(c1 \in 161..169 \cup 176..247 /\ c2 \in 161..254) THEN NoLookup
     ELSE IF i < 831 THEN Lookup("page21", i, gb2312_2uni_page21)
     ELSE IF i >= 1410 /\ i < 8178 THEN Lookup("page30", i - 1410, gb2312_2uni_page30)
     ELSE NoLookup

Cp936Place(c1, c2) ==
  LET i == Index(190, c1, c2)
  IN IF ~(c1 \in {166, 168} /\ SecondByte(c2)) THEN NoLookup
     ELSE IF i \in 7189..7210 THEN Lookup("pagea6", i - 7189, cp936ext_2uni_pagea6)
     ELSE IF i \in 7532..7537 THEN Lookup("pagea8", i - 7532, cp936ext_2uni_pagea8)
     ELSE NoLookup

Ext2Place(c1, c2) ==
  LET i == Index(96, c1, c2)
  IN IF c1 \in 168..254 /\ (c2 \in 64..126 \/ c2 \in 128..160) /\ i < 12016
       THEN Lookup("ext2", i - 3744, gbkext2_2uni_pagea8)
     ELSE NoLookup

Gb18030Place(c1, c2) ==
  LET i == Index(190, c1, c2)
  IN IF ~SecondByte(c2) THEN NoLookup
     ELSE IF c1 = 169 /\ i \in 7672..7684
       THEN Lookup("pagea9", i - 7672, gb18030ext_2uni_pagea9)
     ELSE IF c1 = 254 /\ i < 23846
       THEN Lookup("pagefe", i - 23750, gb18030ext_2uni_pagefe)
     ELSE NoLookup

Big5Place(c1, c2) ==
  LET i == 157 * (c1 - 161) + c2 - (IF c2 >= 161 THEN 98 ELSE 64)
  IN IF ~(c1 \in 161..199 \cup 201..249 /\ (c2 \in 64..126 \/ c2 \in 161..254))
       THEN NoLookup
     ELSE IF i < 6121 THEN Lookup("big5a1", i, big5_2uni_pagea1)
     ELSE IF i \in 6280..13931 THEN Lookup("big5c9", i - 6280, big5_2uni_pagec9)
     ELSE NoLookup

Places(c1, c2) ==
  {ExtPlace(c1, c2), Gb2312Place(c1, c2), Cp936Place(c1, c2), Ext2Place(c1, c2),
   Gb18030Place(c1, c2), Big5Place(c1, c2)}

(* Blocks of gb18030ext that follow each other, from an index to an index: *)
(* the first code of each.                                                 *)
Blocks == {
  <<6376, 6381, 59238>>, <<6432, 6432, 8364>>, <<6433, 6433, 59245>>, <<6444, 6445, 59246>>,
  <<6458, 6459, 59248>>, <<6829, 6839, 59250>>, <<7022, 7029, 59261>>, <<7150, 7157, 59269>>,
  <<7182, 7190, 59277>>, <<7201, 7202, 59284>>, <<7208, 7208, 59286>>, <<7211, 7219, 59287>>,
  <<7349, 7363, 59296>>, <<7397, 7409, 59311>>, <<7495, 7505, 59324>>, <<7533, 7533, 59335>>,
  <<7536, 7536, 505>>, <<7538, 7541, 59337>>, <<7579, 7599, 59341>>, <<7624, 7624, 59362>>,
  <<7627, 7627, 59363>>, <<7629, 7631, 59364>>, <<7686, 7698, 59380>>, <<7775, 7789, 59393>>,
  <<16525, 16529, 59408>> }

Gb18030Ext(c1, c2, full, entry) ==
  LET i == Index(190, c1, c2)
      block == {b \in Blocks : i >= b[1] /\ i <= b[2]}
  IN IF ~(c1 \in {162, 215, 254} \cup 164..169 /\ SecondByte(c2)) THEN Bad(IlSeq)
     ELSE IF block # {} THEN LET b == CHOOSE b \in block : TRUE IN Good(2, b[3] + i - b[1])
     ELSE Found(Gb18030Place(c1, c2), full, entry)

Gbk(c1, c2, full, entry) ==
  LET row1 == IF c1 = 161 /\ c2 = 164 THEN Good(2, 183)
              ELSE IF c1 = 161 /\ c2 = 170 THEN Good(2, 8212)
              ELSE IF c1 \in 161..247 /\ c2 \in 161..254
                THEN First(Found(Gb2312Place(c1, c2), full, entry),
                           Found(Cp936Place(c1, c2), full, entry))
              ELSE Bad(IlSeq)
      rest == IF c1 \in 129..160 THEN Found(ExtPlace(c1, c2), full, entry)
              ELSE IF c1 \in 168..254 THEN Found(Ext2Place(c1, c2), full, entry)
              ELSE IF c1 = 162 /\ c2 \in 161..170 THEN Good(2, 8560 + c2 - 161)
              ELSE Bad(IlSeq)
  IN IF c1 \in 129..254 THEN First(row1, rest) ELSE Bad(IlSeq)

(* What a byte sequence lacks of the four bytes of a character, in the     *)
(* order in which the bytes are looked at.                                 *)
FourBytes(s, n) ==
  IF n < 2 THEN TooFew ELSE IF s[2] \notin 48..57 THEN IlSeq
  ELSE IF n < 3 THEN TooFew ELSE IF s[3] \notin 129..254 THEN IlSeq
  ELSE IF n < 4 THEN TooFew ELSE IF s[4] \notin 48..57 THEN IlSeq ELSE 4

FourIndex(first, s) ==
  (((s[1] - first) * 10 + s[2] - 48) * 126 + s[3] - 129) * 10 + s[4] - 48

Gb18030Uni(s, n, full, entry) ==
  IF s[1] \notin 129..132 THEN Bad(IlSeq)
  ELSE IF FourBytes(s, n) # 4 THEN Bad(FourBytes(s, n))
  ELSE IF FourIndex(129, s) <= 39419 /\ "ranges" \in full THEN Good(4, entry)
  ELSE Bad(IlSeq)

UserDefined(c1, c2) ==
  IF c1 \in 170..175 \cup 248..254 /\ c2 \in 161..254
    THEN Good(2, 57344 + 94 * (IF c1 >= 248 THEN c1 - 242 ELSE c1 - 170) + c2 - 161)
  ELSE IF c1 \in 161..167 /\ c2 \in (64..161) \ {127}
    THEN Good(2, 58566 + 96 * (c1 - 161) + c2 - (IF c2 >= 128 THEN 65 ELSE 64))
  ELSE Bad(IlSeq)

Planes(s, n) ==
  IF s[1] \notin 144..227 THEN Bad(IlSeq)
  ELSE IF FourBytes(s, n) # 4 THEN Bad(FourBytes(s, n))
  ELSE IF FourIndex(144, s) < 1048576 THEN Good(4, 65536 + FourIndex(144, s))
  ELSE Bad(IlSeq)

(* gb18030_mbtowc on the n bytes from s[1] on: bytes used, or an error.    *)
Gb18030(s, n, full, entry) ==
  IF s[1] < 128 THEN Good(1, s[1])
  ELSE IF s[1] \in 129..254 /\ n < 2 THEN Bad(TooFew)
  ELSE IF n < 2 THEN Bad(IlSeq)
  ELSE First(Gbk(s[1], s[2], full, entry), First(Gb18030Ext(s[1], s[2], full, entry),
         First(Gb18030Uni(s, n, full, entry),
           First(UserDefined(s[1], s[2]), Planes(s, n)))))

Big5(c1, c2, full, entry) == Found(Big5Place(c1, c2), full, entry)
-----------------------------------------------------------------------------
(* Mutant: the lower half may end before the index looked for.             *)
BlockOfBelow(i, ranges, n) ==
  LET search[k1 \in 0..n, k2 \in 0..n] ==
        LET k == (k1 + k2) \div 2
        IN IF k1 >= k2 THEN k1
           ELSE IF i < ranges[2 * k + 1] THEN search[k1, k]
           ELSE IF i >= ranges[2 * k + 2] THEN search[k + 1, k2]
           ELSE IlSeq
  IN search[0, n - 1]

(* The binary search of gb18030uni_mbtowc among n blocks, the k-th from    *)
(* ranges[2k] to ranges[2k + 1].                                           *)
BlockOf(i, ranges, n) ==
  LET search[k1 \in 0..n, k2 \in 0..n] ==
        LET k == (k1 + k2) \div 2
        IN IF k1 >= k2 THEN k1
           ELSE IF i <= ranges[2 * k + 1] THEN search[k1, k]
           ELSE IF i >= ranges[2 * k + 2] THEN search[k + 1, k2]
           ELSE IlSeq
  IN search[0, n - 1]

(* The summary gb2312_wctomb looks a code up in.                           *)
UniPlace(wc) ==
  CASE wc < 1120 -> Lookup("page00", wc \div 16, gb2312_uni2indx_page00)
    [] wc \in 8192..9807 -> Lookup("page20", wc \div 16 - 512, gb2312_uni2indx_page20)
    [] wc \in 12288..12847 -> Lookup("page30", wc \div 16 - 768, gb2312_uni2indx_page30)
    [] wc \in 19968..40175 -> Lookup("page4e", wc \div 16 - 1248, gb2312_uni2indx_page4e)
    [] wc \in 40448..40879 -> Lookup("page9e", wc \div 16 - 2528, gb2312_uni2indx_page9e)
    [] wc \in 65280..65519 -> Lookup("pageff", wc \div 16 - 4080, gb2312_uni2indx_pageff)
    [] OTHER -> NoLookup

(* used & 0x5555 + (used & 0xaaaa) >> 1, and the same with wider fields:   *)
(* each field of 2k bits becomes the sum of its halves.                    *)
HalvesAdded(used, k) ==
  LET field(f) == (used \div 2^(2 * k * f)) % 2^(2 * k)
      sums[f \in 0..(8 \div k)] ==
        IF f = 8 \div k THEN 0
        ELSE ((field(f) % 2^k) + (field(f) \div 2^k)) * 2^(2 * k * f) + sums[f + 1]
  IN sums[0] % 65536

(* How many entries of a summary come before bit i.                        *)
Rank(used, i) ==
  HalvesAdded(HalvesAdded(HalvesAdded(HalvesAdded(used % 2^i, 1), 2), 4), 8)
-----------------------------------------------------------------------------
(* Whatever the bytes, and in whatever order the tables are tried, no      *)
(* lookup leaves its table (the *_mbtowc functions).                       *)
LookupsInTable(c1, c2) == \A p \in Places(c1, c2) : p.at >= 0 /\ p.at < p.entries

(* No code is looked up behind its page of summaries (gb2312_wctomb).      *)
SummariesInPage(wc) == UniPlace(wc).at >= 0 /\ UniPlace(wc).at < UniPlace(wc).entries

(* The four masks and shifts count the bits below i (gb2312_wctomb).       *)
RankCounts(used, i) ==
  Rank(used, i) = Cardinality({b \in 0..15 : b < i /\ (used \div 2^b) % 2 = 1})

(* The search finds the block an index is in, and only then finds one:     *)
(* comparing an index with one end of a block and the beginning of the     *)
(* next is enough (gb18030uni_mbtowc).                                     *)
SearchFinds(i, ranges, n) ==
  LET inside == {k \in 0..n - 1 : ranges[2 * k] <= i /\ i <= ranges[2 * k + 1]}
  IN inside = IF BlockOf(i, ranges, n) = IlSeq THEN {} ELSE {BlockOf(i, ranges, n)}
=============================================================================
