-------------------------------- MODULE Md5 ---------------------------------
(***************************************************************************)
(* libmd5sum (md5.c): how a file or a run of buffers reaches the function  *)
(* that compresses blocks.  The digest is what went through                *)
(* md5_process_block; compression itself is not looked into.  Numbers are  *)
(* those of the code, made smaller together.                               *)
(***************************************************************************)
EXTENDS Integers, Sequences

CONSTANTS
  Block,        \* 64 in the code
  ReadBlock,    \* BLOCKSIZE, 4096 in the code
  WordMod,      \* 2^32 in the code: the modulus of md5_uint32
  MaxMessage    \* bound: how long a message is

ASSUME Md5Assumption ==
  /\ Block \in Nat /\ Block > 2 /\ ReadBlock \in Nat /\ ReadBlock % Block = 0
  /\ ReadBlock > 0 /\ WordMod \in Nat /\ WordMod % 8 = 0 /\ WordMod >= ReadBlock + 2 * Block
  /\ MaxMessage \in Nat

(* A byte of the message, of the filling, or one of the two length words.  *)
Message(from, to) == [k \in 1..(to - from) |-> <<"message", from + k>>]
Fill(n) == [k \in 1..n |-> IF k = 1 THEN <<"fill", 128>> ELSE <<"fill", 0>>]
Length(low, high) == <<<<"length", low>>, <<"length", high>>>>
LengthField == 2     \* two words where the code has 8 bytes

VARIABLES
  length,       \* of the message
  way,          \* "stream": md5_stream; "bytes": calls of md5_process_bytes
  given,        \* how much of the message has been read or given
  sum,          \* how much of what was read is in the buffer of md5_stream
  buffer,       \* ctx->buffer, up to buflen
  total,        \* ctx->total, both words
  blocks,       \* history: what md5_process_block got
  digest        \* "open", "done" or "failed"

md5Vars == <<length, way, given, sum, buffer, total, blocks, digest>>

Md5Init ==
  /\ length \in 0..MaxMessage /\ way \in {"stream", "bytes"}
  /\ given = 0 /\ sum = 0 /\ buffer = <<>> /\ total = <<0, 0>>
  /\ blocks = <<>> /\ digest = "open"

Counted(count, n) ==
  LET low == (count[1] + n) % WordMod
  IN <<low, (IF low < n THEN count[2] + 1 ELSE count[2]) % WordMod>>

(* The state of the context after md5_process_block, or after nothing.     *)
Ctx(b, t, done) == [buffer |-> b, total |-> t, blocks |-> done]
Processed(ctx, s) == [ctx EXCEPT !.total = Counted(@, Len(s)), !.blocks = @ \o s]
SetCtx(ctx) == buffer' = ctx.buffer /\ total' = ctx.total /\ blocks' = ctx.blocks

Whole(n) == n - (n % Block)

(* md5_process_bytes: what is over stays in the buffer, a whole block, too. *)
ProcessBytes(ctx, s) ==
  LET left == Len(ctx.buffer)
      add == IF 2 * Block - left > Len(s) THEN Len(s) ELSE 2 * Block - left
      joined == ctx.buffer \o SubSeq(s, 1, add)
      first == IF left = 0 THEN ctx
               ELSE IF left + add > Block
                 THEN [Processed(ctx, SubSeq(joined, 1, Whole(left + add)))
                         EXCEPT !.buffer = SubSeq(joined, Whole(left + add) + 1, left + add)]
               ELSE [ctx EXCEPT !.buffer = joined]
      rest == IF left = 0 THEN s ELSE SubSeq(s, add + 1, Len(s))
      second == IF Len(rest) > Block THEN Processed(first, SubSeq(rest, 1, Whole(Len(rest))))
                ELSE first
      last == IF Len(rest) > Block THEN SubSeq(rest, Whole(Len(rest)) + 1, Len(rest)) ELSE rest
  IN IF last # <<>> THEN [second EXCEPT !.buffer = last] ELSE second

(* Mutant: no block more is begun where the filling just does not fit.     *)
PaddingTight(bytes) ==
  IF bytes > Block - LengthField THEN 2 * Block - LengthField - bytes ELSE Block - LengthField - bytes

Padding(bytes) ==
  IF bytes >= Block - LengthField THEN 2 * Block - LengthField - bytes ELSE Block - LengthField - bytes

(* md5_finish_ctx: the length is counted in bytes and written in bits.     *)
Finish(ctx) ==
  LET count == Counted(ctx.total, Len(ctx.buffer))
      high == ((count[2] * 8) % WordMod) + (count[1] \div (WordMod \div 8))
  IN Processed([ctx EXCEPT !.total = count],
               ctx.buffer \o Fill(Padding(Len(ctx.buffer)))
                 \o Length((count[1] * 8) % WordMod, high))

Now == Ctx(buffer, total, blocks)

(* fread may return less than it is asked for.                             *)
Read ==
  /\ digest = "open" /\ way = "stream" /\ given < length /\ sum < ReadBlock
  /\ \E n \in 1..(ReadBlock - sum) :
       given + n <= length /\ given' = given + n /\ sum' = sum + n
  /\ UNCHANGED <<length, way, buffer, total, blocks, digest>>

ReadFails ==
  /\ digest = "open" /\ way = "stream" /\ given < length /\ sum < ReadBlock
  /\ digest' = "failed"
  /\ UNCHANGED <<length, way, given, sum, buffer, total, blocks>>

FullBuffer ==
  /\ digest = "open" /\ way = "stream" /\ sum = ReadBlock
  /\ SetCtx(Processed(Now, Message(given - sum, given)))
  /\ sum' = 0
  /\ UNCHANGED <<length, way, given, digest>>

EndOfFile ==
  /\ digest = "open" /\ way = "stream" /\ given = length /\ sum < ReadBlock
  /\ SetCtx(Finish(IF sum > 0 THEN ProcessBytes(Now, Message(given - sum, given)) ELSE Now))
  /\ digest' = "done"
  /\ UNCHANGED <<length, way, given, sum>>

(* Calls of less than 4 GB: one carry is all that is counted for a call.   *)
GiveBytes ==
  /\ digest = "open" /\ way = "bytes"
  /\ \E n \in 1..(length - given) :
       /\ n < WordMod
       /\ SetCtx(ProcessBytes(Now, Message(given, given + n)))
       /\ given' = given + n
  /\ UNCHANGED <<length, way, sum, digest>>

FinishBytes ==
  /\ digest = "open" /\ way = "bytes" /\ given = length
  /\ SetCtx(Finish(Now))
  /\ digest' = "done"
  /\ UNCHANGED <<length, way, given, sum>>

Md5Next == Read \/ ReadFails \/ FullBuffer \/ EndOfFile \/ GiveBytes \/ FinishBytes

Md5Spec == Md5Init /\ [][Md5Next]_md5Vars
-----------------------------------------------------------------------------
(* However a file is read and however a message is cut into calls, the     *)
(* digest is that of the message filled up to a block as RFC 1321 has it,  *)
(* with its length in bits in the last two words (md5_stream,              *)
(* md5_process_bytes, md5_finish_ctx).                                     *)
DigestOfWholeMessage ==
  digest = "done" =>
    LET bits == length * 8
        body == Len(blocks) - LengthField
    IN /\ Len(blocks) % Block = 0
       /\ body > length /\ body - length <= Block
       /\ SubSeq(blocks, 1, length) = Message(0, length)
       /\ SubSeq(blocks, length + 1, body) = Fill(body - length)
       /\ SubSeq(blocks, body + 1, Len(blocks)) =
            Length(bits % WordMod, (bits \div WordMod) % WordMod)

(* The buffer is never asked to hold more than its two blocks, the filling *)
(* and the length included, and the two words count what was compressed.   *)
BufferHolds ==
  /\ Len(buffer) <= Block /\ Len(buffer) + Padding(Len(buffer)) + LengthField <= 2 * Block
  /\ digest = "open" =>
       total[1] + WordMod * total[2] = Len(blocks) % (WordMod * WordMod)

(* Every byte of the message reaches the digest once, and fits on its way. *)
DigestRight == DigestOfWholeMessage /\ BufferHolds
=============================================================================
