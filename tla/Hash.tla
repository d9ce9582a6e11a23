-------------------------------- MODULE Hash --------------------------------
(***************************************************************************)
(* The streaming half of core/vl_sha256.c (vl_sha512.c is the same code    *)
(* with a block of 128 and a length field of 16): bytes come in pieces of  *)
(* any size and reach the compression function in whole blocks.            *)
(*                                                                         *)
(* The compression itself is not modelled: a context remembers the bytes   *)
(* it compressed, and a digest is the whole of what was compressed, as for *)
(* a function without collisions.                                          *)
(***************************************************************************)
EXTENDS Integers, Sequences

CONSTANTS
  BlockLen,  \* VL_SHA256_BLOCK_LEN
  LengthLen  \* bytes of the length field

ASSUME BlockAssumption == BlockLen \in Nat /\ LengthLen \in Nat /\ LengthLen < BlockLen

Byte == 0 .. 255

Smaller(x, y)  == IF x < y THEN x ELSE y
WholeBlocks(n) == \E k \in 0 .. n : n = k * BlockLen

(* Byte j of the big-endian length in bits.                                *)
LengthDigit(count, j) == ((8 * count) \div (256 ^ (LengthLen - j))) % 256

(* The buffer keeps what earlier blocks left in it.                        *)
Contexts ==
  [buffer : [1 .. BlockLen -> Byte], len : 0 .. BlockLen - 1, count : Nat, blocks : Seq(Byte)]

HashStart == [buffer |-> [i \in 1 .. BlockLen |-> 0], len |-> 0, count |-> 0, blocks |-> <<>>]

(* vl_sha256_update(): top up a started block, compress whole blocks where *)
(* they lie, keep the rest.                                                *)
Take(ctx, n) == IF ctx.len > 0 THEN Smaller(BlockLen - ctx.len, n) ELSE 0

Whole(ctx, n) == ((n - Take(ctx, n)) \div BlockLen) * BlockLen
Left(ctx, n)  == n - Take(ctx, n) - Whole(ctx, n)

Topped(ctx, data) ==
  [i \in 1 .. BlockLen |-> IF i > ctx.len /\ i <= ctx.len + Take(ctx, Len(data))
                             THEN data[i - ctx.len] ELSE ctx.buffer[i]]

Fills(ctx, n) == ctx.len > 0 /\ ctx.len + Take(ctx, n) = BlockLen

HashUpdate(ctx, data) ==
  LET n      == Len(data)
      take   == Take(ctx, n)
      topped == Topped(ctx, data)
      whole  == Whole(ctx, n)
      left   == Left(ctx, n)
  IN [buffer |-> [i \in 1 .. BlockLen |-> IF i <= left THEN data[take + whole + i] ELSE topped[i]],
      len    |-> IF left > 0 \/ Fills(ctx, n) THEN left ELSE ctx.len + take,
      count  |-> ctx.count + n,
      blocks |-> ctx.blocks \o (IF Fills(ctx, n) THEN topped ELSE <<>>)
                            \o SubSeq(data, take + 1, take + whole)]

(* vl_sha256_final(): 0x80, zeros, the length; a block more when the       *)
(* length does not fit behind the mark.  Either way the zeros overwrite    *)
(* what was left in the buffer.                                            *)
HashFinal(ctx) ==
  LET marked == ctx.len + 1
      over   == marked > BlockLen - LengthLen
      kept   == [i \in 1 .. BlockLen |-> IF i <= ctx.len THEN ctx.buffer[i]
                                         ELSE IF i = marked THEN 128 ELSE 0]
      from   == IF over THEN 0 ELSE marked
      last   == [i \in 1 .. BlockLen |->
                   IF i <= from THEN kept[i]
                   ELSE IF i <= BlockLen - LengthLen THEN 0
                   ELSE LengthDigit(ctx.count, i - (BlockLen - LengthLen))]
  IN ctx.blocks \o (IF over THEN kept ELSE <<>>) \o last

-----------------------------------------------------------------------------
(* What a context owes the message it has absorbed: all of it, in order,   *)
(* is compressed in whole blocks or waits in the buffer.                   *)
HasAbsorbed(ctx, message) ==
  /\ ctx \in Contexts
  /\ WholeBlocks(Len(ctx.blocks))
  /\ Len(message) = Len(ctx.blocks) + ctx.len
  /\ ctx.count = Len(message)
  /\ \A i \in 1 .. Len(message) :
       message[i] = IF i <= Len(ctx.blocks) THEN ctx.blocks[i]
                                            ELSE ctx.buffer[i - Len(ctx.blocks)]

(* FIPS 180-4, 5.1: the message, one mark, as few zeros as fill the last   *)
(* block, the length in bits.                                              *)
IsPadded(message, padded) ==
  LET l == Len(message) IN
  /\ WholeBlocks(Len(padded))
  /\ Len(padded) \in l + 1 + LengthLen .. l + LengthLen + BlockLen
  /\ \A i \in 1 .. Len(padded) :
       padded[i] = IF i <= l THEN message[i]
                   ELSE IF i = l + 1 THEN 128
                   ELSE IF i <= Len(padded) - LengthLen THEN 0
                   ELSE LengthDigit(l, i - (Len(padded) - LengthLen))
=============================================================================
