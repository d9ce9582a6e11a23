----------------------------- MODULE HashProofs -----------------------------
(***************************************************************************)
(* What Hash computes, for every block size, message and way of cutting    *)
(* the message into calls.                                                 *)
(***************************************************************************)
EXTENDS Hash, SequenceTheorems, TLAPS

LEMMA Division ==
  ASSUME NEW a \in Nat, NEW b \in Nat, b > 0
  PROVE  /\ a \div b \in Nat
         /\ (a \div b) * b \in Nat
         /\ (a \div b) * b <= a
         /\ a - (a \div b) * b < b
<1>1. /\ a \div b \in Nat
      /\ a = b * (a \div b) + (a % b)
      /\ a % b \in 0 .. b - 1
  OBVIOUS
<1>2. (a \div b) * b = b * (a \div b)
  BY <1>1
<1>3. (a \div b) * b \in Nat
  BY <1>1
<1> QED
  BY <1>1, <1>2, <1>3

LEMMA BlockPositive == BlockLen \in Nat /\ BlockLen > 0 /\ LengthLen \in Nat /\ LengthLen < BlockLen
BY BlockAssumption

LEMMA Remainder ==
  ASSUME NEW n \in Nat, NEW take \in 0 .. n, NEW whole \in Nat, NEW b \in Nat,
         whole <= n - take, n - take - whole < b
  PROVE  take + whole <= n /\ n - take - whole \in 0 .. b - 1
OBVIOUS

(* WholeBlocks bounds its witness, for TLC; any witness will do.           *)
LEMMA BlocksAreWhole ==
  ASSUME NEW k \in Nat
  PROVE  k * BlockLen \in Nat /\ WholeBlocks(k * BlockLen)
<1>1. BlockLen \in Nat /\ BlockLen >= 1
  BY BlockPositive
<1>2. k * BlockLen \in Nat /\ k <= k * BlockLen
  BY <1>1
<1>3. k \in 0 .. k * BlockLen
  BY <1>2
<1> QED
  BY <1>2, <1>3 DEF WholeBlocks

LEMMA NoneOrOneBlock == WholeBlocks(0) /\ WholeBlocks(BlockLen)
<1>1. 0 = 0 * BlockLen /\ BlockLen = 1 * BlockLen
  BY BlockPositive
<1> QED
  BY <1>1, BlocksAreWhole

LEMMA SumOfBlocks ==
  ASSUME NEW x \in Nat, NEW y \in Nat, NEW z \in Nat,
         WholeBlocks(x), WholeBlocks(y), WholeBlocks(z)
  PROVE  WholeBlocks(x + y + z)
<1>1. PICK a \in Nat : x = a * BlockLen
  BY DEF WholeBlocks
<1>2. PICK b \in Nat : y = b * BlockLen
  BY DEF WholeBlocks
<1>3. PICK c \in Nat : z = c * BlockLen
  BY DEF WholeBlocks
<1>4. a + b + c \in Nat /\ x + y + z = (a + b + c) * BlockLen
  BY <1>1, <1>2, <1>3, BlockPositive
<1> QED
  BY <1>4, BlocksAreWhole

(* The pieces of one call: what is added to a started block, the whole     *)
(* blocks, and the rest.                                                   *)
LEMMA Pieces ==
  ASSUME NEW ctx \in Contexts, NEW n \in Nat
  PROVE  /\ Take(ctx, n) \in 0 .. n
         /\ Whole(ctx, n) \in Nat
         /\ WholeBlocks(Whole(ctx, n))
         /\ Left(ctx, n) \in 0 .. BlockLen - 1
         /\ Take(ctx, n) + Whole(ctx, n) + Left(ctx, n) = n
         /\ Fills(ctx, n) \in BOOLEAN
         /\ Fills(ctx, n) => ctx.len > 0 /\ ctx.len + Take(ctx, n) = BlockLen
         /\ ~Fills(ctx, n) /\ ctx.len = 0 => Take(ctx, n) = 0
         /\ ~Fills(ctx, n) /\ ctx.len > 0 =>
              Take(ctx, n) = n /\ Whole(ctx, n) = 0 /\ Left(ctx, n) = 0 /\ ctx.len + n < BlockLen
<1> DEFINE take  == Take(ctx, n)
           whole == Whole(ctx, n)
<1>1. ctx.len \in 0 .. BlockLen - 1
  BY DEF Contexts
<1>2. take \in 0 .. n
  BY <1>1, BlockPositive DEF Take, Smaller
<1>3. n - take \in Nat
  BY <1>2
<1>4. /\ (n - take) \div BlockLen \in Nat
      /\ whole \in Nat
      /\ whole <= n - take
      /\ n - take - whole < BlockLen
  BY <1>3, BlockPositive, Division DEF Whole
<1>5. WholeBlocks(whole)
  BY <1>4, BlocksAreWhole DEF Whole
<1>6. take + whole <= n /\ n - take - whole \in 0 .. BlockLen - 1
  BY <1>2, <1>4, Remainder, BlockPositive
<1>7. Left(ctx, n) \in 0 .. BlockLen - 1 /\ take + whole + Left(ctx, n) = n
  <2>1. Left(ctx, n) = n - take - whole
    BY DEF Left
  <2> HIDE DEF take, whole
  <2> QED
    BY <2>1, <1>2, <1>4, <1>6
<1>8. /\ Fills(ctx, n) \in BOOLEAN
      /\ Fills(ctx, n) => ctx.len > 0 /\ ctx.len + take = BlockLen
  BY DEF Fills
<1>9. ~Fills(ctx, n) /\ ctx.len = 0 => take = 0
  BY DEF Take
<1>10. ~Fills(ctx, n) /\ ctx.len > 0 => take = n /\ ctx.len + n < BlockLen
  BY <1>1, BlockPositive DEF Take, Smaller, Fills
<1>11. take = n => whole = 0 /\ Left(ctx, n) = 0
  <2> HIDE DEF take, whole
  <2> QED
    BY <1>4, <1>7
<1> QED
  BY <1>2, <1>4, <1>5, <1>7, <1>8, <1>9, <1>10, <1>11

-----------------------------------------------------------------------------
LEMMA BlockIsSeq ==
  ASSUME NEW S, NEW n \in Nat, NEW f \in [1 .. n -> S]
  PROVE  f \in Seq(S) /\ Len(f) = n /\ \A i \in 1 .. n : f[i] \in S
BY SeqDef, LenProperties

LEMMA ThreeParts ==
  ASSUME NEW S, NEW r \in Seq(S), NEW s \in Seq(S), NEW t \in Seq(S)
  PROVE  /\ r \o s \o t \in Seq(S)
         /\ Len(r \o s \o t) = Len(r) + Len(s) + Len(t)
         /\ \A i \in 1 .. Len(r) + Len(s) + Len(t) :
              (r \o s \o t)[i] = IF i <= Len(r) THEN r[i]
                                 ELSE IF i <= Len(r) + Len(s) THEN s[i - Len(r)]
                                 ELSE t[i - Len(r) - Len(s)]
<1>1. r \o s \in Seq(S) /\ Len(r \o s) = Len(r) + Len(s)
  OBVIOUS
<1>2. \A i \in 1 .. Len(r) + Len(s) : (r \o s)[i] = IF i <= Len(r) THEN r[i] ELSE s[i - Len(r)]
  OBVIOUS
<1>3. \A i \in 1 .. Len(r \o s) + Len(t) :
        (r \o s \o t)[i] = IF i <= Len(r \o s) THEN (r \o s)[i] ELSE t[i - Len(r \o s)]
  BY <1>1
<1> QED
  BY <1>1, <1>2, <1>3

LEMMA TwoParts ==
  ASSUME NEW S, NEW s \in Seq(S), NEW t \in Seq(S)
  PROVE  /\ s \o t \in Seq(S)
         /\ Len(s \o t) = Len(s) + Len(t)
         /\ \A i \in 1 .. Len(s) + Len(t) :
              (s \o t)[i] = IF i <= Len(s) THEN s[i] ELSE t[i - Len(s)]
OBVIOUS

LEMMA Part ==
  ASSUME NEW S, NEW s \in Seq(S), NEW a \in Nat, NEW b \in Nat, a + b <= Len(s)
  PROVE  /\ SubSeq(s, a + 1, a + b) \in Seq(S)
         /\ Len(SubSeq(s, a + 1, a + b)) = b
         /\ \A i \in 1 .. b : SubSeq(s, a + 1, a + b)[i] = s[a + i]
OBVIOUS

(* vl_sha256_update(): whatever was absorbed before and however the        *)
(* message is cut into calls, the context then holds all of it, in order.  *)
THEOREM UpdateAbsorbs ==
  ASSUME NEW ctx, NEW message \in Seq(Byte), NEW data \in Seq(Byte),
         HasAbsorbed(ctx, message)
  PROVE  HasAbsorbed(HashUpdate(ctx, data), message \o data)
<1> DEFINE n      == Len(data)
           take   == Take(ctx, n)
           topped == Topped(ctx, data)
           whole  == Whole(ctx, n)
           left   == Left(ctx, n)
           fills  == Fills(ctx, n)
           first  == IF fills THEN topped ELSE <<>>
           middle == SubSeq(data, take + 1, take + whole)
           new    == HashUpdate(ctx, data)
           old    == Len(ctx.blocks)
<1>a. /\ n = Len(data) /\ n \in Nat
      /\ old = Len(ctx.blocks)
      /\ first = IF fills THEN topped ELSE <<>>
      /\ middle = SubSeq(data, take + 1, take + whole)
  OBVIOUS
<1>b. topped = [i \in 1 .. BlockLen |-> IF i > ctx.len /\ i <= ctx.len + take
                                         THEN data[i - ctx.len] ELSE ctx.buffer[i]]
  BY DEF Topped
<1>c. ctx \in Contexts
  BY DEF HasAbsorbed
<1>0. /\ BlockLen \in Nat /\ BlockLen > 0
      /\ old \in Nat /\ ctx.blocks \in Seq(Byte)
      /\ ctx.len \in 0 .. BlockLen - 1
      /\ ctx.buffer \in [1 .. BlockLen -> Byte]
      /\ Len(message) = old + ctx.len
      /\ ctx.count = Len(message)
  BY <1>c, BlockPositive DEF HasAbsorbed, Contexts
<1>k. WholeBlocks(whole)
  BY <1>a, <1>c, Pieces
<1>1. /\ take \in 0 .. n
      /\ whole \in Nat
      /\ left \in 0 .. BlockLen - 1
      /\ take + whole + left = n
      /\ fills \in BOOLEAN
      /\ fills => ctx.len > 0 /\ ctx.len + take = BlockLen
      /\ ~fills /\ ctx.len = 0 => take = 0
      /\ ~fills /\ ctx.len > 0 => take = n /\ whole = 0 /\ left = 0 /\ ctx.len + n < BlockLen
  BY <1>a, <1>c, Pieces
<1>2. new = [buffer |-> [i \in 1 .. BlockLen |-> IF i <= left THEN data[take + whole + i] ELSE topped[i]],
             len    |-> IF left > 0 \/ fills THEN left ELSE ctx.len + take,
             count  |-> ctx.count + n,
             blocks |-> ctx.blocks \o first \o middle]
  BY DEF HashUpdate
<1> HIDE DEF n, take, topped, whole, left, fills, first, middle, new, old
<1>3. topped \in [1 .. BlockLen -> Byte]
  <2> SUFFICES ASSUME NEW i \in 1 .. BlockLen
               PROVE  (IF i > ctx.len /\ i <= ctx.len + take THEN data[i - ctx.len] ELSE ctx.buffer[i]) \in Byte
    BY <1>b
  <2>1. i > ctx.len /\ i <= ctx.len + take => i - ctx.len \in 1 .. n
    <3> DEFINE l == ctx.len
    <3>1. l \in Nat /\ take \in 0 .. n /\ n \in Nat /\ BlockLen \in Nat
      BY <1>0, <1>1, <1>a
    <3> HIDE DEF l
    <3>2. i > l /\ i <= l + take => i - l \in 1 .. n
      BY <3>1
    <3> QED
      BY <3>2 DEF l
  <2> QED
    BY <2>1, <1>0, <1>a
<1>4. /\ first \in Seq(Byte)
      /\ Len(first) = IF fills THEN BlockLen ELSE 0
      /\ \A i \in 1 .. Len(first) : first[i] = topped[i]
  BY <1>3, <1>a, BlockIsSeq, BlockPositive
<1>5. /\ middle \in Seq(Byte)
      /\ Len(middle) = whole
      /\ \A i \in 1 .. whole : middle[i] = data[take + i]
  <2>1. take \in Nat /\ whole \in Nat /\ take + whole <= Len(data)
    BY <1>1, <1>a
  <2> QED
    BY <2>1, <1>a, Part
<1>6. /\ new.blocks \in Seq(Byte)
      /\ Len(new.blocks) = old + Len(first) + whole
      /\ \A i \in 1 .. old + Len(first) + whole :
           new.blocks[i] = IF i <= old THEN ctx.blocks[i]
                           ELSE IF i <= old + Len(first) THEN first[i - old]
                           ELSE middle[i - old - Len(first)]
  <2>1. new.blocks = ctx.blocks \o first \o middle
    BY <1>2
  <2>2. /\ new.blocks \in Seq(Byte)
        /\ Len(new.blocks) = Len(ctx.blocks) + Len(first) + Len(middle)
        /\ \A i \in 1 .. Len(ctx.blocks) + Len(first) + Len(middle) :
             new.blocks[i] = IF i <= Len(ctx.blocks) THEN ctx.blocks[i]
                             ELSE IF i <= Len(ctx.blocks) + Len(first) THEN first[i - Len(ctx.blocks)]
                             ELSE middle[i - Len(ctx.blocks) - Len(first)]
    <3>1. ctx.blocks \in Seq(Byte) /\ first \in Seq(Byte) /\ middle \in Seq(Byte)
      BY <1>0, <1>4, <1>5
    <3> QED
      BY <3>1, <2>1, ThreeParts
  <2> QED
    BY <2>2, <1>a, <1>5
<1> DEFINE f == Len(first)
           l == ctx.len
           w == new.len
<1>e. /\ f = Len(first) /\ l = ctx.len /\ w = new.len
      /\ l \in 0 .. BlockLen - 1
      /\ f = IF fills THEN BlockLen ELSE 0
      /\ w = IF left > 0 \/ fills THEN left ELSE l + take
      /\ fills => l > 0 /\ l + take = BlockLen
      /\ ~fills /\ l = 0 => take = 0
      /\ ~fills /\ l > 0 => take = n /\ whole = 0 /\ left = 0 /\ l + n < BlockLen
  BY <1>0, <1>1, <1>2, <1>4
<1> HIDE DEF f, l, w
<1>f. /\ f \in Nat /\ l \in Nat /\ w \in 0 .. BlockLen - 1
      /\ w = l + n - f - whole
      /\ fills \/ l = 0 => take = f - l /\ w = left /\ l <= f
      /\ ~(fills \/ l = 0) => f = 0 /\ whole = 0 /\ left = 0 /\ w = l + n /\ take = n
  <2>1. f \in Nat /\ l \in Nat /\ n \in Nat /\ BlockLen \in Nat /\ BlockLen > 0
    BY <1>0, <1>a, <1>e
  <2>a. /\ take \in 0 .. n /\ whole \in Nat /\ left \in 0 .. BlockLen - 1
        /\ take + whole + left = n
    BY <1>1
  <2>2. CASE fills
    <3>1. l > 0 /\ l + take = BlockLen /\ f = BlockLen /\ w = left
      BY <2>2, <1>e
    <3> QED
      BY <2>1, <2>2, <2>a, <3>1
  <2>3. CASE ~fills /\ l = 0
    <3>1. take = 0 /\ f = 0 /\ w = left
      BY <2>1, <2>3, <2>a, <1>e
    <3> QED
      BY <2>1, <2>3, <2>a, <3>1
  <2>4. CASE ~fills /\ l > 0
    <3>1. take = n /\ whole = 0 /\ left = 0 /\ l + n < BlockLen /\ f = 0 /\ w = l + n
      BY <2>1, <2>4, <2>a, <1>e
    <3> QED
      BY <2>1, <2>4, <2>a, <3>1
  <2> QED
    BY <2>1, <2>2, <2>3, <2>4
<1>7. /\ new.count = old + l + n
      /\ Len(message \o data) = old + l + n
  <2>1. new.count = ctx.count + n
    BY <1>2
  <2>2. Len(message \o data) = Len(message) + Len(data)
    BY TwoParts
  <2> QED
    BY <2>1, <2>2, <1>0, <1>a, <1>e
<1>8. new.buffer \in [1 .. BlockLen -> Byte]
  <2> SUFFICES ASSUME NEW i \in 1 .. BlockLen
               PROVE  (IF i <= left THEN data[take + whole + i] ELSE topped[i]) \in Byte
    BY <1>2
  <2>1. i <= left => take + whole + i \in 1 .. n
    BY <1>0, <1>1, <1>a
  <2> QED
    BY <2>1, <1>0, <1>3, <1>a
<1>9. new \in Contexts
  <2>1. new.len \in 0 .. BlockLen - 1
    BY <1>e, <1>f
  <2>2. new.count \in Nat
    <3>1. old \in Nat /\ l \in Nat /\ n \in Nat
      BY <1>0, <1>a, <1>f
    <3> QED
      BY <3>1, <1>7
  <2>3. new.blocks \in Seq(Byte)
    BY <1>6
  <2>4. new = [buffer |-> new.buffer, len |-> new.len, count |-> new.count, blocks |-> new.blocks]
    BY <1>2
  <2> QED
    BY <2>1, <2>2, <2>3, <2>4, <1>8 DEF Contexts
<1>10. WholeBlocks(Len(new.blocks))
  <2>1. WholeBlocks(old)
    BY <1>a DEF HasAbsorbed
  <2>2. WholeBlocks(Len(first))
    BY <1>4, <1>0, NoneOrOneBlock
  <2>3. old \in Nat /\ Len(first) \in Nat /\ whole \in Nat
    BY <1>0, <1>1, <1>a, <1>e, <1>f
  <2> QED
    BY <2>1, <2>2, <2>3, <1>k, <1>6, SumOfBlocks
<1>11. ASSUME NEW i \in 1 .. old + l + n
       PROVE  (message \o data)[i] = IF i <= old + f + whole THEN new.blocks[i]
                                      ELSE new.buffer[i - (old + f + whole)]
  <2>0. /\ i \in Nat /\ i > 0 /\ i <= old + l + n
        /\ old \in Nat /\ n \in Nat /\ f \in Nat /\ l \in Nat
        /\ whole \in Nat /\ left \in Nat /\ take \in Nat
        /\ BlockLen \in Nat /\ l < BlockLen /\ left < BlockLen
        /\ take + whole + left = n
    BY <1>0, <1>1, <1>a, <1>e, <1>f
  <2>1. (message \o data)[i] = IF i <= old THEN ctx.blocks[i]
                               ELSE IF i <= old + l THEN ctx.buffer[i - old]
                               ELSE data[i - old - l]
    <3>1. Len(message) = old + l /\ Len(data) = n
      BY <1>0, <1>a, <1>e
    <3>2. (message \o data)[i] = IF i <= old + l THEN message[i] ELSE data[i - (old + l)]
      <4>1. i \in 1 .. Len(message) + Len(data)
        BY <3>1, <2>0
      <4>2. (message \o data)[i] = IF i <= Len(message) THEN message[i] ELSE data[i - Len(message)]
        BY <4>1, TwoParts
      <4> QED
        BY <3>1, <4>2
    <3>3. i <= old + l => message[i] = IF i <= old THEN ctx.blocks[i] ELSE ctx.buffer[i - old]
      BY <3>1, <2>0, <1>a DEF HasAbsorbed
    <3>4. i > old + l => i - (old + l) = i - old - l
      BY <2>0
    <3> QED
      BY <3>2, <3>3, <3>4, <2>0
  <2>2. i <= old + f + whole =>
          new.blocks[i] = IF i <= old THEN ctx.blocks[i]
                          ELSE IF i <= old + f THEN first[i - old]
                          ELSE middle[i - old - f]
    <3> SUFFICES ASSUME i <= old + f + whole
                 PROVE  new.blocks[i] = IF i <= old THEN ctx.blocks[i]
                                        ELSE IF i <= old + f THEN first[i - old]
                                        ELSE middle[i - old - f]
      OBVIOUS
    <3>1. Len(first) = f
      BY <1>e
    <3>2. i \in 1 .. old + f + whole
      BY <2>0
    <3> QED
      BY <3>1, <3>2, <1>6
  <2>3. \A j \in 1 .. BlockLen :
          topped[j] = IF j > l /\ j <= l + take THEN data[j - l] ELSE ctx.buffer[j]
    BY <1>b, <1>e
  <2>4. CASE i <= old
    BY <2>0, <2>1, <2>2, <2>4
  <2>5. CASE i > old /\ i <= old + f
    <3> DEFINE j == i - old
    <3>1. fills /\ l + take = BlockLen /\ f = BlockLen /\ j \in 1 .. BlockLen
      BY <2>0, <2>5, <1>e
    <3>2. first[j] = topped[j]
      BY <3>1, <1>4, <1>e
    <3>3. topped[j] = IF j > l THEN data[j - l] ELSE ctx.buffer[j]
      BY <2>0, <2>3, <3>1
    <3>4. j > l <=> ~ (i <= old + l)
      BY <2>0
    <3> QED
      BY <2>0, <2>1, <2>2, <2>5, <3>2, <3>3, <3>4
  <2>6. CASE i > old + f /\ i <= old + f + whole
    <3> DEFINE j == i - old - f
    <3>1. j \in 1 .. whole /\ take = f - l /\ take + j = i - old - l /\ i > old + l
      BY <2>0, <2>6, <1>f
    <3>2. middle[j] = data[take + j]
      BY <3>1, <1>5
    <3> QED
      BY <2>0, <2>1, <2>2, <2>6, <3>1, <3>2
  <2>7. CASE i > old + f + whole
    <3> DEFINE j == i - (old + f + whole)
    <3>1. j \in 1 .. BlockLen
      BY <2>0, <2>7, <1>f
    <3>2. new.buffer[j] = IF j <= left THEN data[take + whole + j] ELSE topped[j]
      BY <3>1, <1>2
    <3>3. CASE fills \/ l = 0
      <4>1. j <= left /\ take + whole + j = i - old - l /\ i > old + l
        BY <2>0, <2>7, <3>3, <1>f
      <4>2. new.buffer[j] = data[i - old - l]
        BY <4>1, <3>2
      <4>3. (message \o data)[i] = data[i - old - l]
        BY <4>1, <2>0, <2>1
      <4>4. ~ (i <= old + f + whole)
        BY <2>0, <2>7
      <4> QED
        BY <4>2, <4>3, <4>4
    <3>4. CASE ~(fills \/ l = 0)
      <4>1. j = i - old /\ ~ (j <= left) /\ j <= l + take /\ (j > l <=> ~ (i <= old + l))
        BY <2>0, <2>7, <3>1, <3>4, <1>f
      <4>2. topped[j] = IF j > l THEN data[j - l] ELSE ctx.buffer[j]
        BY <2>0, <2>3, <3>1, <4>1
      <4> QED
        BY <4>1, <4>2, <3>2, <2>0, <2>1, <2>7
    <3> QED
      BY <3>3, <3>4
  <2> QED
    <3>1. \/ i <= old
          \/ i > old /\ i <= old + f
          \/ i > old + f /\ i <= old + f + whole
          \/ i > old + f + whole
      BY <2>0
    <3> QED
      BY <3>1, <2>4, <2>5, <2>6, <2>7
<1> QED
  <2>1. Len(new.blocks) = old + f + whole
    BY <1>6, <1>e
  <2>2. Len(message \o data) = Len(new.blocks) + new.len /\ new.count = Len(message \o data)
    <3>1. old \in Nat /\ n \in Nat /\ whole \in Nat
      BY <1>0, <1>1, <1>a
    <3>2. old + l + n = old + f + whole + w
      BY <3>1, <1>f
    <3> QED
      BY <3>2, <2>1, <1>7, <1>e
  <2>3. \A i \in 1 .. Len(message \o data) :
          (message \o data)[i] = IF i <= Len(new.blocks) THEN new.blocks[i]
                                                          ELSE new.buffer[i - Len(new.blocks)]
    BY <2>1, <1>7, <1>11
  <2>4. HasAbsorbed(new, message \o data)
    BY <2>2, <2>3, <1>9, <1>10 DEF HasAbsorbed
  <2> QED
    BY <2>4 DEF new

(* vl_sha256_init(): nothing was absorbed yet.                             *)
LEMMA StartAbsorbs == HasAbsorbed(HashStart, <<>>)
<1>1. HashStart \in Contexts
  <2>1. 0 \in Byte /\ 0 \in 0 .. BlockLen - 1 /\ <<>> \in Seq(Byte)
    BY BlockPositive DEF Byte
  <2>2. [i \in 1 .. BlockLen |-> 0] \in [1 .. BlockLen -> Byte]
    BY <2>1
  <2> QED
    BY <2>1, <2>2 DEF HashStart, Contexts
<1>2. /\ HashStart.blocks = <<>> /\ HashStart.len = 0 /\ HashStart.count = 0
      /\ Len(<<>>) = 0
  BY DEF HashStart
<1> QED
  BY <1>1, <1>2, NoneOrOneBlock DEF HasAbsorbed

(* vl_sha256_final(): the digest is that of exactly the bytes absorbed,    *)
(* padded once, whatever an earlier block left in the buffer.              *)
THEOREM FinalPads ==
  ASSUME NEW ctx, NEW message \in Seq(Byte), HasAbsorbed(ctx, message)
  PROVE  /\ IsPadded(message, HashFinal(ctx))
         /\ \E S : HashFinal(ctx) \in Seq(S)
<1> DEFINE marked == ctx.len + 1
           over   == marked > BlockLen - LengthLen
           kept   == [i \in 1 .. BlockLen |-> IF i <= ctx.len THEN ctx.buffer[i]
                                              ELSE IF i = marked THEN 128 ELSE 0]
           from   == IF over THEN 0 ELSE marked
           last   == [i \in 1 .. BlockLen |->
                        IF i <= from THEN kept[i]
                        ELSE IF i <= BlockLen - LengthLen THEN 0
                        ELSE LengthDigit(ctx.count, i - (BlockLen - LengthLen))]
           first  == IF over THEN kept ELSE <<>>
           all    == HashFinal(ctx)
           old    == Len(ctx.blocks)
           l      == ctx.len
           f      == IF over THEN BlockLen ELSE 0
           top    == BlockLen - LengthLen
           S      == Byte \cup {LengthDigit(ctx.count, j) : j \in 1 .. LengthLen}
<1>1. ctx \in Contexts
  BY DEF HasAbsorbed
<1>2. /\ BlockLen \in Nat /\ BlockLen > 0 /\ LengthLen \in Nat /\ LengthLen < BlockLen
      /\ old \in Nat /\ ctx.blocks \in Seq(Byte)
      /\ l \in 0 .. BlockLen - 1
      /\ ctx.buffer \in [1 .. BlockLen -> Byte]
      /\ Len(message) = old + l
      /\ ctx.count = Len(message)
  BY <1>1, BlockPositive DEF HasAbsorbed, Contexts
<1>3. all = ctx.blocks \o first \o last
  BY DEF HashFinal
<1>4. /\ marked = l + 1
      /\ top \in Nat /\ top > 0 /\ top <= BlockLen /\ BlockLen = top + LengthLen
      /\ over = (l + 1 > top)
      /\ from = IF over THEN 0 ELSE l + 1
      /\ f = IF over THEN BlockLen ELSE 0
      /\ f \in Nat
  BY <1>2
<1>5. \A i \in 1 .. BlockLen : kept[i] = IF i <= l THEN ctx.buffer[i] ELSE IF i = marked THEN 128 ELSE 0
  OBVIOUS
<1>6. \A i \in 1 .. BlockLen : last[i] = IF i <= from THEN kept[i]
                                          ELSE IF i <= top THEN 0
                                          ELSE LengthDigit(ctx.count, i - top)
  OBVIOUS
<1>7. kept \in [1 .. BlockLen -> S]
  <2> SUFFICES ASSUME NEW i \in 1 .. BlockLen
               PROVE  (IF i <= l THEN ctx.buffer[i] ELSE IF i = marked THEN 128 ELSE 0) \in S
    OBVIOUS
  <2>1. 0 \in Byte /\ 128 \in Byte
    BY DEF Byte
  <2> QED
    BY <2>1, <1>2
<1>8. last \in [1 .. BlockLen -> S]
  <2> SUFFICES ASSUME NEW i \in 1 .. BlockLen
               PROVE  (IF i <= from THEN kept[i] ELSE IF i <= top THEN 0
                       ELSE LengthDigit(ctx.count, i - top)) \in S
    OBVIOUS
  <2>1. 0 \in Byte
    BY DEF Byte
  <2>2. ~ (i <= top) => i - top \in 1 .. LengthLen
    BY <1>2, <1>4
  <2> HIDE DEF kept, from, top
  <2> QED
    BY <2>1, <2>2, <1>7
<1> HIDE DEF kept, last, from
<1>9. /\ ctx.blocks \in Seq(S) /\ first \in Seq(S) /\ last \in Seq(S)
      /\ Len(first) = f /\ Len(last) = BlockLen
      /\ \A i \in 1 .. f : first[i] = kept[i]
  <2>1. ctx.blocks \in Seq(S)
    <3>1. Byte \subseteq S
      OBVIOUS
    <3> HIDE DEF S
    <3> QED
      BY <3>1, <1>2
  <2> HIDE DEF S
  <2>2. kept \in Seq(S) /\ Len(kept) = BlockLen /\ last \in Seq(S) /\ Len(last) = BlockLen
    BY <1>7, <1>8, <1>2, BlockIsSeq
  <2> QED
    BY <2>1, <2>2
<1> HIDE DEF S, over, first, all, f, l, old, top, marked
<1>10. /\ Len(all) = old + f + BlockLen
       /\ \A i \in 1 .. old + f + BlockLen :
            all[i] = IF i <= old THEN ctx.blocks[i]
                     ELSE IF i <= old + f THEN first[i - old]
                     ELSE last[i - old - f]
  <2>1. old = Len(ctx.blocks)
    BY DEF old
  <2>2. ctx.blocks \in Seq(S) /\ first \in Seq(S) /\ last \in Seq(S)
    BY <1>9
  <2>3. /\ Len(all) = Len(ctx.blocks) + Len(first) + Len(last)
        /\ \A i \in 1 .. Len(ctx.blocks) + Len(first) + Len(last) :
             all[i] = IF i <= Len(ctx.blocks) THEN ctx.blocks[i]
                      ELSE IF i <= Len(ctx.blocks) + Len(first) THEN first[i - Len(ctx.blocks)]
                      ELSE last[i - Len(ctx.blocks) - Len(first)]
    BY <2>2, <1>3, ThreeParts
  <2> QED
    BY <2>1, <2>3, <1>9
<1>11. WholeBlocks(old + f + BlockLen)
  <2>1. WholeBlocks(old)
    BY DEF HasAbsorbed, old
  <2>2. WholeBlocks(f) /\ WholeBlocks(BlockLen)
    BY <1>4, NoneOrOneBlock
  <2>3. old \in Nat /\ f \in Nat /\ BlockLen \in Nat
    BY <1>2, <1>4, BlockPositive DEF old
  <2> QED
    BY <2>1, <2>2, <2>3, SumOfBlocks
<1>12. /\ l \in Nat /\ l < BlockLen
       /\ over => l + 1 > top
       /\ ~over => l + 1 <= top
       /\ over => f = BlockLen /\ from = 0
       /\ ~over => f = 0 /\ from = l + 1
  <2>1. l \in Nat /\ l < BlockLen
    BY <1>2
  <2>2. over => f = BlockLen /\ from = 0
    BY <1>4
  <2>3. ~over => f = 0 /\ from = l + 1
    BY <1>4
  <2>4. (over => l + 1 > top) /\ (~over => l + 1 <= top)
    <3>1. ~ (l + 1 > top) => l + 1 <= top
      BY <2>1, <1>4
    <3> QED
      BY <3>1, <1>4
  <2> QED
    BY <2>1, <2>2, <2>3, <2>4
<1>13. old + f + BlockLen \in old + l + 1 + LengthLen .. old + l + LengthLen + BlockLen
  BY <1>2, <1>4, <1>12
<1>14. ASSUME NEW i \in 1 .. old + f + BlockLen
       PROVE  all[i] = IF i <= old + l THEN message[i]
                       ELSE IF i = old + l + 1 THEN 128
                       ELSE IF i <= (old + f + BlockLen) - LengthLen THEN 0
                       ELSE LengthDigit(old + l, i - ((old + f + BlockLen) - LengthLen))
  <2>0. /\ i \in Nat /\ i > 0 /\ i <= old + f + BlockLen
        /\ old \in Nat /\ f \in Nat /\ l \in Nat /\ l < BlockLen
        /\ top \in Nat /\ LengthLen \in Nat /\ BlockLen = top + LengthLen /\ BlockLen \in Nat /\ top > 0
    BY <1>2, <1>4, <1>12
  <2>1. i <= old + l => message[i] = IF i <= old THEN ctx.blocks[i] ELSE ctx.buffer[i - old]
    <3>1. Len(message) = old + l
      BY <1>2
    <3> QED
      BY <3>1, <2>0 DEF HasAbsorbed, old
  <2>2. CASE i <= old
    <3>1. all[i] = ctx.blocks[i]
      BY <2>2, <1>10
    <3>2. i <= old + l
      BY <2>0, <2>2
    <3> QED
      BY <3>1, <3>2, <2>1, <2>2
  <2>3. CASE i > old /\ i <= old + f
    <3>1. over /\ f = BlockLen /\ i - old \in 1 .. BlockLen /\ i - old \in 1 .. f
      BY <2>0, <2>3, <1>12
    <3>2. all[i] = kept[i - old]
      BY <2>0, <2>3, <3>1, <1>9, <1>10
    <3>3. kept[i - old] = IF i - old <= l THEN ctx.buffer[i - old] ELSE IF i - old = l + 1 THEN 128 ELSE 0
      BY <3>1, <1>4, <1>5
    <3>4. CASE i <= old + l
      BY <3>2, <3>3, <3>4, <2>0, <2>1, <2>3
    <3>5. CASE i = old + l + 1
      BY <3>2, <3>3, <3>5, <2>0
    <3>6. CASE i > old + l + 1
      <4>1. i <= (old + f + BlockLen) - LengthLen
        BY <2>0, <2>3, <3>1
      <4> QED
        BY <4>1, <3>2, <3>3, <3>6, <2>0
    <3> QED
      <4>1. i <= old + l \/ i = old + l + 1 \/ i > old + l + 1
        BY <2>0
      <4> QED
        BY <4>1, <3>4, <3>5, <3>6
  <2>4. CASE i > old + f
    <3> DEFINE j == i - old - f
    <3>1. j \in 1 .. BlockLen
      BY <2>0, <2>4
    <3>2. all[i] = last[j]
      BY <2>0, <2>4, <1>10
    <3>3. last[j] = IF j <= from THEN kept[j] ELSE IF j <= top THEN 0
                    ELSE LengthDigit(ctx.count, j - top)
      BY <3>1, <1>6
    <3>4. ctx.count = old + l
      BY <1>2
    <3>5. kept[j] = IF j <= l THEN ctx.buffer[j] ELSE IF j = l + 1 THEN 128 ELSE 0
      BY <3>1, <1>4, <1>5
    <3>6. j <= top <=> i <= (old + f + BlockLen) - LengthLen
      BY <2>0
    <3>7. j - top = i - ((old + f + BlockLen) - LengthLen)
      BY <2>0
    <3>8. CASE over
      <4>1. i > old + l + 1 /\ ~ (j <= from)
        BY <3>8, <2>0, <2>4, <1>12
      <4>2. all[i] = IF i <= (old + f + BlockLen) - LengthLen THEN 0
                     ELSE LengthDigit(old + l, i - ((old + f + BlockLen) - LengthLen))
        BY <4>1, <3>2, <3>3, <3>4, <3>6, <3>7
      <4> QED
        <5>1. ~ (i <= old + l) /\ i # old + l + 1
          BY <4>1, <2>0
        <5> QED
          BY <5>1, <4>2
    <3>9. CASE ~over
      <4>1. f = 0 /\ from = l + 1 /\ l + 1 <= top /\ j = i - old
        BY <3>9, <2>0, <1>12
      <4>2. CASE i <= old + l
        BY <4>1, <4>2, <3>2, <3>3, <3>5, <2>0, <2>1, <2>4
      <4>3. CASE i = old + l + 1
        BY <4>1, <4>3, <3>2, <3>3, <3>5, <2>0
      <4>4. CASE i > old + l + 1
        <5>1. ~ (j <= from)
          BY <4>1, <4>4, <2>0
        <5>2. all[i] = IF i <= (old + f + BlockLen) - LengthLen THEN 0
                       ELSE LengthDigit(old + l, i - ((old + f + BlockLen) - LengthLen))
          BY <5>1, <3>2, <3>3, <3>4, <3>6, <3>7
        <5> QED
          BY <5>2, <4>4, <2>0
      <4> QED
        <5>1. i <= old + l \/ i = old + l + 1 \/ i > old + l + 1
          BY <2>0
        <5> QED
          BY <5>1, <4>2, <4>3, <4>4
    <3> QED
      BY <3>8, <3>9
  <2> QED
    BY <2>2, <2>3, <2>4, <2>0
<1>15. IsPadded(message, all)
  <2>1. Len(message) = old + l /\ Len(all) = old + f + BlockLen
    BY <1>2, <1>10
  <2> QED
    <3>1. WholeBlocks(Len(all))
      BY <2>1, <1>11
    <3>2. Len(all) \in Len(message) + 1 + LengthLen .. Len(message) + LengthLen + BlockLen
      BY <2>1, <1>13
    <3>3. \A i \in 1 .. Len(all) :
            all[i] = IF i <= Len(message) THEN message[i]
                     ELSE IF i = Len(message) + 1 THEN 128
                     ELSE IF i <= Len(all) - LengthLen THEN 0
                     ELSE LengthDigit(Len(message), i - (Len(all) - LengthLen))
      BY <2>1, <1>14
    <3> QED
      BY <3>1, <3>2, <3>3 DEF IsPadded
<1>16. all \in Seq(S)
  <2>1. ctx.blocks \in Seq(S) /\ first \in Seq(S) /\ last \in Seq(S)
    BY <1>9
  <2> QED
    BY <2>1, <1>3, ThreeParts
<1>17. IsPadded(message, HashFinal(ctx)) /\ HashFinal(ctx) \in Seq(S)
  BY <1>15, <1>16 DEF all
<1> HIDE DEF S
<1> QED
  BY <1>17

(* FIPS 180-4 leaves no choice: a message has one padding, so two digests  *)
(* of the same message are the same.                                       *)
LEMMA PaddingIsUnique ==
  ASSUME NEW message \in Seq(Byte),
         NEW S, NEW x \in Seq(S), IsPadded(message, x),
         NEW T, NEW y \in Seq(T), IsPadded(message, y)
  PROVE  x = y
<1> DEFINE l == Len(message)
<1>1. l \in Nat /\ Len(x) \in Nat /\ Len(y) \in Nat
  OBVIOUS
<1>2. Len(x) \in l + 1 + LengthLen .. l + LengthLen + BlockLen
      /\ Len(y) \in l + 1 + LengthLen .. l + LengthLen + BlockLen
  BY DEF IsPadded
<1>3. PICK j \in Nat : Len(x) = j * BlockLen
  BY <1>1 DEF IsPadded, WholeBlocks
<1>4. PICK k \in Nat : Len(y) = k * BlockLen
  BY <1>1 DEF IsPadded, WholeBlocks
<1>5. Len(x) < Len(y) + BlockLen /\ Len(y) < Len(x) + BlockLen
  <2> HIDE DEF l
  <2> QED
    BY <1>1, <1>2, BlockPositive
<1>6. ASSUME NEW m \in Nat, NEW n \in Nat, m * BlockLen < n * BlockLen + BlockLen PROVE m <= n
  <2>1. CASE n + 1 <= m
    <3>1. BlockLen \in Nat /\ BlockLen > 0
      BY BlockPositive
    <3>2. (n + 1) * BlockLen <= m * BlockLen
      BY <2>1, <3>1
    <3>3. (n + 1) * BlockLen = n * BlockLen + BlockLen
      BY <3>1
    <3>4. n * BlockLen \in Nat /\ m * BlockLen \in Nat
      BY <3>1
    <3> QED
      BY <1>6, <3>1, <3>2, <3>3, <3>4
  <2> QED
    BY <2>1
<1>7. j <= k /\ k <= j
  BY <1>3, <1>4, <1>5, <1>6
<1>8. Len(x) = Len(y)
  BY <1>3, <1>4, <1>7
<1>9. \A i \in 1 .. Len(x) : x[i] = y[i]
  BY <1>8 DEF IsPadded
<1> QED
  BY <1>1, <1>8, <1>9, SeqEqual
=============================================================================
