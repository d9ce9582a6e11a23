---------------------------- MODULE ChunkProofs ----------------------------
(***************************************************************************)
(* Proofs about Chunk for every buffer length, word size, set of messages, *)
(* chunk sizes and capacities, on the worst link.                          *)
(***************************************************************************)
EXTENDS Chunk, FiniteSetTheorems, SequenceTheorems, TLAPS

USE MaxLenAssumption, WordAssumption, BytesAssumption, MessagesAssumption,
    SizesAssumption, BoundAssumption

-----------------------------------------------------------------------------
(* Division, as the ceiling division and the offsets of vl_chunk.c use it. *)
LEMMA Monotone ==
  ASSUME NEW s \in Nat, NEW q \in Nat, NEW c \in Nat, s <= q
  PROVE  s * c <= q * c
  OBVIOUS

LEMMA Division ==
  ASSUME NEW n \in Nat, NEW c \in Nat \ {0}
  PROVE  /\ n \div c \in Nat
         /\ (n \div c) * c <= n
         /\ n < (n \div c) * c + c
  OBVIOUS

LEMMA DivisionBound ==
  ASSUME NEW s \in Nat, NEW n \in Nat, NEW c \in Nat \ {0}
  PROVE  s <= n \div c <=> s * c <= n
<1> DEFINE q == n \div c
<1>1. q \in Nat /\ q * c <= n /\ n < q * c + c
  BY Division
<1> HIDE DEF q
<1>2. CASE s <= q
  BY <1>1, <1>2, Monotone
<1>3. CASE q + 1 <= s
  <2>1. (q + 1) * c <= s * c
    BY <1>1, <1>3, Monotone
  <2>2. (q + 1) * c = q * c + c
    BY <1>1
  <2> QED
    BY <1>1, <1>3, <2>1, <2>2
<1> QED
  BY <1>1, <1>2, <1>3 DEF q

LEMMA DivisionIs ==
  ASSUME NEW s \in Nat, NEW n \in Nat, NEW c \in Nat \ {0}
  PROVE  n \div c = s <=> s * c <= n /\ n < s * c + c
<1>1. s <= n \div c <=> s * c <= n
  BY DivisionBound
<1>2. s + 1 <= n \div c <=> (s + 1) * c <= n
  BY DivisionBound
<1>3. (s + 1) * c = s * c + c
  OBVIOUS
<1>4. n \div c \in Nat
  BY Division
<1> QED
  BY <1>1, <1>2, <1>3, <1>4

-----------------------------------------------------------------------------
(* The positions that piece s writes are those whose quotient is s: no     *)
(* counter wraps, and no subtraction goes below zero.                      *)
LEMMA PieceIs ==
  ASSUME TypeOK, SizesInv, armed, NEW s \in 0 .. expect - 1
  PROVE  /\ Off(s) = s * chunk_size
         /\ Off(s) < total_len
         /\ Want(s) \in 1 .. chunk_size
         /\ Written(s) = {p \in 0 .. total_len - 1 : p \div chunk_size = s}
<1> DEFINE cs == chunk_size
           len == total_len
<1>1. cs \in Nat \ {0} /\ len \in Nat \ {0} /\ len <= MaxLen /\ cs < Word
  BY DEF SizesInv, TypeOK
<1>2. s \in Nat /\ s <= (len - 1) \div cs
  <2>1. expect = (len - 1) \div cs + 1 /\ (len - 1) \div cs \in Nat
    BY <1>1, Division DEF SizesInv, Expect
  <2> QED
    BY <2>1
<1>3. s * cs \in Nat /\ s * cs < len
  BY <1>1, <1>2, DivisionBound
<1>4. Off(s) = s * cs
  BY <1>1, <1>3 DEF Off, U32
<1>5. Want(s) = Min2(len - s * cs, cs)
  BY <1>1, <1>3, <1>4 DEF Want, U32
<1>6. Written(s) = s * cs .. s * cs + Min2(len - s * cs, cs) - 1
  BY <1>4, <1>5 DEF Written
<1>7. ASSUME NEW p \in 0 .. len - 1 PROVE p \div cs = s <=> s * cs <= p /\ p < s * cs + cs
  BY <1>1, <1>2, DivisionIs
<1> HIDE DEF cs, len
<1>8. Written(s) = {p \in 0 .. len - 1 : p \div cs = s}
  <2>1. ASSUME NEW p \in Written(s) PROVE p \in 0 .. len - 1 /\ p \div cs = s
    <3>1. p \in Nat /\ s * cs <= p /\ p < s * cs + cs /\ p < len
      BY <1>1, <1>3, <1>6, <2>1 DEF Min2
    <3> QED
      BY <1>1, <1>7, <3>1
  <2>2. ASSUME NEW p \in 0 .. len - 1, p \div cs = s PROVE p \in Written(s)
    BY <1>1, <1>3, <1>6, <1>7, <2>2 DEF Min2
  <2> QED
    BY <2>1, <2>2
<1>9. Want(s) \in 1 .. cs
  BY <1>1, <1>3, <1>5 DEF Min2
<1> QED
  BY <1>3, <1>4, <1>8, <1>9 DEF cs, len

(* Every byte belongs to one of the expected pieces.                       *)
LEMMA PieceOf ==
  ASSUME TypeOK, SizesInv, armed, NEW p \in 0 .. total_len - 1
  PROVE  p \div chunk_size \in 0 .. expect - 1
<1>1. chunk_size \in Nat \ {0} /\ total_len \in Nat \ {0} /\ p \in Nat
  BY DEF SizesInv, TypeOK
<1>2. p \div chunk_size \in Nat /\ (p \div chunk_size) * chunk_size <= total_len - 1
  BY <1>1, Division
<1>3. p \div chunk_size <= (total_len - 1) \div chunk_size
  BY <1>1, <1>2, DivisionBound
<1>4. (total_len - 1) \div chunk_size \in Nat
  BY <1>1, Division
<1> QED
  BY <1>2, <1>3, <1>4 DEF SizesInv, Expect

-----------------------------------------------------------------------------
(* The invariant, action by action.                                        *)
LEMMA FrameType ==
  ASSUME TypeOK, NEW i \in FrameNumbers
  PROVE  Frame(i) \in [seq : 0 .. MaxLen, data : Seq(Bytes), of : 0 .. MaxMessages]
<1>1. msg \in Seq(Bytes) /\ size \in Nat /\ i \in 0 .. MaxLen /\ Len(msg) \in Nat
  BY DEF TypeOK, FrameNumbers
<1>2. i * size + 1 \in Nat \ {0} /\ (i + 1) * size \in Nat
  BY <1>1
<1> DEFINE last == Min2((i + 1) * size, Len(msg))
<1>3. last \in Nat /\ last <= Len(msg)
  BY <1>1, <1>2 DEF Min2
<1>4. \A j \in i * size + 1 .. last : msg[j] \in Bytes
  BY <1>1, <1>2, <1>3
<1>5. SubSeq(msg, i * size + 1, last) \in Seq(Bytes)
  <2> HIDE DEF last
  <2> QED
    BY <1>2, <1>3, <1>4, SubSeqProperties
<1> QED
  BY <1>1, <1>5 DEF Frame, Cut, TypeOK

LEMMA ExpectType ==
  ASSUME NEW cs \in Nat \ {0}, NEW len \in 1 .. MaxLen
  PROVE  Expect(cs, len) \in 1 .. len
<1>1. (len - 1) \div cs \in Nat /\ ((len - 1) \div cs) * cs <= len - 1
  BY Division
<1>2. ((len - 1) \div cs) * 1 <= ((len - 1) \div cs) * cs
  BY <1>1
<1> QED
  BY <1>1, <1>2 DEF Expect

LEMMA BeginKeeps ==
  ASSUME ChunkInv, NEW m \in Messages, NEW s \in Sizes, Begin(m, s)
  PROVE  ChunkInv'
<1>1. Len(m) \in Nat /\ s \in Nat
  OBVIOUS
<1>2. IsFiniteSet({}) /\ Cardinality({}) = 0
  BY FS_EmptySet
<1>3. /\ have' = 0 /\ seen' = {} /\ buf' = Zero /\ late' = FALSE /\ air' = air
      /\ msg' = m /\ size' = s /\ begun' = begun + 1 /\ begun < MaxMessages
      /\ up' = Answer("INVALID_ARG", <<>>)
  BY DEF Begin, Reset
<1>4. Zero \in [0 .. MaxLen - 1 -> Bytes] /\ <<>> \in Seq(Bytes)
  BY DEF Zero
<1> DEFINE Rest == /\ have \in 0 .. MaxLen
                   /\ seen \in SUBSET (0 .. MaxLen - 1)
                   /\ buf \in [0 .. MaxLen - 1 -> Bytes]
                   /\ up \in Answers
                   /\ msg \in Messages \cup {<<>>}
                   /\ size \in Sizes \cup {0}
                   /\ begun \in 0 .. MaxMessages
                   /\ air \subseteq [seq : 0 .. MaxLen, data : Seq(Bytes), of : 0 .. MaxMessages]
                   /\ late \in BOOLEAN
<1>7. Rest'
  <2>1. up' \in Answers
    BY <1>3, <1>4 DEF Answers, Answer
  <2>2. begun' \in 0 .. MaxMessages
    BY <1>3 DEF ChunkInv, TypeOK
  <2>3. air' \subseteq [seq : 0 .. MaxLen, data : Seq(Bytes), of : 0 .. MaxMessages]
    BY <1>3 DEF ChunkInv, TypeOK
  <2>4. have' \in 0 .. MaxLen /\ seen' \in SUBSET (0 .. MaxLen - 1)
    BY <1>3
  <2>5. buf' \in [0 .. MaxLen - 1 -> Bytes]
    BY <1>3, <1>4
  <2>6. msg' \in Messages \cup {<<>>} /\ size' \in Sizes \cup {0}
    BY <1>3
  <2>7. late' \in BOOLEAN
    BY <1>3
  <2> QED
    BY <2>1, <2>2, <2>3, <2>4, <2>5, <2>6, <2>7
<1>8. ASSUME armed' \in BOOLEAN, chunk_size' \in 0 .. Word - 1, total_len' \in 0 .. MaxLen,
             expect' \in 0 .. MaxLen
      PROVE  TypeOK' /\ CountInv'
  <2>1. TypeOK'
    BY <1>7, <1>8 DEF TypeOK
  <2>2. CountInv'
    BY <1>2, <1>3 DEF CountInv
  <2> QED
    BY <2>1, <2>2
<1> HIDE DEF Rest
<1>5. CASE Sound(s, Len(m))
  <2> DEFINE n == Len(m)
  <2>1. s = U32(s) /\ s # 0 /\ n # 0 /\ n <= MaxLen
    BY <1>5 DEF Sound
  <2>2. U32(s) \in 0 .. Word - 1
    BY <1>1 DEF U32
  <2>3. s \in 1 .. Word - 1 /\ n \in 1 .. MaxLen
    BY <1>1, <2>1, <2>2
  <2>4. armed' = TRUE /\ chunk_size' = s /\ total_len' = n /\ expect' = Expect(s, n)
    BY <1>5, <2>1 DEF Begin, Reset
  <2> HIDE DEF n
  <2>5. Expect(s, n) \in 1 .. MaxLen
    BY <2>3, ExpectType
  <2>6. armed' /\ armed' \in BOOLEAN /\ chunk_size' \in 1 .. Word - 1 /\ total_len' \in 1 .. MaxLen
        /\ expect' \in 1 .. MaxLen /\ expect' = Expect(chunk_size', total_len')
    BY <2>3, <2>4, <2>5
  <2>7. chunk_size' = size' /\ total_len' = Len(msg')
    BY <1>3, <2>4 DEF n
  <2>8. TypeOK' /\ CountInv'
    BY <1>8, <2>6
  <2>9. SizesInv' /\ ArmedAsSent'
    BY <2>6, <2>7 DEF SizesInv, ArmedAsSent
  <2> QED
    BY <2>8, <2>9 DEF ChunkInv
<1>6. CASE ~Sound(s, Len(m))
  <2>1. ~armed' /\ armed' \in BOOLEAN /\ chunk_size' = 0 /\ total_len' = 0 /\ expect' = 0
    <3>1. Sound(s, Len(m)) \in BOOLEAN
      BY DEF Sound
    <3>2. armed' = Sound(s, Len(m))
      BY DEF Begin, Reset
    <3> QED
      BY <1>6, <3>1, <3>2 DEF Begin, Reset
  <2>2. TypeOK' /\ CountInv'
    BY <1>8, <2>1
  <2>3. SizesInv'
    BY <2>1 DEF SizesInv
  <2>4. ArmedAsSent'
    BY <2>1 DEF ArmedAsSent
  <2> QED
    BY <2>2, <2>3, <2>4 DEF ChunkInv
<1> QED
  BY <1>5, <1>6

LEMMA FeedKeeps ==
  ASSUME ChunkInv, NEW f \in air, Deliver(f)
  PROVE  ChunkInv'
<1>1. /\ f.seq \in 0 .. MaxLen /\ f.data \in Seq(Bytes)
      /\ air' \subseteq air
      /\ UNCHANGED <<up, msg, size, begun, armed, chunk_size, total_len, expect>>
  BY DEF ChunkInv, TypeOK, Deliver, Feed, rx
<1>2. CASE UNCHANGED <<rx, late>>
  BY <1>1, <1>2 DEF ChunkInv, TypeOK, SizesInv, CountInv, ArmedAsSent, rx
<1>3. CASE /\ Fits(f) /\ f.seq \notin seen
           /\ buf' = [p \in DOMAIN buf |->
                  IF p \in Written(f.seq) THEN f.data[p - Off(f.seq) + 1] ELSE buf[p]]
           /\ seen' = seen \cup {f.seq}
           /\ have' = have + 1
           /\ late' = (late \/ f.of # begun)
  <2>1. armed /\ f.seq \in 0 .. expect - 1 /\ Len(f.data) = Want(f.seq)
    BY <1>1, <1>3 DEF Fits, ChunkInv, TypeOK
  <2>2. Off(f.seq) \in Nat /\ Want(f.seq) \in Nat
    <3>1. Off(f.seq) = f.seq * chunk_size /\ Want(f.seq) \in 1 .. chunk_size
      BY <2>1, PieceIs DEF ChunkInv
    <3>2. chunk_size \in Nat /\ f.seq \in Nat
      BY <1>1 DEF ChunkInv, TypeOK
    <3> QED
      BY <3>1, <3>2
  <2>3. \A p \in Written(f.seq) : f.data[p - Off(f.seq) + 1] \in Bytes
    <3> SUFFICES ASSUME NEW p \in Written(f.seq) PROVE f.data[p - Off(f.seq) + 1] \in Bytes
      OBVIOUS
    <3>1. p - Off(f.seq) + 1 \in 1 .. Len(f.data)
      BY <2>1, <2>2 DEF Written
    <3> QED
      BY <1>1, <3>1
  <2>4. buf' \in [0 .. MaxLen - 1 -> Bytes]
    BY <1>3, <2>3 DEF ChunkInv, TypeOK
  <2>5. seen' \subseteq 0 .. expect - 1 /\ have' = Cardinality(seen')
    <3>1. IsFiniteSet(0 .. expect - 1)
      BY FS_Interval DEF ChunkInv, TypeOK
    <3>2. IsFiniteSet(seen)
      BY <3>1, FS_Subset DEF ChunkInv, CountInv
    <3> QED
      BY <1>3, <2>1, <3>2, FS_AddElement DEF ChunkInv, CountInv
  <2>6. have' \in 0 .. expect
    <3>1. IsFiniteSet(0 .. expect - 1) /\ Cardinality(0 .. expect - 1) = expect
      <4>1. expect \in Nat
        BY DEF ChunkInv, TypeOK
      <4> QED
        BY <4>1, FS_Interval
    <3>2. Cardinality(seen') <= expect
      BY <2>5, <3>1, FS_Subset
    <3> QED
      BY <1>3, <2>5, <3>2 DEF ChunkInv, TypeOK
  <2>7. late' \in BOOLEAN
    BY <1>3
  <2> QED
    BY <1>1, <2>4, <2>5, <2>6, <2>7 DEF ChunkInv, TypeOK, SizesInv, CountInv, ArmedAsSent
<1> QED
  BY <1>2, <1>3 DEF Deliver, Feed

LEMMA CollectedType ==
  ASSUME TypeOK
  PROVE  Collected \in Seq(Bytes)
<1>1. total_len \in Nat /\ \A p \in 1 .. total_len : buf[p - 1] \in Bytes
  BY DEF TypeOK
<1> QED
  BY <1>1 DEF Collected

LEMMA OthersKeep ==
  ASSUME ChunkInv,
         \/ \E i \in 0 .. MaxLen : Send(i)
         \/ \E f \in air : Lose(f)
         \/ \E cap \in Caps : Complete(cap)
         \/ UNCHANGED vars
  PROVE  ChunkInv'
<1> USE DEF ChunkInv, TypeOK, SizesInv, CountInv, ArmedAsSent
<1>1. ASSUME NEW i \in 0 .. MaxLen, Send(i) PROVE ChunkInv'
  BY <1>1, FrameType DEF Send, rx
<1>2. ASSUME NEW f \in air, Lose(f) PROVE ChunkInv'
  BY <1>2 DEF Lose, rx
<1>3. ASSUME NEW cap \in Caps, Complete(cap) PROVE ChunkInv'
  BY <1>3, CollectedType DEF Complete, Answers, Answer, rx, link
<1>4. CASE UNCHANGED vars
  BY <1>4 DEF vars, rx, link
<1> QED
  BY <1>1, <1>2, <1>3, <1>4

LEMMA ChunkInvariant == Spec => []ChunkInv
<1>1. Init => ChunkInv
  <2>1. IsFiniteSet({}) /\ Cardinality({}) = 0
    BY FS_EmptySet
  <2> QED
    BY <2>1 DEF Init, ChunkInv, TypeOK, SizesInv, CountInv, ArmedAsSent, Answers, Answer, Zero
<1>2. ChunkInv /\ [Next]_vars => ChunkInv'
  BY BeginKeeps, FeedKeeps, OthersKeep DEF Next
<1> QED
  BY <1>1, <1>2, PTL DEF Spec

-----------------------------------------------------------------------------
(* The fields keep their types: in particular no counter overflows.        *)
THEOREM ChunkTypeCorrect == Spec => []TypeOK
  BY ChunkInvariant, PTL DEF ChunkInv

(* The receiver never works with sizes other than the sender's.            *)
THEOREM ArmedAsSentAlways == Spec => []ArmedAsSent
  BY ChunkInvariant, PTL DEF ChunkInv

(* Whatever frames arrive, each piece is written inside the message and    *)
(* apart from the others.                                                  *)
THEOREM WritesInsideAlways == Spec => []WritesInside
<1>1. ASSUME ChunkInv PROVE WritesInside
  <2>1. CASE ~armed
    BY <1>1, <2>1 DEF ChunkInv, SizesInv, CountInv, WritesInside
  <2>2. CASE armed
    <3>1. \A s \in seen : Written(s) = {p \in 0 .. total_len - 1 : p \div chunk_size = s}
      BY <1>1, <2>2, PieceIs DEF ChunkInv, CountInv
    <3> QED
      BY <3>1 DEF WritesInside
  <2> QED
    BY <2>1, <2>2
<1> QED
  BY <1>1, ChunkInvariant, PTL

(* A receiver that holds the expected number of pieces holds every byte.   *)
LEMMA Covered ==
  ASSUME ChunkInv, armed, have = expect
  PROVE  /\ seen = 0 .. expect - 1
         /\ \A p \in 0 .. total_len - 1 : p \div chunk_size \in seen
<1>0. expect \in Nat
  BY DEF ChunkInv, TypeOK
<1>1. have = Cardinality(seen) /\ seen \in SUBSET (0 .. expect - 1)
  BY DEF ChunkInv, CountInv
<1>2. IsFiniteSet(0 .. expect - 1) /\ Cardinality(0 .. expect - 1) = expect
  BY <1>0, FS_Interval
<1>3. seen = 0 .. expect - 1
  BY <1>1, <1>2, FS_Subset
<1> QED
  BY <1>3, PieceOf DEF ChunkInv

(* vl_chunk.h:115-117, for every message length and chunk size.            *)
THEOREM CompleteMeansCoveredAlways == Spec => []CompleteMeansCovered
<1>1. ASSUME ChunkInv, armed, have = expect
      PROVE  \A p \in 0 .. total_len - 1 : \E s \in seen : p \in Written(s)
  <2> SUFFICES ASSUME NEW p \in 0 .. total_len - 1
               PROVE  \E s \in seen : p \in Written(s)
    OBVIOUS
  <2>1. p \div chunk_size \in seen /\ p \div chunk_size \in 0 .. expect - 1
    BY <1>1, Covered
  <2>2. p \in Written(p \div chunk_size)
    BY <1>1, <2>1, PieceIs DEF ChunkInv
  <2> QED
    BY <2>1, <2>2
<1>2. ChunkInv => CompleteMeansCovered
  BY <1>1, Covered DEF CompleteMeansCovered
<1> QED
  BY <1>2, ChunkInvariant, PTL

-----------------------------------------------------------------------------
(* What is handed up is what was sent.  A frame of the current message in  *)
(* the air is a cut of it, and a byte received from such frames only is    *)
(* the byte of the message.                                                *)
AirInv ==
  \A f \in air : /\ f.of <= begun
                 /\ f.of = begun => f.seq \in FrameNumbers /\ f = Frame(f.seq)

ContentInv ==
  armed /\ ~late =>
    \A p \in 0 .. total_len - 1 : p \div chunk_size \in seen => buf[p] = msg[p + 1]

LEMMA FrameBytes ==
  ASSUME ChunkInv, NEW i \in FrameNumbers,
         NEW k \in 1 .. Len(Frame(i).data)
  PROVE  Frame(i).data[k] = msg[i * size + k]
<1>1. msg \in Seq(Bytes) /\ size \in Nat /\ i \in Nat /\ Len(msg) \in Nat
  BY DEF ChunkInv, TypeOK, FrameNumbers
<1>2. i * size + 1 \in Nat \ {0} /\ (i + 1) * size \in Nat
  BY <1>1
<1> DEFINE first == i * size + 1
           last == Min2((i + 1) * size, Len(msg))
<1>3. last \in Nat /\ last <= Len(msg) /\ first \in Nat \ {0}
  BY <1>1, <1>2 DEF Min2
<1>4. Frame(i).data = SubSeq(msg, first, last)
  BY DEF Frame, Cut
<1> HIDE DEF first, last
<1>5. \A j \in first .. last : msg[j] \in Bytes
  BY <1>1, <1>3
<1>6. /\ Len(SubSeq(msg, first, last)) = IF first <= last THEN last - first + 1 ELSE 0
      /\ \A j \in 1 .. last - first + 1 : SubSeq(msg, first, last)[j] = msg[first + j - 1]
  BY <1>3, <1>5, SubSeqProperties
<1>7. k \in 1 .. last - first + 1
  BY <1>3, <1>4, <1>6
<1>8. Frame(i).data[k] = msg[first + k - 1]
  BY <1>4, <1>6, <1>7
<1> QED
  BY <1>1, <1>2, <1>7, <1>8 DEF first

LEMMA AirStep ==
  ASSUME ChunkInv, AirInv, [Next]_vars
  PROVE  AirInv'
<1>1. begun \in Nat /\ \A f \in air : f.of \in Nat
  BY DEF ChunkInv, TypeOK
<1>2. ASSUME NEW m \in Messages, NEW s \in Sizes, Begin(m, s) PROVE AirInv'
  BY <1>1, <1>2 DEF AirInv, Begin
<1>3. ASSUME NEW i \in 0 .. MaxLen, Send(i) PROVE AirInv'
  <2>1. Frame(i).of = begun /\ Frame(i).seq = i /\ i \in FrameNumbers
    BY <1>3 DEF Send, Frame
  <2>2. UNCHANGED <<msg, size, begun>> /\ air' = air \cup {Frame(i)}
    BY <1>3 DEF Send
  <2> QED
    BY <1>1, <2>1, <2>2 DEF AirInv, FrameNumbers, Frame, Cut
<1>4. ASSUME UNCHANGED <<msg, size, begun>>, air' \subseteq air PROVE AirInv'
  BY <1>4 DEF AirInv, FrameNumbers, Frame, Cut
<1>5. ASSUME NEW f \in air, Lose(f) \/ Deliver(f) PROVE AirInv'
  BY <1>4, <1>5 DEF Lose, Deliver
<1>6. ASSUME NEW cap \in Caps, Complete(cap) PROVE AirInv'
  BY <1>4, <1>6 DEF Complete, link
<1>7. CASE UNCHANGED vars
  BY <1>4, <1>7 DEF vars, link
<1> QED
  BY <1>2, <1>3, <1>5, <1>6, <1>7 DEF Next

(* Storing a piece keeps the bytes that are there and adds those of the    *)
(* message.                                                                *)
LEMMA ContentFeed ==
  ASSUME ChunkInv, AirInv, ContentInv, NEW f \in air, Deliver(f)
  PROVE  ContentInv'
<1>1. UNCHANGED <<msg, size, begun, armed, chunk_size, total_len>>
  BY DEF Deliver, Feed, rx
<1>2. CASE UNCHANGED <<rx, late>>
  BY <1>1, <1>2 DEF ContentInv, rx
<1>3. CASE /\ Fits(f) /\ f.seq \notin seen
           /\ buf' = [p \in DOMAIN buf |->
                  IF p \in Written(f.seq) THEN f.data[p - Off(f.seq) + 1] ELSE buf[p]]
           /\ seen' = seen \cup {f.seq}
           /\ late' = (late \/ f.of # begun)
  <2> SUFFICES ASSUME ~late, f.of = begun, armed,
                      NEW p \in 0 .. total_len - 1, p \div chunk_size \in seen'
               PROVE  buf'[p] = msg[p + 1]
    BY <1>1, <1>3 DEF ContentInv
  <2>1. f.seq \in FrameNumbers /\ f = Frame(f.seq) /\ f.seq \in 0 .. expect - 1
        /\ Len(f.data) = Want(f.seq)
    BY <1>3 DEF AirInv, Fits, ChunkInv, TypeOK, FrameNumbers
  <2>2. /\ Off(f.seq) = f.seq * chunk_size /\ Off(f.seq) \in Nat /\ Want(f.seq) \in Nat
        /\ Written(f.seq) = {q \in 0 .. total_len - 1 : q \div chunk_size = f.seq}
    <3>1. TypeOK /\ SizesInv
      BY DEF ChunkInv
    <3>2. /\ Off(f.seq) = f.seq * chunk_size /\ Want(f.seq) \in 1 .. chunk_size
          /\ Written(f.seq) = {q \in 0 .. total_len - 1 : q \div chunk_size = f.seq}
      BY <2>1, <3>1, PieceIs
    <3>3. f.seq \in Nat /\ chunk_size \in Nat
      BY <2>1, <3>1 DEF TypeOK
    <3>4. f.seq * chunk_size \in Nat
      BY <3>3
    <3> QED
      BY <3>2, <3>3, <3>4
  <2>3. p \in DOMAIN buf
    BY DEF ChunkInv, TypeOK
  <2>4. CASE p \in Written(f.seq)
    <3>1. p - Off(f.seq) + 1 \in 1 .. Len(f.data)
      BY <2>1, <2>2, <2>4 DEF Written
    <3>2. f.data[p - Off(f.seq) + 1] = msg[f.seq * size + (p - Off(f.seq) + 1)]
      BY <2>1, <3>1, FrameBytes
    <3>3. f.seq * size + (p - Off(f.seq) + 1) = p + 1
      BY <2>2 DEF ChunkInv, ArmedAsSent
    <3>4. buf'[p] = f.data[p - Off(f.seq) + 1]
      BY <1>3, <2>3, <2>4
    <3> QED
      BY <3>2, <3>3, <3>4
  <2>5. CASE p \notin Written(f.seq)
    <3>1. p \div chunk_size \in seen
      BY <1>3, <2>2, <2>5
    <3>2. buf'[p] = buf[p]
      BY <1>3, <2>3, <2>5
    <3> QED
      BY <3>1, <3>2 DEF ContentInv
  <2> QED
    BY <2>4, <2>5
<1> QED
  BY <1>2, <1>3 DEF Deliver, Feed

LEMMA AnswerIsMessage ==
  ASSUME ChunkInv, ContentInv, armed, ~late, have = expect
  PROVE  Collected = msg
<1>1. total_len = Len(msg) /\ total_len \in Nat /\ msg \in Seq(Bytes)
  BY DEF ChunkInv, ArmedAsSent, TypeOK
<1>2. ASSUME NEW i \in 1 .. Len(msg) PROVE buf[i - 1] = msg[i]
  <2>1. i - 1 \in 0 .. total_len - 1
    BY <1>1
  <2>2. (i - 1) \div chunk_size \in seen
    BY <2>1, Covered
  <2>3. buf[i - 1] = msg[(i - 1) + 1]
    BY <2>1, <2>2 DEF ContentInv
  <2> QED
    BY <2>3
<1>3. msg = [i \in 1 .. Len(msg) |-> msg[i]]
  BY <1>1
<1> QED
  BY <1>1, <1>2, <1>3 DEF Collected

LEMMA ContentStep ==
  ASSUME ChunkInv, AirInv, ContentInv, DeliveredIsSent, [Next]_vars
  PROVE  ContentInv' /\ DeliveredIsSent'
<1>1. ASSUME NEW m \in Messages, NEW s \in Sizes, Begin(m, s)
      PROVE  ContentInv' /\ DeliveredIsSent'
  <2>1. ContentInv'
    BY <1>1 DEF Begin, Reset, ContentInv
  <2>2. up'.rc = "INVALID_ARG"
    BY <1>1 DEF Begin, Answer
  <2> QED
    BY <2>1, <2>2 DEF DeliveredIsSent
<1>2. ASSUME UNCHANGED <<rx, up, msg, late>> PROVE ContentInv' /\ DeliveredIsSent'
  BY <1>2 DEF ContentInv, DeliveredIsSent, rx
<1>3. ASSUME NEW i \in 0 .. MaxLen, Send(i) PROVE ContentInv' /\ DeliveredIsSent'
  BY <1>2, <1>3 DEF Send
<1>4. ASSUME NEW f \in air, Lose(f) PROVE ContentInv' /\ DeliveredIsSent'
  BY <1>2, <1>4 DEF Lose
<1>5. ASSUME NEW f \in air, Deliver(f) PROVE ContentInv' /\ DeliveredIsSent'
  <2>1. ContentInv'
    BY <1>5, ContentFeed
  <2>2. UNCHANGED <<up, msg>> /\ (~late' => ~late)
    <3>1. late \in BOOLEAN
      BY DEF ChunkInv, TypeOK
    <3>2. late' = late \/ late' = (late \/ f.of # begun)
      BY <1>5 DEF Deliver, Feed
    <3> QED
      BY <1>5, <3>1, <3>2 DEF Deliver
  <2> QED
    BY <2>1, <2>2 DEF DeliveredIsSent
<1>6. ASSUME NEW cap \in Caps, Complete(cap) PROVE ContentInv' /\ DeliveredIsSent'
  <2>1. ContentInv'
    BY <1>6 DEF Complete, ContentInv, rx, link
  <2>2. ASSUME up'.rc = "OK" PROVE armed /\ have = expect /\ up'.text = Collected
    BY <1>6, <2>2 DEF Complete, Answer
  <2> QED
    BY <1>6, <2>1, <2>2, AnswerIsMessage DEF DeliveredIsSent, Complete, link
<1>7. CASE UNCHANGED vars
  BY <1>2, <1>7 DEF vars, link
<1> QED
  BY <1>1, <1>3, <1>4, <1>5, <1>6, <1>7 DEF Next

(* However the link loses, repeats and reorders frames, and whatever the   *)
(* sizes: a message handed up from its own frames is the message sent.     *)
THEOREM DeliveredIsSentAlways == Spec => []DeliveredIsSent
<1>1. Init => AirInv /\ ContentInv /\ DeliveredIsSent
  BY DEF Init, AirInv, ContentInv, DeliveredIsSent, Answer
<1>2. ChunkInv /\ AirInv /\ ContentInv /\ DeliveredIsSent /\ [Next]_vars
        => AirInv' /\ ContentInv' /\ DeliveredIsSent'
  BY AirStep, ContentStep
<1> QED
  BY <1>1, <1>2, ChunkInvariant, PTL DEF Spec

-----------------------------------------------------------------------------
(* The receiver implements Reassembly: the bytes of the pieces marked in   *)
(* the bitmap are the bytes received, and each step of vl_chunk.c is one   *)
(* of the abstract receiver or nothing to it.                              *)
Got       == [p \in {q \in 0 .. total_len - 1 : q \div chunk_size \in seen} |-> buf[p]]
Handed    == [p \in 0 .. Len(up.text) - 1 |-> up.text[p + 1]]

LEMMA EmptyText ==
  ASSUME NEW s, s = <<>>
  PROVE  [p \in 0 .. Len(s) - 1 |-> s[p + 1]] = Abstract!Nobytes
<1>1. 0 .. Len(s) - 1 = {}
  OBVIOUS
<1> QED
  BY <1>1 DEF Abstract!Nobytes

(* Begin announces a message: received from nothing, or not at all.        *)
LEMMA BeginRefines ==
  ASSUME ChunkInv, ChunkInv', NEW m \in Messages, NEW s \in Sizes, Begin(m, s)
  PROVE  Abstract!Start \/ Abstract!Abandon
<1>1. seen' = {} /\ up'.text = <<>>
  BY DEF Begin, Reset, Answer
<1>2. Got' = Abstract!Nobytes
  BY <1>1 DEF Got, Abstract!Nobytes
<1>3. Handed' = Abstract!Nobytes
  BY <1>1, EmptyText DEF Handed
<1>4. CASE armed'
  <2>1. chunk_size' \in Nat \ {0} /\ total_len' \in 1 .. MaxLen
    BY <1>4 DEF ChunkInv, SizesInv
  <2> QED
    BY <1>2, <1>3, <2>1 DEF Got, Handed, Abstract!Start
<1>5. CASE ~armed'
  <2>1. chunk_size' = 0 /\ total_len' = 0
    BY <1>5 DEF ChunkInv, SizesInv
  <2> QED
    BY <1>2, <1>3, <2>1 DEF Got, Handed, Abstract!Abandon
<1> QED
  BY <1>4, <1>5

(* A frame that is stored is a whole piece, of which no byte was there.    *)
LEMMA StoreRefines ==
  ASSUME ChunkInv, ChunkInv', NEW f \in air, UNCHANGED up,
         Fits(f), f.seq \notin seen,
         buf' = [p \in DOMAIN buf |->
                   IF p \in Written(f.seq) THEN f.data[p - Off(f.seq) + 1] ELSE buf[p]],
         seen' = seen \cup {f.seq},
         UNCHANGED <<armed, chunk_size, total_len, expect>>
  PROVE  \E i \in Abstract!Positions : Abstract!Accept(i)
<1> DEFINE s == f.seq
           W == {p \in 0 .. total_len - 1 : p \div chunk_size = s}
<1>1. s \in 0 .. expect - 1 /\ armed /\ TypeOK /\ SizesInv
  BY DEF Fits, ChunkInv, TypeOK
<1>2. Written(s) = W /\ Off(s) \in Nat /\ Want(s) \in Nat \ {0}
  <2>1. /\ Off(s) = s * chunk_size /\ Want(s) \in 1 .. chunk_size
        /\ Written(s) = W
    BY <1>1, PieceIs
  <2>2. s \in Nat /\ chunk_size \in Nat
    BY <1>1 DEF TypeOK
  <2>3. s * chunk_size \in Nat
    BY <2>2
  <2> QED
    BY <2>1, <2>2, <2>3
<1>3. s \in 0 .. total_len - 1
  <2>1. chunk_size \in Nat \ {0} /\ total_len \in 1 .. MaxLen
        /\ expect = Expect(chunk_size, total_len)
    BY <1>1 DEF SizesInv
  <2>2. expect \in 1 .. total_len
    BY <2>1, ExpectType
  <2> QED
    BY <1>1, <2>1, <2>2
<1>4. Abstract!Piece(s) = W
  BY DEF Abstract!Piece, Abstract!Positions
<1>5. W # {}
  <2>1. Off(s) \in Written(s)
    BY <1>2 DEF Written
  <2> QED
    BY <1>2, <2>1
<1> DEFINE had == {q \in 0 .. total_len - 1 : q \div chunk_size \in seen}
<1>6. W \cap had = {} /\ had \cup W = {q \in 0 .. total_len - 1 : q \div chunk_size \in seen'}
  OBVIOUS
<1>7. W \subseteq DOMAIN buf /\ had \subseteq DOMAIN buf
  BY DEF ChunkInv, TypeOK
<1> DEFINE d == [p \in W |-> buf'[p]]
<1>8. d \in [W -> Bytes]
  <2>1. buf' \in [0 .. MaxLen - 1 -> Bytes] /\ DOMAIN buf = 0 .. MaxLen - 1
    BY DEF ChunkInv, TypeOK
  <2> QED
    BY <1>7, <2>1
<1>9. Got' = [p \in had \cup W |-> IF p \in W THEN d[p] ELSE Got[p]]
  <2>1. Got' = [p \in had \cup W |-> buf'[p]]
    BY <1>6 DEF Got
  <2>2. \A p \in had \ W : buf'[p] = buf[p] /\ Got[p] = buf[p]
    BY <1>2, <1>7 DEF Got
  <2>3. \A p \in had \cup W : buf'[p] = IF p \in W THEN d[p] ELSE Got[p]
    BY <2>2
  <2> HIDE DEF had, W, d
  <2> QED
    BY <2>1, <2>3
<1>10. DOMAIN Got = had
  BY DEF Got
<1> HIDE DEF W, had, d
<1>11. Abstract!Accept(s)
  <2>1. Abstract!Piece(s) \cap DOMAIN Got = {} /\ Abstract!Piece(s) # {}
    BY <1>4, <1>5, <1>6, <1>10
  <2>2. \E g \in [Abstract!Piece(s) -> Bytes] :
          Got' = [p \in DOMAIN Got \cup Abstract!Piece(s) |->
                    IF p \in Abstract!Piece(s) THEN g[p] ELSE Got[p]]
    BY <1>4, <1>8, <1>9, <1>10
  <2> QED
    BY <2>1, <2>2 DEF Abstract!Accept, Got
<1> QED
  BY <1>3, <1>11 DEF Abstract!Positions

(* What complete() hands up is every byte collected; a refusal is nothing. *)
LEMMA CompleteRefines ==
  ASSUME ChunkInv, NEW cap \in Caps, Complete(cap)
  PROVE  Abstract!HandUp \/ Abstract!Refuse
<1>1. UNCHANGED <<chunk_size, total_len, seen, buf>>
  BY DEF Complete, rx
<1>2. CASE up'.text = <<>>
  BY <1>1, <1>2, EmptyText DEF Abstract!Refuse
<1>3. CASE armed /\ have = expect /\ up'.text = Collected
  <2>1. total_len \in Nat \ {0}
    BY <1>3 DEF ChunkInv, SizesInv
  <2>2. {q \in 0 .. total_len - 1 : q \div chunk_size \in seen} = 0 .. total_len - 1
    BY <1>3, Covered
  <2>3. Got = [p \in 0 .. total_len - 1 |-> buf[p]]
    BY <2>2 DEF Got
  <2>4. Len(Collected) = total_len /\ \A p \in 0 .. total_len - 1 : Collected[p + 1] = buf[p]
    <3>1. Collected \in Seq(Bytes) /\ DOMAIN Collected = 1 .. total_len
      BY CollectedType DEF Collected, ChunkInv
    <3>2. \A p \in 0 .. total_len - 1 : p + 1 \in 1 .. total_len /\ (p + 1) - 1 = p
      BY <2>1
    <3> QED
      BY <2>1, <3>1, <3>2 DEF Collected
  <2>5. Handed' = Got
    BY <1>3, <2>3, <2>4 DEF Handed
  <2> QED
    BY <1>1, <2>1, <2>2, <2>5 DEF Abstract!HandUp, Abstract!Positions, Got, Handed
<1> QED
  BY <1>2, <1>3 DEF Complete, Answer

LEMMA ReceiverRefines ==
  ASSUME ChunkInv, ChunkInv', [Next]_vars
  PROVE  [Abstract!Next]_Abstract!rvars
<1> USE DEF Abstract!Next, Abstract!rvars
<1>1. ASSUME NEW m \in Messages, NEW s \in Sizes, Begin(m, s) PROVE Abstract!Next
  BY <1>1, BeginRefines
<1>2. ASSUME UNCHANGED <<rx, up>> PROVE UNCHANGED Abstract!rvars
  BY <1>2 DEF rx
<1>3. ASSUME NEW i \in 0 .. MaxLen, Send(i) PROVE UNCHANGED Abstract!rvars
  BY <1>2, <1>3 DEF Send
<1>4. ASSUME NEW f \in air, Lose(f) PROVE UNCHANGED Abstract!rvars
  BY <1>2, <1>4 DEF Lose
<1>5. ASSUME NEW f \in air, Deliver(f) PROVE Abstract!Next \/ UNCHANGED Abstract!rvars
  <2>1. CASE UNCHANGED rx
    BY <1>2, <1>5, <2>1 DEF Deliver
  <2>2. CASE ~UNCHANGED rx
    BY <1>5, <2>2, StoreRefines DEF Deliver, Feed
  <2> QED
    BY <2>1, <2>2
<1>6. ASSUME NEW cap \in Caps, Complete(cap) PROVE Abstract!Next
  BY <1>6, CompleteRefines
<1>7. CASE UNCHANGED vars
  BY <1>2, <1>7 DEF vars
<1> QED
  BY <1>1, <1>3, <1>4, <1>5, <1>6, <1>7 DEF Next

(* For every size, length and capacity, and on the worst link, the         *)
(* receiver with its bitmap, counters and offsets does what vl_chunk.h     *)
(* promises byte by byte.                                                  *)
THEOREM ImplementsReassemblyAlways == Spec => ImplementsReassembly
<1>1. Init => Abstract!Init
  <2> SUFFICES ASSUME Init PROVE Abstract!Init
    OBVIOUS
  <2>1. up.text = <<>> /\ seen = {}
    BY DEF Init, Answer
  <2>2. Got = Abstract!Nobytes
    BY <2>1 DEF Got, Abstract!Nobytes
  <2> QED
    BY <2>1, <2>2, EmptyText DEF Init, Got, Abstract!Init
<1>2. ChunkInv /\ ChunkInv' /\ [Next]_vars => [Abstract!Next]_Abstract!rvars
  BY ReceiverRefines
<1> QED
  BY <1>1, <1>2, ChunkInvariant, PTL DEF Spec, ImplementsReassembly, Abstract!Spec
=============================================================================
