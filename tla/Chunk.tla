------------------------------- MODULE Chunk -------------------------------
(***************************************************************************)
(* transport/vl_chunk.c on a link.  A sender cuts a message into numbered  *)
(* frames; the link loses, repeats and reorders them, and frames of an     *)
(* earlier message may still arrive when the next one has begun; the       *)
(* receiver is vl_chunk_t, its caller resets it for each message, feeds    *)
(* what arrives and asks whether it is complete.                           *)
(*                                                                         *)
(* Sizes are size_t values; the receiver keeps them as uint32_t, Word      *)
(* standing for 2^32.  The NULL-pointer guards are left out.               *)
(***************************************************************************)
EXTENDS Integers, Sequences, FiniteSets

CONSTANTS
  MaxLen,       \* VL_CHUNK_MAX_LEN
  Word,         \* the number of values of a uint32_t
  Bytes,        \* the bytes a message may hold, 0 among them
  Messages,     \* the messages senders transmit
  Sizes,        \* the chunk sizes, as size_t, that callers agree on
  Caps,         \* the capacities of the buffers given to complete()
  MaxMessages   \* bound: how many messages are begun

ASSUME MaxLenAssumption   == MaxLen \in Nat \ {0}
ASSUME WordAssumption     == Word \in Nat /\ Word > MaxLen
ASSUME BytesAssumption    == 0 \in Bytes
ASSUME MessagesAssumption == Messages \subseteq Seq(Bytes)
ASSUME SizesAssumption    == Sizes \subseteq Nat /\ Caps \subseteq Nat
ASSUME BoundAssumption    == MaxMessages \in Nat

VARIABLES
  armed, chunk_size, total_len, expect, have,  \* vl_chunk_t
  seen,                     \* its bitmap, as the set of marked numbers
  buf,                      \* its buffer, by position
  up,                       \* the caller: the result of its last complete()
  msg, size, begun, air,    \* the link: what is sent, in what size, which message, frames
  late                      \* history: did a frame of another message get stored?

rx   == <<armed, chunk_size, total_len, expect, have, seen, buf>>
link == <<msg, size, begun, air>>
vars == <<rx, up, link, late>>

Min2(a, b) == IF a < b THEN a ELSE b
U32(n)     == n % Word

(* The sender's side: the i-th frame holds bytes i*s .. of the message.    *)
Cut(m, s, i)    == SubSeq(m, i * s + 1, Min2((i + 1) * s, Len(m)))
FrameNumbers    == {i \in 0 .. MaxLen : size > 0 /\ i * size < Len(msg)}
Frame(i)        == [seq |-> i, data |-> Cut(msg, size, i), of |-> begun]

Answers == [rc : {"OK", "NOT_FOUND", "BUFFER_TOO_SMALL", "INVALID_ARG"}, text : Seq(Bytes)]
Answer(c, s) == [rc |-> c, text |-> s]

Zero == [p \in 0 .. MaxLen - 1 |-> 0]

Init ==
  /\ armed = FALSE /\ chunk_size = 0 /\ total_len = 0 /\ expect = 0 /\ have = 0
  /\ seen = {} /\ buf = Zero
  /\ up = Answer("INVALID_ARG", <<>>)
  /\ msg = <<>> /\ size = 0 /\ begun = 0 /\ air = {}
  /\ late = FALSE

-----------------------------------------------------------------------------
(* vl_chunk_reset(): zero first, then arm if the sizes make sense as they  *)
(* are stored.                                                             *)
BugSoundUnstored(cs, len) == cs # 0 /\ len # 0 /\ len <= MaxLen  \* mutant
BugSoundTooLong(cs, len) == cs = U32(cs) /\ cs # 0 /\ len # 0     \* mutant
Sound(cs, len) == cs = U32(cs) /\ cs # 0 /\ len # 0 /\ len <= MaxLen
BugExpectOneMore(cs, len) == len \div cs + 1                      \* mutant
Expect(cs, len) == (len - 1) \div cs + 1

Reset(cs, len) ==
  /\ have' = 0 /\ seen' = {} /\ buf' = Zero
  /\ armed' = Sound(cs, len)
  /\ IF Sound(cs, len)
       THEN chunk_size' = U32(cs) /\ total_len' = len /\ expect' = Expect(cs, len)
       ELSE chunk_size' = 0 /\ total_len' = 0 /\ expect' = 0

(* vl_chunk_feed(): which bytes piece seq stands for.                      *)
BugOffByArrival(seq) == U32(have * chunk_size)                     \* mutant
Off(seq)     == U32(seq * chunk_size)
Want(seq)    == Min2(U32(total_len - Off(seq)), chunk_size)
Written(seq) == Off(seq) .. Off(seq) + Want(seq) - 1

(* Mutant: the number is not bounded before it is used.                    *)
BugFitsAnyNumber(f) == armed /\ Len(f.data) = Want(f.seq)

Fits(f) ==
  /\ armed
  /\ f.seq < expect
  /\ Len(f.data) = Want(f.seq)

(* Mutants: a repeated piece is counted again; the last copy wins.         *)
BugFeedCountsRepeats(f) ==
  \/ /\ Fits(f)
     /\ buf' = [p \in DOMAIN buf |->
                  IF p \in Written(f.seq) THEN f.data[p - Off(f.seq) + 1] ELSE buf[p]]
     /\ seen' = seen \cup {f.seq}
     /\ have' = have + 1
     /\ late' = (late \/ f.of # begun)
     /\ UNCHANGED <<armed, chunk_size, total_len, expect>>
  \/ ~Fits(f) /\ UNCHANGED <<rx, late>>

BugFeedLastWins(f) ==
  \/ /\ Fits(f)
     /\ buf' = [p \in DOMAIN buf |->
                  IF p \in Written(f.seq) THEN f.data[p - Off(f.seq) + 1] ELSE buf[p]]
     /\ seen' = seen \cup {f.seq}
     /\ have' = IF f.seq \in seen THEN have ELSE have + 1
     /\ late' = (late \/ f.of # begun)
     /\ UNCHANGED <<armed, chunk_size, total_len, expect>>
  \/ ~Fits(f) /\ UNCHANGED <<rx, late>>

(* A piece seen before is compared and never stored; a piece that does not *)
(* fit is refused; neither changes anything.                               *)
Feed(f) ==
  \/ /\ Fits(f) /\ f.seq \notin seen
     /\ buf' = [p \in DOMAIN buf |->
                  IF p \in Written(f.seq) THEN f.data[p - Off(f.seq) + 1] ELSE buf[p]]
     /\ seen' = seen \cup {f.seq}
     /\ have' = have + 1
     /\ late' = (late \/ f.of # begun)
     /\ UNCHANGED <<armed, chunk_size, total_len, expect>>
  \/ /\ ~Fits(f) \/ f.seq \in seen
     /\ UNCHANGED <<rx, late>>

(* vl_chunk_complete().                                                    *)
Collected == [p \in 1 .. total_len |-> buf[p - 1]]

Complete(cap) ==
  /\ up' = IF ~armed THEN Answer("INVALID_ARG", <<>>)
           ELSE IF have # expect THEN Answer("NOT_FOUND", <<>>)
           ELSE IF cap < total_len + 1 THEN Answer("BUFFER_TOO_SMALL", <<>>)
           ELSE Answer("OK", Collected)
  /\ UNCHANGED <<rx, link, late>>

-----------------------------------------------------------------------------
(* The link.                                                               *)

(* A message is announced: both ends agree on its size and length, and the *)
(* receiver's caller resets.  Old frames stay in the air.                  *)
Begin(m, s) ==
  /\ begun < MaxMessages
  /\ msg' = m /\ size' = s /\ begun' = begun + 1
  /\ Reset(s, Len(m))
  /\ late' = FALSE
  /\ up' = Answer("INVALID_ARG", <<>>)
  /\ UNCHANGED air

(* The sender transmits a frame, again if it has before.                   *)
Send(i) ==
  /\ i \in FrameNumbers
  /\ Frame(i) \notin air
  /\ air' = air \cup {Frame(i)}
  /\ UNCHANGED <<rx, up, msg, size, begun, late>>

Lose(f) ==
  /\ air' = air \ {f}
  /\ UNCHANGED <<rx, up, msg, size, begun, late>>

(* A frame arrives; a copy of it may still be under way.                   *)
Deliver(f) ==
  /\ Feed(f)
  /\ air' \in {air, air \ {f}}
  /\ UNCHANGED <<up, msg, size, begun>>

DeliverNumber(i) == Frame(i) \in air /\ Deliver(Frame(i))

Next ==
  \/ \E m \in Messages, s \in Sizes : Begin(m, s)
  \/ \E i \in 0 .. MaxLen : Send(i)
  \/ \E f \in air : Lose(f) \/ Deliver(f)
  \/ \E cap \in Caps : Complete(cap)

Spec == Init /\ [][Next]_vars

(* The sender retransmits until a copy gets through, and the caller polls  *)
(* with a buffer that is large enough.                                     *)
FairSpec ==
  /\ Spec
  /\ \A i \in 0 .. MaxLen : WF_vars(Send(i)) /\ SF_vars(DeliverNumber(i))
  /\ \A cap \in Caps : cap > MaxLen => WF_vars(Complete(cap))

-----------------------------------------------------------------------------
(* Properties.                                                             *)

(* The fields of vl_chunk_t, the caller's result and the link's contents.  *)
TypeOK ==
  /\ armed \in BOOLEAN
  /\ chunk_size \in 0 .. Word - 1
  /\ total_len \in 0 .. MaxLen
  /\ expect \in 0 .. MaxLen
  /\ have \in 0 .. MaxLen
  /\ seen \in SUBSET (0 .. MaxLen - 1)
  /\ buf \in [0 .. MaxLen - 1 -> Bytes]
  /\ up \in Answers
  /\ msg \in Messages \cup {<<>>}
  /\ size \in Sizes \cup {0}
  /\ begun \in 0 .. MaxMessages
  /\ air \subseteq [seq : 0 .. MaxLen, data : Seq(Bytes), of : 0 .. MaxMessages]
  /\ late \in BOOLEAN

(* vl_chunk.h:101-102: no number, length or repetition writes outside the  *)
(* message, and no two pieces write the same byte.                         *)
WritesInside ==
  \A s \in seen :
    /\ Written(s) \subseteq 0 .. total_len - 1
    /\ \A t \in seen \ {s} : Written(s) \cap Written(t) = {}

(* vl_chunk.h:115-117: what counts as complete has no hole.                *)
CompleteMeansCovered ==
  armed /\ have = expect =>
    /\ seen = 0 .. expect - 1
    /\ \A p \in 0 .. total_len - 1 : \E s \in seen : p \in Written(s)

(* As long as no frame of another message was taken for one of this, what  *)
(* is handed up is what was sent, however the link lost, repeated and      *)
(* reordered it.                                                           *)
DeliveredIsSent == up.rc = "OK" /\ ~late => up.text = msg

(* A rejected reset leaves nothing that feed() or complete() would use     *)
(* (vl_chunk.h:86-88): a message is received only under sizes that the     *)
(* receiver holds exactly as the sender uses them.                         *)
ArmedAsSent == armed => chunk_size = size /\ total_len = Len(msg)

(* On a fair link a message whose sizes were accepted is handed up, unless *)
(* the next one begins first.                                              *)
MessageHandedUp ==
  \A n \in 1 .. MaxMessages : (armed /\ begun = n) ~> (up.rc = "OK" \/ begun # n)

-----------------------------------------------------------------------------
(* The invariant behind them: the sizes are those reset() accepted, and    *)
(* `have` counts the marked numbers.                                       *)
SizesInv ==
  IF armed THEN /\ chunk_size \in 1 .. Word - 1
                /\ total_len \in 1 .. MaxLen
                /\ expect = Expect(chunk_size, total_len)
           ELSE chunk_size = 0 /\ total_len = 0 /\ expect = 0

CountInv ==
  /\ seen \subseteq 0 .. expect - 1
  /\ have = Cardinality(seen)

ChunkInv == TypeOK /\ SizesInv /\ CountInv /\ ArmedAsSent

-----------------------------------------------------------------------------
(* The abstract receiver: a byte is there when its piece has been seen.    *)
Abstract == INSTANCE Reassembly WITH
  size   <- chunk_size,
  length <- total_len,
  got    <- [p \in {q \in 0 .. total_len - 1 : q \div chunk_size \in seen} |-> buf[p]],
  handed <- [p \in 0 .. Len(up.text) - 1 |-> up.text[p + 1]]

(* The receiver does what Reassembly promises, whatever arrives.           *)
ImplementsReassembly == Abstract!Spec
=============================================================================
