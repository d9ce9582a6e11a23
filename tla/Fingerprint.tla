---------------------------- MODULE Fingerprint ----------------------------
(***************************************************************************)
(* vl_compute_fingerprint() of core/vl_core.c, one iteration of its loop   *)
(* at a time, while the hardware it reads may change under it, and the     *)
(* process around it, which keeps the interface it chose in vl_posix_ctx_t.*)
(***************************************************************************)
EXTENDS Identity, Hash

CONSTANTS
  CountMax,      \* VL_ID_SEGMENT_COUNT_MAX
  Domain,        \* VL_FP_DOMAIN
  Hardware(_),   \* the hardware a board may be found in, of every unit
  Pins(_),       \* the interfaces a program may name to vl_hal_posix(), "" for none
  Ifaces,        \* the names of interfaces
  MaxChanges     \* bound: how often the hardware changes

VARIABLES
  board,         \* the HAL that was built
  pin,           \* the interface named to it
  hw,            \* environment: the hardware now
  iface,         \* vl_posix_ctx_t.iface
  call,          \* the call that runs: where it is, idx, accepted, the hash
  out,           \* out_fingerprint of the last call that returned, << >> when wiped
  changes        \* bound

(* History: what the calls read, and what they owe each other.             *)
VARIABLES
  message,       \* the domain and the length-prefixed segments read so far
  known,         \* the fingerprint this hardware has shown, << >> if none
  clean          \* no source in use changed since the call began

machine == <<board, pin, hw, iface, changes>>
history == <<message, known, clean>>
fpVars  == <<board, pin, hw, iface, call, out, changes, message, known, clean>>

(* A Linux machine shows its id in its second segment.                     *)
ASSUME CountAssumption  == CountMax \in Nat /\ CountMax >= 2
ASSUME DomainAssumption == Domain \in Seq(Byte)

(* A board lists interfaces that have names; Linux lists each name once.   *)
(* A fuse MAC is read with its checksum, or not at all.                    *)
ASSUME HardwareAssumption ==
  /\ \A b \in Boards : \A h \in Hardware(b) : h.up \in Seq(Ifaces)
  /\ \A h \in Hardware("linux") : \A j, k \in DOMAIN h.up : h.up[j] = h.up[k] => j = k
  /\ \A h \in Hardware("esp32") : h.uid \in {"ok", "error"}

ASSUME PinsAssumption == \A b \in Boards : Pins(b) \subseteq Ifaces

(* A HAL that says OK has written the bytes it says, and the interface it  *)
(* keeps is one there is.                                                  *)
ASSUME AnswerAssumption ==
  \A b \in Boards : \A h \in Hardware(b) : \A i \in Ifaces : \A n \in 0 .. CountMax :
    LET r == Segment(b, h, i, n) IN
    /\ IfaceAfter(b, h, i, n) \in Ifaces
    /\ r.st = "OK" /\ r.len <= SegMax => r.bytes \in Seq(Byte) /\ r.len = Len(r.bytes)

Started == [pc |-> "reading", idx |-> 0, accepted |-> 0, ctx |-> HashUpdate(HashStart, Domain)]
Idle    == [pc |-> "idle", idx |-> 0, accepted |-> 0, ctx |-> HashStart]

-----------------------------------------------------------------------------
(* Mutants: no length byte; a failed read is tried again.                  *)
BugTakeUnprefixed(c, r) ==
  IF r.st = "OK" /\ r.len <= SegMax
    THEN [c EXCEPT !.idx = c.idx + 1, !.accepted = c.accepted + 1,
                   !.ctx = HashUpdate(c.ctx, r.bytes)]
    ELSE [c EXCEPT !.pc = IF r.st = "NO_MORE_SEGMENTS" THEN "ended" ELSE "failed"]

BugTakeRetries(c, r) ==
  IF r.st = "OK" /\ r.len <= SegMax
    THEN [c EXCEPT !.idx = c.idx + 1, !.accepted = c.accepted + 1,
                   !.ctx = HashUpdate(HashUpdate(c.ctx, <<r.len>>), r.bytes)]
    ELSE [c EXCEPT !.pc = IF r.st = "NO_MORE_SEGMENTS" THEN "ended" ELSE "reading"]

(* The body of the loop, given what the HAL answered.                      *)
TakeSegment(c, r) ==
  IF r.st = "OK" /\ r.len <= SegMax
    THEN [c EXCEPT !.idx = c.idx + 1, !.accepted = c.accepted + 1,
                   !.ctx = HashUpdate(HashUpdate(c.ctx, <<r.len>>), r.bytes)]
    ELSE [c EXCEPT !.pc = IF r.st = "NO_MORE_SEGMENTS" THEN "ended" ELSE "failed"]

(* The loop has run its course: there must have been a segment.            *)
Result(c) ==
  IF c.pc # "failed" /\ c.accepted > 0 THEN HashFinal(c.ctx) ELSE <<>>

(* What a call that nothing interrupts hashes, << >> if it refuses.        *)
MessageOf(b, h, i) ==
  LET answer == [n \in 0 .. CountMax - 1 |-> Segment(b, h, i, n)]
      stops  == {n \in 0 .. CountMax - 1 : ~(answer[n].st = "OK" /\ answer[n].len <= SegMax)}
      count  == IF stops = {} THEN CountMax ELSE CHOOSE n \in stops : \A m \in stops : n <= m
      bytes[n \in 0 .. CountMax] ==
        IF n = 0 THEN Domain
        ELSE bytes[n - 1] \o <<answer[n - 1].len>> \o answer[n - 1].bytes
  IN IF count = 0 \/ (stops # {} /\ answer[count].st # "NO_MORE_SEGMENTS") THEN <<>>
     ELSE bytes[count]

-----------------------------------------------------------------------------
FpInit ==
  /\ board \in Boards
  /\ pin \in Pins(board)
  /\ hw \in Hardware(board)
  /\ iface = pin
  /\ call = Idle
  /\ out = <<>>
  /\ changes = 0
  /\ message = Domain
  /\ known = <<>>
  /\ clean = TRUE

Begin ==
  /\ call.pc = "idle"
  /\ call' = Started
  /\ message' = Domain
  /\ clean' = TRUE
  /\ UNCHANGED <<machine, out, known>>

ReadSegment ==
  /\ call.pc = "reading"
  /\ call.idx < CountMax
  /\ \E r \in {Segment(board, hw, iface, call.idx)} :
       /\ call' \in {TakeSegment(call, r)}
       /\ message' = IF r.st = "OK" /\ r.len <= SegMax THEN message \o <<r.len>> \o r.bytes
                                                       ELSE message
  /\ iface' = IfaceAfter(board, hw, iface, call.idx)
  /\ UNCHANGED <<board, pin, hw, changes, out, known, clean>>

Return ==
  /\ \/ call.pc \in {"ended", "failed"}
     \/ call.pc = "reading" /\ call.idx = CountMax
  /\ out' \in {Result(call)}
  /\ call' = Idle
  /\ known' = IF clean /\ out' # <<>> THEN out' ELSE known
  /\ UNCHANGED <<machine, message, clean>>

(* The interfaces a machine has by itself, in their order: the pairs of    *)
(* names of which the second is not listed before the first.               *)
Own(h)   == {j \in DOMAIN h.up : h.up[j] \notin Virtual}
Order(h) == {<<h.up[p[1]], h.up[p[2]]>> : p \in {q \in Own(h) \X Own(h) : q[1] <= q[2]}}

(* What a fingerprint of this board is taken from: the interface that was  *)
(* chosen or, before that, those a machine has by itself.                  *)
Sources(b, h, i) ==
  IF b = "linux"
    THEN <<MachineId(h), BoardSerial(h), IF i # "" THEN i \in Up(h) ELSE Order(h)>>
    ELSE <<h>>

(* A cable is pulled, a bus falls silent, a container starts.              *)
HardwareChanges ==
  /\ changes < MaxChanges
  /\ changes' = changes + 1
  /\ hw' \in {h \in Hardware(board) : h.unit = hw.unit} \ {hw}
  /\ IF Sources(board, hw', iface) = Sources(board, hw, iface)
       THEN UNCHANGED <<known, clean>>
       ELSE known' = <<>> /\ clean' = FALSE
  /\ UNCHANGED <<board, pin, iface, call, out, message>>

(* The process ends, and starts again with the interface it names.         *)
Restart ==
  /\ iface' = pin
  /\ call' = Idle
  /\ out' = <<>>
  /\ message' = Domain
  /\ known' = IF iface = pin \/ (Candidates(hw) # {} /\ PickIface(hw) = iface)
                THEN known ELSE <<>>
  /\ clean' = TRUE
  /\ UNCHANGED <<board, pin, hw, changes>>

FpStep == ReadSegment \/ Return

-----------------------------------------------------------------------------
(* Properties.                                                             *)

(* vl_core.c:147-152: the fingerprint is the hash of the domain and the    *)
(* segments in order, each behind its length, whatever pieces the hash was *)
(* fed and wherever its blocks fell; no other list has the same.           *)
HashesItsSegments ==
  call.pc = "idle" /\ out # <<>> => IsPadded(message, out)

(* vl_hal_rp2040.c:88-90 and its like: a unit whose hardware does not      *)
(* answer never shows what another unit may show, or one licence would     *)
(* unlock both.  The vendor's own HAL is the vendor's business.            *)
UnitsApart ==
  call.pc = "idle" /\ out # <<>> /\ board # "ported" =>
    \A h \in Hardware(board) : \A i \in Pins(board) :
      h.unit # hw.unit => MessageOf(board, h, i) # message

(* vl_hal_posix.c:93-95: as long as the sources of a fingerprint stand,    *)
(* every call shows the same one, also after a restart, whichever other    *)
(* interfaces came and went, before the calls or under them.               *)
SteadyIdentity ==
  [][known # <<>> /\ known' # <<>> => known' = known]_fpVars

(* A call ends, also on a HAL that never ends its list.                    *)
CallAnswers == call.pc # "idle" ~> call.pc = "idle"
=============================================================================
