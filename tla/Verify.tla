------------------------------- MODULE Verify -------------------------------
(***************************************************************************)
(* vl_verify() of core/vl_core.c: is this licence text valid, on this      *)
(* device, now?                                                            *)
(*                                                                         *)
(* One call is a pipeline of checks that stops at the first failure.  What *)
(* makes it more than a function is that four of its checks ask the        *)
(* platform: the identity segments, the clock, and the stored high-water   *)
(* mark, which is read and then written.  Each of those callbacks is a     *)
(* step here, so that the clock may move, another task may verify          *)
(* (docs/API.md:420-422 allows it) or the power may fail between any two   *)
(* of them.                                                                *)
(*                                                                         *)
(* A licence text is the record of the fields the pipeline looks at;       *)
(* Ed25519 is ideal: a signature verifies under the key that made it and   *)
(* under no other.                                                         *)
(***************************************************************************)
EXTENDS Naturals, Sequences

CONSTANTS
  Tasks,      \* the tasks that may be inside vl_verify() at the same time
  Images,     \* the firmware images the device may run
  Blobs,      \* the texts that may be presented
  ThisDevice, \* the fingerprint of this device
  IdErrors,   \* what vl_compute_fingerprint() returns when it fails
  MaxTime,    \* bound on epoch seconds
  None        \* no text, no licence

VARIABLES
  img,        \* the running image: its vl_config_t and the callbacks of its vl_hal_t
  clock,      \* what now_epoch() would report
  mark,       \* the non-volatile high-water mark
  pc,         \* where each task is inside vl_verify()
  arg,        \* the text each task is judging
  now,        \* the local `now` of each call
  checked,    \* lic.checked of each call
  rc,         \* what the last call of each task returned
  out,        \* the caller's vl_license_t
  seen,       \* history: the latest instant at which a call under ENFORCE_HWM found a licence outside its window
  granted     \* history: the latest instant at which a call under ENFORCE_HWM returned VL_OK

local == <<pc, arg, now, checked, rc, out>>
vars  == <<img, clock, mark, local, seen, granted>>

Time      == 0..MaxTime
Callbacks == {"read_id_segment", "now_epoch", "hwm_load", "hwm_store"}
Flags     == {"REQUIRE_CLOCK", "ENFORCE_HWM"}
Checks    == {"SIGNATURE", "DEVICE", "REVOCATION", "TIME", "HWM"}
Shapes    == {"null", "undecodable", "bad_magic", "bad_version", "well_formed"}
Status    == {"OK", "INVALID_ARG", "BAD_FORMAT", "BAD_MAGIC", "BAD_VERSION",
              "BAD_FAMILY", "UNKNOWN_KEY", "BAD_SIGNATURE", "DEVICE_MISMATCH",
              "REVOKED", "NO_CLOCK", "NOT_YET_VALID", "EXPIRED",
              "CLOCK_ROLLBACK", "PLATFORM"} \cup IdErrors

(* The fields of a text and of an image that the pipeline reads.           *)
ASSUME ImagesAssumption ==
  \A i \in Images : /\ i.flags \subseteq Flags
                    /\ i.hal \subseteq Callbacks
ASSUME BlobsAssumption ==
  \A b \in Blobs : /\ b.shape \in Shapes
                    /\ b.not_before \in Nat
                    /\ b.not_after \in Nat
ASSUME TimeAssumption  == MaxTime \in Nat
ASSUME ErrorAssumption == "OK" \notin IdErrors
(* A HAL that cannot read its identity says so, and never with a verdict.  *)
ASSUME BlameAssumption ==
  IdErrors \cap {"DEVICE_MISMATCH", "REVOKED", "NO_CLOCK", "NOT_YET_VALID",
                 "EXPIRED", "CLOCK_ROLLBACK"} = {}
ASSUME NoneAssumption  ==
  /\ None \notin Blobs
  /\ None \notin Status
  /\ None \notin [blob : Blobs, checked : SUBSET Checks]

-----------------------------------------------------------------------------
(* The checks.  Each stage has the set of those that fail and the order in *)
(* which the code tries them; a call reports the first.                    *)

Enforced(i)  == "ENFORCE_HWM" \in i.flags
HasClock(i)  == "now_epoch" \in i.hal
DenyList(i)  == i.revoked # {}

(* The argument checks before anything is decoded.                         *)
ArgumentsUsable(i, b) ==
  /\ b.shape # "null"
  /\ i.keys # <<>>
  /\ "read_id_segment" \in i.hal
  /\ Enforced(i) => {"now_epoch", "hwm_load", "hwm_store"} \subseteq i.hal

(* find_key: the k-th entry is the first with the blob's key_id.           *)
FoundKey(i, b, k) ==
  /\ k \in DOMAIN i.keys
  /\ i.keys[k].key_id = b.key_id
  /\ \A j \in 1..(k-1) : i.keys[j].key_id # b.key_id

KnownKey(i, b) == \E k \in DOMAIN i.keys : i.keys[k].key_id = b.key_id

SignatureVerifies(i, b) ==
  \E k \in DOMAIN i.keys : FoundKey(i, b, k) /\ i.keys[k].key = b.signer

HeaderOrder == <<"INVALID_ARG", "BAD_FORMAT", "BAD_MAGIC", "BAD_VERSION",
                 "BAD_FAMILY", "UNKNOWN_KEY", "BAD_SIGNATURE">>

HeaderFailures(i, b) == {s \in Status :
  \/ s = "INVALID_ARG"   /\ ~ArgumentsUsable(i, b)
  \/ s = "BAD_FORMAT"    /\ b.shape = "undecodable"
  \/ s = "BAD_MAGIC"     /\ b.shape = "bad_magic"
  \/ s = "BAD_VERSION"   /\ b.shape = "bad_version"
  \/ s = "BAD_FAMILY"    /\ b.family # i.family
  \/ s = "UNKNOWN_KEY"   /\ ~KnownKey(i, b)
  \/ s = "BAD_SIGNATURE" /\ ~SignatureVerifies(i, b)}

(* is_revoked: an empty deny-list revokes nothing.                         *)
IsRevoked(i, b) == DenyList(i) /\ b.serial \in i.revoked

(* Mutation of DeviceOrder: revocation tried before the device binding.    *)
BugRevokedFirst == <<"REVOKED", "DEVICE_MISMATCH", "NO_CLOCK">>

DeviceOrder == <<"DEVICE_MISMATCH", "REVOKED", "NO_CLOCK">>

DeviceFailures(i, b) == {s \in Status :
  \/ s = "DEVICE_MISMATCH" /\ b.device_id # ThisDevice
  \/ s = "REVOKED"         /\ IsRevoked(i, b)
  \/ s = "NO_CLOCK"        /\ ~HasClock(i) /\ "REQUIRE_CLOCK" \in i.flags}

(* 0 means unbounded, at either end.                                       *)
TooEarly(b, n) == b.not_before # 0 /\ n < b.not_before
(* Mutation of TooLate: one second of slack.                               *)
BugOneSecondLate(b, n) == b.not_after # 0 /\ n > b.not_after + 1

TooLate(b, n)  == b.not_after # 0 /\ n > b.not_after

WindowOrder == <<"NOT_YET_VALID", "EXPIRED">>

WindowFailures(b, n) == {s \in Status :
  \/ s = "NOT_YET_VALID" /\ TooEarly(b, n)
  \/ s = "EXPIRED"       /\ TooLate(b, n)}

(* s is the first of the failures, in the order the code tries them.       *)
FirstOf(order, failures, s) ==
  \E k \in DOMAIN order : /\ order[k] = s
                          /\ s \in failures
                          /\ \A j \in 1..(k-1) : order[j] \notin failures

-----------------------------------------------------------------------------
Init ==
  /\ img \in Images
  /\ clock \in Time
  /\ mark = 0
  /\ pc = [t \in Tasks |-> "idle"]
  /\ arg = [t \in Tasks |-> None]
  /\ now = [t \in Tasks |-> 0]
  /\ checked = [t \in Tasks |-> {}]
  /\ rc = [t \in Tasks |-> None]
  /\ out = [t \in Tasks |-> None]
  /\ seen = 0
  /\ granted = 0

Goto(t, l) == pc' = [pc EXCEPT ![t] = l]

(* The `fail:` label: the caller's struct stays zeroed.                    *)
Refuse(t, s) ==
  /\ Goto(t, "idle")
  /\ rc' = [rc EXCEPT ![t] = s]
  /\ out' = [out EXCEPT ![t] = None]

(* `*out = lic`, with the checks that ran.                                 *)
Grant(t, bits) ==
  /\ Goto(t, "idle")
  /\ rc' = [rc EXCEPT ![t] = "OK"]
  /\ out' = [out EXCEPT ![t] = [blob |-> arg[t], checked |-> bits]]

(* Entry: zero the caller's struct, then arguments, decoding, header and   *)
(* signature.  Nothing here asks the platform.                             *)
Call(t, b) ==
  /\ pc[t] = "idle"
  /\ arg' = [arg EXCEPT ![t] = b]
  /\ now' = [now EXCEPT ![t] = 0]
  /\ \/ /\ HeaderFailures(img, b) = {}
        /\ Goto(t, "identity")
        /\ checked' = [checked EXCEPT ![t] = {"SIGNATURE"}]
        /\ rc' = [rc EXCEPT ![t] = None]
        /\ out' = [out EXCEPT ![t] = None]
     \/ \E s \in Status :
          /\ FirstOf(HeaderOrder, HeaderFailures(img, b), s)
          /\ Refuse(t, s)
          /\ checked' = [checked EXCEPT ![t] = {}]
  /\ UNCHANGED <<img, clock, mark, seen, granted>>

(* Mutation of IdentityFails: the HAL's end-of-list sentinel leaks out.    *)
BugSentinelLeaks(t) ==
  /\ pc[t] = "identity"
  /\ Refuse(t, "NO_MORE_SEGMENTS")
  /\ UNCHANGED <<img, clock, mark, arg, now, checked, seen, granted>>

(* vl_compute_fingerprint() fails and its status is passed on.             *)
IdentityFails(t) ==
  /\ pc[t] = "identity"
  /\ \E s \in IdErrors : Refuse(t, s)
  /\ UNCHANGED <<img, clock, mark, arg, now, checked, seen, granted>>

(* Mutation of BindDevice: the deny-list is searched, the answer unused.   *)
BugIgnoresDenyList(t) ==
  LET bits == checked[t] \cup {"DEVICE"}
                         \cup (IF DenyList(img) THEN {"REVOCATION"} ELSE {})
  IN  /\ pc[t] = "identity"
      /\ DeviceFailures(img, arg[t]) \subseteq {"REVOKED"}
      /\ checked' = [checked EXCEPT ![t] = bits]
      /\ \/ HasClock(img) /\ Goto(t, "clock") /\ UNCHANGED <<rc, out>>
         \/ ~HasClock(img) /\ Grant(t, bits)
      /\ UNCHANGED <<img, clock, mark, arg, now, seen, granted>>

(* Device binding, then revocation, then the case of no clock at all.      *)
BindDevice(t) ==
  LET bits == checked[t] \cup {"DEVICE"}
                         \cup (IF DenyList(img) THEN {"REVOCATION"} ELSE {})
  IN  /\ pc[t] = "identity"
      /\ \/ /\ DeviceFailures(img, arg[t]) = {}
            /\ checked' = [checked EXCEPT ![t] = bits]
            /\ \/ HasClock(img) /\ Goto(t, "clock") /\ UNCHANGED <<rc, out>>
               \/ ~HasClock(img) /\ Grant(t, bits)
         \/ \E s \in Status :
              /\ FirstOf(DeviceOrder, DeviceFailures(img, arg[t]), s)
              /\ Refuse(t, s)
              /\ UNCHANGED checked
      /\ UNCHANGED <<img, clock, mark, arg, now, seen, granted>>

(* now_epoch() fails.                                                      *)
ClockFails(t) ==
  /\ pc[t] = "clock"
  /\ Refuse(t, "PLATFORM")
  /\ UNCHANGED <<img, clock, mark, arg, now, checked, seen, granted>>

(* Mutations of ReadClock: the mark is settled before the window is        *)
(* checked; the clock is read again until it is inside the window.         *)
BugMarkBeforeWindow(t) ==
  /\ pc[t] = "clock"
  /\ now' = [now EXCEPT ![t] = clock]
  /\ checked' = [checked EXCEPT ![t] = @ \cup {"TIME"}]
  /\ Enforced(img) /\ Goto(t, "load")
  /\ UNCHANGED <<img, clock, mark, arg, rc, out, seen, granted>>

BugWaitsForWindow(t) ==
  /\ pc[t] = "clock"
  /\ now' = [now EXCEPT ![t] = clock]
  /\ \/ WindowFailures(arg[t], clock) = {} /\ Goto(t, "load")
     \/ WindowFailures(arg[t], clock) # {} /\ UNCHANGED pc
  /\ UNCHANGED <<img, clock, mark, arg, checked, rc, out, seen, granted>>

(* now_epoch() answers: the validity window.                               *)
ReadClock(t) ==
  LET bits == checked[t] \cup {"TIME"}
  IN  /\ pc[t] = "clock"
      /\ now' = [now EXCEPT ![t] = clock]
      /\ seen' = IF /\ Enforced(img)
                    /\ WindowFailures(arg[t], clock) # {}
                    /\ clock > seen
                 THEN clock ELSE seen
      /\ \/ /\ WindowFailures(arg[t], clock) = {}
            /\ checked' = [checked EXCEPT ![t] = bits]
            /\ \/ Enforced(img) /\ Goto(t, "load") /\ UNCHANGED <<rc, out>>
               \/ ~Enforced(img) /\ Grant(t, bits)
         \/ \E s \in Status :
              /\ FirstOf(WindowOrder, WindowFailures(arg[t], clock), s)
              /\ Refuse(t, s)
              /\ UNCHANGED checked
      /\ UNCHANGED <<img, clock, mark, arg, granted>>

(* The last step of a call whose mark is settled.                          *)
GrantMarked(t) ==
  /\ checked' = [checked EXCEPT ![t] = @ \cup {"HWM"}]
  /\ Grant(t, checked[t] \cup {"HWM"})
  /\ granted' = IF now[t] > granted THEN now[t] ELSE granted

(* hwm_load() or hwm_store() fails.  A failed store may have written.      *)
MarkFails(t) ==
  /\ pc[t] \in {"load", "store"}
  /\ Refuse(t, "PLATFORM")
  /\ \/ UNCHANGED mark
     \/ pc[t] = "store" /\ mark' = now[t]
  /\ UNCHANGED <<img, clock, arg, now, checked, seen, granted>>

(* Mutations of LoadMark: an advanced clock is not stored; a clock below   *)
(* the mark is not refused.                                                *)
BugForgetsStore(t) ==
  /\ pc[t] = "load"
  /\ now[t] >= mark
  /\ GrantMarked(t)
  /\ UNCHANGED <<img, clock, mark, arg, now, seen>>

BugNoRollbackCheck(t) ==
  /\ pc[t] = "load"
  /\ Goto(t, "store")
  /\ UNCHANGED <<img, clock, mark, arg, now, seen, rc, out, checked, granted>>

(* hwm_load() answers: refuse below the mark, write only above it.         *)
LoadMark(t) ==
  /\ pc[t] = "load"
  /\ \/ /\ now[t] < mark
        /\ Refuse(t, "CLOCK_ROLLBACK")
        /\ UNCHANGED <<checked, granted>>
     \/ /\ now[t] = mark
        /\ GrantMarked(t)
     \/ /\ now[t] > mark
        /\ Goto(t, "store")
        /\ UNCHANGED <<rc, out, checked, granted>>
  /\ UNCHANGED <<img, clock, mark, arg, now, seen>>

(* hwm_store() succeeds.                                                   *)
StoreMark(t) ==
  /\ pc[t] = "store"
  /\ mark' = now[t]
  /\ GrantMarked(t)
  /\ UNCHANGED <<img, clock, arg, now, seen>>

Step(t) ==
  \/ IdentityFails(t) \/ BindDevice(t)
  \/ ClockFails(t) \/ ReadClock(t)
  \/ LoadMark(t) \/ StoreMark(t) \/ MarkFails(t)

(* Environment: the clock runs, is set forward or is set back.             *)
SetClock ==
  /\ \E n \in Time \ {clock} : clock' = n
  /\ UNCHANGED <<img, mark, local, seen, granted>>

(* Environment: the power fails at any point, perhaps just after a store   *)
(* took effect, and the device restarts, perhaps with a new image.  Only   *)
(* the mark is non-volatile.                                               *)
PowerCycle ==
  /\ img' \in Images
  /\ mark' \in {mark} \cup {now[t] : t \in {u \in Tasks : pc[u] = "store"}}
  /\ pc' = [t \in Tasks |-> "idle"]
  /\ arg' = [t \in Tasks |-> None]
  /\ now' = [t \in Tasks |-> 0]
  /\ checked' = [t \in Tasks |-> {}]
  /\ rc' = [t \in Tasks |-> None]
  /\ out' = [t \in Tasks |-> None]
  /\ UNCHANGED <<clock, seen, granted>>

Next ==
  \/ \E t \in Tasks : Step(t) \/ \E b \in Blobs : Call(t, b)
  \/ SetClock
  \/ PowerCycle

Spec == Init /\ [][Next]_vars

(* vl_hal_t: callbacks "must not block indefinitely", so a call advances.  *)
FairSpec == Spec /\ \A t \in Tasks : WF_vars(Step(t))
-----------------------------------------------------------------------------
(* Properties.                                                             *)

(* The variables hold what their C counterparts can hold.                  *)
TypeOK ==
  /\ img \in Images
  /\ clock \in Time
  /\ mark \in Time
  /\ pc \in [Tasks -> {"idle", "identity", "clock", "load", "store"}]
  /\ arg \in [Tasks -> Blobs \cup {None}]
  /\ \A t \in Tasks : pc[t] # "idle" => arg[t] \in Blobs
  /\ now \in [Tasks -> Time]
  /\ checked \in [Tasks -> SUBSET Checks]
  /\ rc \in [Tasks -> Status \cup {None}]
  /\ out \in [Tasks -> [blob : Blobs, checked : SUBSET Checks] \cup {None}]
  /\ seen \in Time
  /\ granted \in Time

(* The bits an image can claim: docs/API.md:203-209.                       *)
ApplicableChecks(i) ==
  {"SIGNATURE", "DEVICE"} \cup (IF DenyList(i) THEN {"REVOCATION"} ELSE {})
                          \cup (IF HasClock(i) THEN {"TIME"} ELSE {})
                          \cup (IF Enforced(i) THEN {"HWM"} ELSE {})

(* The caller's struct is populated exactly while the verdict is VL_OK,    *)
(* with the text that was judged, and its `checked` word lists exactly the *)
(* checks this image could make.  Each listed check holds of that text and *)
(* of the instant the call read (vl_core.c:226-233, 377-389; "which        *)
(* optional checks actually ran").  What VL_CHECKED_HWM stands for is the  *)
(* stored mark, which is MarkCoversGrants below.                           *)
CheckedIsHonest ==
  \A t \in Tasks :
    /\ out[t] # None <=> rc[t] = "OK"
    /\ out[t] # None =>
         LET did == out[t].checked
         IN  /\ out[t].blob = arg[t]
             /\ did = ApplicableChecks(img)
             /\ "SIGNATURE"  \in did => HeaderFailures(img, arg[t]) = {}
             /\ "DEVICE"     \in did => arg[t].device_id = ThisDevice
             /\ "REVOCATION" \in did => arg[t].serial \notin img.revoked
             /\ "TIME"       \in did => /\ ~TooEarly(arg[t], now[t])
                                        /\ ~TooLate(arg[t], now[t])
             /\ "HWM"        \in did => Enforced(img) /\ now[t] <= granted

(* Everything but the device's own state speaks for the text.              *)
Genuine(i, b) ==
  /\ HeaderFailures(i, b) = {}
  /\ b.device_id = ThisDevice

(* What status s, returned for text b at instant n, gives away: the check  *)
(* it names fails, and those tried before it do not.  A header status that *)
(* the identity callback may return as well says nothing.                  *)
HeaderStatus == {HeaderOrder[k] : k \in DOMAIN HeaderOrder} \ IdErrors

Explained(s, i, b, n) ==
  /\ s \in HeaderStatus => s \in HeaderFailures(i, b)
  /\ s = "DEVICE_MISMATCH" => HeaderFailures(i, b) = {} /\ b.device_id # ThisDevice
  /\ s \in {"REVOKED", "NO_CLOCK", "NOT_YET_VALID", "EXPIRED", "CLOCK_ROLLBACK"}
       => Genuine(i, b)
  /\ s = "REVOKED" => IsRevoked(i, b)
  /\ s \in {"NO_CLOCK", "NOT_YET_VALID", "EXPIRED", "CLOCK_ROLLBACK"} => ~IsRevoked(i, b)
  /\ s = "NO_CLOCK" => ~HasClock(i) /\ "REQUIRE_CLOCK" \in i.flags
  /\ s \in {"NOT_YET_VALID", "EXPIRED", "CLOCK_ROLLBACK"} => HasClock(i)
  /\ s = "NOT_YET_VALID" => TooEarly(b, n)
  /\ s = "EXPIRED" => TooLate(b, n) /\ ~TooEarly(b, n)
  /\ s = "CLOCK_ROLLBACK" => Enforced(i) /\ ~TooEarly(b, n) /\ ~TooLate(b, n)

(* A refusal blames a check that fails, and one that blames revocation,    *)
(* the clock or rollback is only ever given to a licence that is otherwise *)
(* genuine: signed by a vendor key and issued to this device               *)
(* (docs/INTEGRATION.md: "only when it was otherwise genuine").  With one  *)
(* task, a rollback was judged at an instant below the stored mark.        *)
RefusalExplained ==
  \A t \in Tasks :
    /\ Explained(rc[t], img, arg[t], now[t])
    /\ rc[t] = "CLOCK_ROLLBACK" /\ Tasks = {t} => now[t] < mark

(* With one task inside vl_verify(), the mark in storage covers every      *)
(* instant at which a licence was granted, so no later call can be granted *)
(* below it, whatever failed or lost power in between.                     *)
MarkCoversGrants == granted <= mark

(* vectilicense.h:135, docs/API.md:130: the mark is monotonic.             *)
MarkNeverFalls == [][mark' >= mark]_mark

(* Nothing but a licence that passed every other check moves the mark, and *)
(* only to the instant it was judged at: a forged, foreign, revoked or     *)
(* expired text never writes the storage (vl_core.c:360-374).              *)
MarkIsEarned ==
  [][\E t \in Tasks : /\ pc[t] = "store"
                      /\ mark' = now[t]
                      /\ Enforced(img)
                      /\ Genuine(img, arg[t])
                      /\ ~IsRevoked(img, arg[t])
                      /\ WindowFailures(arg[t], now[t]) = {}]_mark

(* What a call has established when it is at each of its callbacks, and    *)
(* what it leaves behind: the strengthening the proofs rest on.            *)
StageInv(t) ==
  /\ pc[t] # "idle" =>
       /\ HeaderFailures(img, arg[t]) = {}
       /\ rc[t] = None
       /\ out[t] = None
  /\ pc[t] = "identity" => checked[t] = {"SIGNATURE"}
  /\ pc[t] \in {"clock", "load", "store"} =>
       /\ DeviceFailures(img, arg[t]) = {}
       /\ HasClock(img)
  /\ pc[t] = "clock" => checked[t] = ApplicableChecks(img) \ {"TIME", "HWM"}
  /\ pc[t] \in {"load", "store"} =>
       /\ WindowFailures(arg[t], now[t]) = {}
       /\ Enforced(img)
       /\ checked[t] = ApplicableChecks(img) \ {"HWM"}

PipelineInv == \A t \in Tasks : StageInv(t)

(* With one task, a call about to write the mark is about to raise it.     *)
StoreRaises == \A t \in Tasks : pc[t] = "store" => now[t] > mark

(* Every call returns: no path waits for anything but its callbacks.       *)
CallReturns == \A t \in Tasks : pc[t] # "idle" ~> pc[t] = "idle"

(* examples/posix/vl_activate.c:218-220 and docs/THREAT_MODEL.md:155-156   *)
(* promise of VL_FLAG_ENFORCE_HWM that the device remembers "the highest   *)
(* timestamp it has ever seen" and refuses anything earlier.  Even an      *)
(* instant that made it refuse a licence by its dates is forgotten.        *)
RefusesBelowSeen ==
  [][\A t \in Tasks : rc'[t] = "OK" /\ rc[t] # "OK" /\ Enforced(img)
                        => now[t] >= seen]_vars

-----------------------------------------------------------------------------
(* The pipeline implements the service.                                    *)
Answer(t) ==
  IF pc[t] # "idle" THEN "pending"
  ELSE IF rc[t] = None THEN "none"
  ELSE IF rc[t] = "OK" THEN "granted"
  ELSE "refused"

Service == INSTANCE LicenceService WITH
  image  <- img,
  asked  <- arg,
  answer <- [t \in Tasks |-> Answer(t)],
  floor  <- granted

(* With one task at a time, every behaviour of the pipeline, restarts and  *)
(* failing callbacks included, is one of the service.                      *)
ImplementsService == Service!Spec
=============================================================================
