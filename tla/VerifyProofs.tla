---------------------------- MODULE VerifyProofs ----------------------------
(***************************************************************************)
(* Proofs about Verify for every set of tasks, images and texts and every  *)
(* MaxTime.  Facts about the stored mark need that calls do not overlap,   *)
(* which the run mark_race shows is necessary; they state it as an         *)
(* assumption.                                                             *)
(***************************************************************************)
EXTENDS Verify, TLAPS

(* At most one task is ever inside vl_verify().                            *)
OneTask == \A t, u \in Tasks : t = u

USE TimeAssumption DEF Time

-----------------------------------------------------------------------------
(* The variables keep the types of their C counterparts, for any number of *)
(* tasks.                                                                  *)
THEOREM TypeCorrect == Spec => []TypeOK
<1>1. Init => TypeOK
  BY DEF Init, TypeOK
<1>2. TypeOK /\ [Next]_vars => TypeOK'
  <2> SUFFICES ASSUME TypeOK, [Next]_vars PROVE TypeOK'
    OBVIOUS
  <2>1. ASSUME NEW t \in Tasks, NEW b \in Blobs, Call(t, b) PROVE TypeOK'
    BY <2>1 DEF TypeOK, Call, Refuse, Goto, Checks
  <2>2. ASSUME NEW t \in Tasks, IdentityFails(t) PROVE TypeOK'
    BY <2>2 DEF TypeOK, IdentityFails, Refuse, Goto, Status
  <2>3. ASSUME NEW t \in Tasks, BindDevice(t) PROVE TypeOK'
    <3>1. checked[t] \cup {"DEVICE"} \cup (IF DenyList(img) THEN {"REVOCATION"} ELSE {})
            \in SUBSET Checks
      BY DEF TypeOK, Checks
    <3>2. arg[t] \in Blobs
      BY <2>3 DEF TypeOK, BindDevice
    <3> QED
      BY <2>3, <3>1, <3>2 DEF TypeOK, BindDevice, Refuse, Grant, Goto, Status
  <2>4. ASSUME NEW t \in Tasks, ClockFails(t) PROVE TypeOK'
    BY <2>4 DEF TypeOK, ClockFails, Refuse, Goto, Status
  <2>5. ASSUME NEW t \in Tasks, ReadClock(t) PROVE TypeOK'
    <3>1. checked[t] \cup {"TIME"} \in SUBSET Checks
      BY DEF TypeOK, Checks
    <3>2. arg[t] \in Blobs
      BY <2>5 DEF TypeOK, ReadClock
    <3> QED
      BY <2>5, <3>1, <3>2 DEF TypeOK, ReadClock, Refuse, Grant, Goto, Status
  <2>6. ASSUME NEW t \in Tasks, MarkFails(t) PROVE TypeOK'
    BY <2>6 DEF TypeOK, MarkFails, Refuse, Goto, Status
  <2>7. ASSUME NEW t \in Tasks, LoadMark(t) PROVE TypeOK'
    <3>1. checked[t] \cup {"HWM"} \in SUBSET Checks
      BY DEF TypeOK, Checks
    <3>2. arg[t] \in Blobs
      BY <2>7 DEF TypeOK, LoadMark
    <3> QED
      BY <2>7, <3>1, <3>2
         DEF TypeOK, LoadMark, GrantMarked, Refuse, Grant, Goto, Status
  <2>8. ASSUME NEW t \in Tasks, StoreMark(t) PROVE TypeOK'
    <3>1. checked[t] \cup {"HWM"} \in SUBSET Checks
      BY DEF TypeOK, Checks
    <3>2. arg[t] \in Blobs
      BY <2>8 DEF TypeOK, StoreMark
    <3> QED
      BY <2>8, <3>1, <3>2 DEF TypeOK, StoreMark, GrantMarked, Grant, Goto, Status
  <2>9. CASE SetClock
    BY <2>9 DEF TypeOK, SetClock, local
  <2>10. CASE PowerCycle
    BY <2>10 DEF TypeOK, PowerCycle
  <2>11. CASE UNCHANGED vars
    BY <2>11 DEF TypeOK, vars, local
  <2> QED
    BY <2>1, <2>2, <2>3, <2>4, <2>5, <2>6, <2>7, <2>8, <2>9, <2>10, <2>11
       DEF Next, Step
<1> QED
  BY <1>1, <1>2, PTL DEF Spec

-----------------------------------------------------------------------------
(* Where a call stands tells what it has established.                      *)

(* The stages of a call never skip a check: at each callback everything    *)
(* the code has passed so far holds of the text, and the caller's struct   *)
(* is still zeroed.                                                        *)
THEOREM StagesHold == Spec => []PipelineInv
<1>1. Init => PipelineInv
  BY NoneAssumption DEF Init, PipelineInv, StageInv
<1>2. TypeOK /\ PipelineInv /\ [Next]_vars => PipelineInv'
  <2> SUFFICES ASSUME TypeOK, PipelineInv, [Next]_vars, NEW u \in Tasks
               PROVE StageInv(u)'
    BY DEF PipelineInv
  <2>0. StageInv(u)
    BY DEF PipelineInv
  <2> USE <2>0 DEF TypeOK
  <2>1. ASSUME NEW t \in Tasks, NEW b \in Blobs, Call(t, b) PROVE StageInv(u)'
    BY <2>1 DEF Call, Refuse, Goto, StageInv, HasClock, Enforced
  <2>2. ASSUME NEW t \in Tasks, IdentityFails(t) PROVE StageInv(u)'
    BY <2>2 DEF IdentityFails, Refuse, Goto, StageInv
  <2>3. ASSUME NEW t \in Tasks, BindDevice(t) PROVE StageInv(u)'
    <3>1. CASE u = t
      BY <2>3, <3>1 DEF BindDevice, Refuse, Grant, Goto, StageInv, ApplicableChecks
    <3>2. CASE u # t
      BY <2>3, <3>2 DEF BindDevice, Refuse, Grant, Goto, StageInv
    <3> QED BY <3>1, <3>2
  <2>4. ASSUME NEW t \in Tasks, ClockFails(t) PROVE StageInv(u)'
    BY <2>4 DEF ClockFails, Refuse, Goto, StageInv
  <2>5. ASSUME NEW t \in Tasks, ReadClock(t) PROVE StageInv(u)'
    <3>1. CASE u = t
      BY <2>5, <3>1 DEF ReadClock, Refuse, Grant, Goto, StageInv, ApplicableChecks
    <3>2. CASE u # t
      BY <2>5, <3>2 DEF ReadClock, Refuse, Grant, Goto, StageInv
    <3> QED BY <3>1, <3>2
  <2>6. ASSUME NEW t \in Tasks, MarkFails(t) PROVE StageInv(u)'
    BY <2>6 DEF MarkFails, Refuse, Goto, StageInv
  <2>7. ASSUME NEW t \in Tasks, LoadMark(t) PROVE StageInv(u)'
    BY <2>7 DEF LoadMark, GrantMarked, Refuse, Grant, Goto, StageInv
  <2>8. ASSUME NEW t \in Tasks, StoreMark(t) PROVE StageInv(u)'
    BY <2>8 DEF StoreMark, GrantMarked, Grant, Goto, StageInv
  <2>9. CASE SetClock
    BY <2>9 DEF SetClock, local, StageInv
  <2>10. CASE PowerCycle
    BY <2>10, NoneAssumption DEF PowerCycle, StageInv
  <2>11. CASE UNCHANGED vars
    BY <2>11 DEF vars, local, StageInv
  <2> QED
    BY <2>1, <2>2, <2>3, <2>4, <2>5, <2>6, <2>7, <2>8, <2>9, <2>10, <2>11
       DEF Next, Step
<1> QED
  BY <1>1, <1>2, TypeCorrect, PTL DEF Spec

(* The checked word of a grant, and the window it was judged against.      *)
Listed(u) ==
  /\ out[u] # None <=> rc[u] = "OK"
  /\ out[u] # None =>
       /\ out[u].blob = arg[u]
       /\ out[u].checked = ApplicableChecks(img)
       /\ "TIME" \in out[u].checked =>
            ~TooEarly(arg[u], now[u]) /\ ~TooLate(arg[u], now[u])

ListedInv == \A u \in Tasks : Listed(u)

LEMMA ChecksListed == Spec => []ListedInv
<1>1. Init => ListedInv
  BY NoneAssumption DEF Init, ListedInv, Listed, Status
<1>2. TypeOK /\ PipelineInv /\ ListedInv /\ [Next]_vars => ListedInv'
  <2> SUFFICES ASSUME TypeOK, PipelineInv, ListedInv, [Next]_vars, NEW u \in Tasks
               PROVE Listed(u)'
    BY DEF ListedInv
  <2>0. Listed(u) /\ StageInv(u)
    BY DEF ListedInv, PipelineInv
  <2>a. None # "OK"
    BY NoneAssumption DEF Status
  <2>b. \A b \in Blobs, c \in SUBSET Checks : [blob |-> b, checked |-> c] # None
    BY NoneAssumption
  <2> USE <2>0, <2>a DEF TypeOK, Listed
  <2>1. ASSUME NEW t \in Tasks, NEW b \in Blobs, Call(t, b) PROVE Listed(u)'
    <3>1. \A s : FirstOf(HeaderOrder, HeaderFailures(img, b), s) => s # "OK"
      BY DEF FirstOf, HeaderFailures
    <3> QED
      BY <2>1, <3>1 DEF Call, Refuse, Goto
  <2>2. ASSUME NEW t \in Tasks, IdentityFails(t) PROVE Listed(u)'
    BY <2>2, ErrorAssumption DEF IdentityFails, Refuse, Goto
  <2>3. ASSUME NEW t \in Tasks, BindDevice(t) PROVE Listed(u)'
    <3>1. \A s : FirstOf(DeviceOrder, DeviceFailures(img, arg[t]), s) => s # "OK"
      BY DEF FirstOf, DeviceFailures
    <3>2. CASE u = t /\ \E c \in SUBSET Checks : Grant(t, c)
      <4> DEFINE bits == checked[t] \cup {"DEVICE"}
                           \cup (IF DenyList(img) THEN {"REVOCATION"} ELSE {})
      <4>1. checked[t] = {"SIGNATURE"} /\ arg[t] \in Blobs /\ ~HasClock(img) /\ Grant(t, bits)
        <5>1. rc'[t] = "OK"
          BY <3>2 DEF Grant
        <5>2. rc[t] = None /\ checked[t] = {"SIGNATURE"} /\ arg[t] \in Blobs
          BY <2>3, <3>2 DEF BindDevice, StageInv
        <5>3. \A s \in Status : s # "OK" => ~Refuse(t, s)
          BY <5>1 DEF Refuse
        <5> QED
          BY <2>3, <2>a, <3>1, <5>1, <5>2, <5>3 DEF BindDevice
      <4>2. HeaderFailures(img, arg[t]) = {}
        BY <2>3, <3>2 DEF BindDevice, StageInv
      <4>3. ~Enforced(img)
        BY <4>1, <4>2 DEF HeaderFailures, ArgumentsUsable, HasClock, Status
      <4>4. bits = ApplicableChecks(img) /\ bits \in SUBSET Checks /\ "TIME" \notin bits
        BY <4>1, <4>3 DEF ApplicableChecks, Checks
      <4> QED
        BY <2>3, <2>b, <3>2, <4>1, <4>4 DEF BindDevice, Grant
    <3>3. CASE ~(u = t /\ \E c \in SUBSET Checks : Grant(t, c))
      <4>1. checked[t] \cup {"DEVICE"} \cup (IF DenyList(img) THEN {"REVOCATION"} ELSE {})
              \in SUBSET Checks
        BY DEF Checks
      <4> QED
        BY <2>3, <3>1, <3>3, <4>1 DEF BindDevice, Refuse, Grant, Goto
    <3> QED BY <3>2, <3>3
  <2>4. ASSUME NEW t \in Tasks, ClockFails(t) PROVE Listed(u)'
    BY <2>4 DEF ClockFails, Refuse, Goto
  <2>5. ASSUME NEW t \in Tasks, ReadClock(t) PROVE Listed(u)'
    <3> DEFINE bits == checked[t] \cup {"TIME"}
    <3>1. \A s : FirstOf(WindowOrder, WindowFailures(arg[t], clock), s) => s # "OK"
      BY DEF FirstOf, WindowFailures
    <3>2. bits \in SUBSET Checks
      BY DEF Checks
    <3>3. CASE u = t /\ Grant(t, bits) /\ WindowFailures(arg[t], clock) = {} /\ ~Enforced(img)
      <4>1. arg[t] \in Blobs /\ bits = ApplicableChecks(img)
        BY <2>5, <3>3 DEF ReadClock, StageInv, ApplicableChecks
      <4>2. ~TooEarly(arg[t], clock) /\ ~TooLate(arg[t], clock)
        BY <3>3 DEF WindowFailures, Status
      <4> QED
        BY <2>5, <2>b, <3>2, <3>3, <4>1, <4>2 DEF ReadClock, Grant
    <3>4. CASE ~(u = t /\ Grant(t, bits) /\ WindowFailures(arg[t], clock) = {} /\ ~Enforced(img))
      BY <2>5, <3>1, <3>4 DEF ReadClock, Refuse, Grant, Goto, StageInv
    <3> QED BY <3>3, <3>4
  <2>6. ASSUME NEW t \in Tasks, MarkFails(t) PROVE Listed(u)'
    BY <2>6 DEF MarkFails, Refuse, Goto
  <2>7. ASSUME NEW t \in Tasks, pc[t] \in {"load", "store"}, GrantMarked(t),
               UNCHANGED <<img, arg, now>>
        PROVE Listed(u)'
    <3>1. StageInv(t) /\ arg[t] \in Blobs
      BY <2>7 DEF PipelineInv
    <3>2. /\ checked[t] \cup {"HWM"} = ApplicableChecks(img)
          /\ checked[t] \cup {"HWM"} \in SUBSET Checks
      BY <2>7, <3>1 DEF StageInv, ApplicableChecks, Checks
    <3>3. ~TooEarly(arg[t], now[t]) /\ ~TooLate(arg[t], now[t])
      BY <2>7, <3>1 DEF StageInv, WindowFailures, Status
    <3> QED
      BY <2>7, <2>b, <3>1, <3>2, <3>3 DEF GrantMarked, Grant
  <2>8. ASSUME NEW t \in Tasks, LoadMark(t) PROVE Listed(u)'
    <3>1. CASE GrantMarked(t)
      BY <2>7, <2>8, <3>1 DEF LoadMark
    <3>2. CASE ~GrantMarked(t)
      BY <2>8, <3>2 DEF LoadMark, Refuse, Goto
    <3> QED BY <3>1, <3>2
  <2>9. ASSUME NEW t \in Tasks, StoreMark(t) PROVE Listed(u)'
    BY <2>7, <2>9 DEF StoreMark
  <2>10. CASE SetClock
    BY <2>10 DEF SetClock, local
  <2>11. CASE PowerCycle
    BY <2>11 DEF PowerCycle
  <2>12. CASE UNCHANGED vars
    BY <2>12 DEF vars, local
  <2> QED
    BY <2>1, <2>2, <2>3, <2>4, <2>5, <2>6, <2>8, <2>9, <2>10, <2>11, <2>12
       DEF Next, Step
<1> QED
  BY <1>1, <1>2, TypeCorrect, StagesHold, PTL DEF Spec

(* What a grant rests on, beside its window.                               *)
Backed(u) ==
  out[u] # None =>
    /\ HeaderFailures(img, arg[u]) = {}
    /\ arg[u].device_id = ThisDevice
    /\ ~IsRevoked(img, arg[u])
    /\ Enforced(img) => now[u] <= granted

BackedInv == \A u \in Tasks : Backed(u)

LEMMA GrantsBacked == Spec => []BackedInv
<1>1. Init => BackedInv
  BY DEF Init, BackedInv, Backed
<1>2. TypeOK /\ PipelineInv /\ BackedInv /\ [Next]_vars => BackedInv'
  <2> SUFFICES ASSUME TypeOK, PipelineInv, BackedInv, [Next]_vars, NEW u \in Tasks
               PROVE  Backed(u)'
    BY DEF BackedInv
  <2>0. Backed(u) /\ StageInv(u)
    BY DEF BackedInv, PipelineInv
  <2>a. granted \in Nat /\ \A t \in Tasks : now[t] \in Nat
    BY TimeAssumption DEF TypeOK, Time
  <2>b. \A i, b : DeviceFailures(i, b) = {} => b.device_id = ThisDevice /\ ~IsRevoked(i, b)
    BY DEF DeviceFailures, Status
  <2>c. \A i, b : HeaderFailures(i, b) = {} /\ Enforced(i) => HasClock(i)
    BY DEF HeaderFailures, ArgumentsUsable, HasClock, Status
  <2>t. /\ rc \in [Tasks -> Status \cup {None}]
        /\ out \in [Tasks -> [blob : Blobs, checked : SUBSET Checks] \cup {None}]
        /\ now \in [Tasks -> Time] /\ arg \in [Tasks -> Blobs \cup {None}]
    BY DEF TypeOK
  <2>1. ASSUME NEW t \in Tasks, NEW b \in Blobs, Call(t, b) PROVE Backed(u)'
    BY <2>0, <2>1, <2>t DEF Call, Refuse, Backed
  <2>2. ASSUME NEW t \in Tasks, IdentityFails(t) PROVE Backed(u)'
    BY <2>0, <2>2, <2>t DEF IdentityFails, Refuse, Backed
  <2>3. ASSUME NEW t \in Tasks, BindDevice(t) PROVE Backed(u)'
    <3>1. CASE u = t /\ DeviceFailures(img, arg[t]) = {} /\ ~HasClock(img)
      <4>1. HeaderFailures(img, arg[u]) = {}
        BY <2>0, <2>3, <3>1 DEF BindDevice, StageInv
      <4>2. UNCHANGED <<img, arg>>
        BY <2>3 DEF BindDevice
      <4> QED
        BY <2>b, <2>c, <3>1, <4>1, <4>2 DEF Backed
    <3>2. CASE ~(u = t /\ DeviceFailures(img, arg[t]) = {} /\ ~HasClock(img))
      BY <2>0, <2>3, <2>t, <3>2 DEF BindDevice, Refuse, Grant, Backed
    <3> QED
      BY <3>1, <3>2
  <2>4. ASSUME NEW t \in Tasks, ClockFails(t) PROVE Backed(u)'
    BY <2>0, <2>4, <2>t DEF ClockFails, Refuse, Backed
  <2>5. ASSUME NEW t \in Tasks, ReadClock(t) PROVE Backed(u)'
    <3>1. CASE u = t /\ WindowFailures(arg[t], clock) = {} /\ ~Enforced(img)
      <4>1. HeaderFailures(img, arg[u]) = {} /\ DeviceFailures(img, arg[u]) = {}
        BY <2>0, <2>5, <3>1 DEF ReadClock, StageInv
      <4>2. UNCHANGED <<img, arg>>
        BY <2>5 DEF ReadClock
      <4> QED
        BY <2>b, <3>1, <4>1, <4>2 DEF Backed
    <3>2. CASE ~(u = t /\ WindowFailures(arg[t], clock) = {} /\ ~Enforced(img))
      <4>1. u = t => out[u] = None
        BY <2>0, <2>5 DEF ReadClock, StageInv
      <4>2. u = t => out'[u] = None
        BY <2>5, <2>t, <3>2, <4>1 DEF ReadClock, Refuse
      <4>3. u # t => now'[u] = now[u] /\ out'[u] = out[u]
        BY <2>5, <2>t, <3>2 DEF ReadClock, Refuse, Grant
      <4>4. UNCHANGED <<img, arg, granted>>
        BY <2>5 DEF ReadClock
      <4> QED
        BY <2>0, <4>2, <4>3, <4>4 DEF Backed
    <3> QED
      BY <3>1, <3>2
  <2>6. ASSUME NEW t \in Tasks, MarkFails(t) PROVE Backed(u)'
    BY <2>0, <2>6, <2>t DEF MarkFails, Refuse, Backed
  <2>7. ASSUME NEW t \in Tasks, pc[t] \in {"load", "store"}, GrantMarked(t),
               UNCHANGED <<img, arg, now>>
        PROVE  Backed(u)'
    <3>1. granted' >= granted /\ granted' >= now[t] /\ granted' \in Nat
      BY <2>7, <2>a DEF GrantMarked
    <3>2. CASE u = t
      <4>1. HeaderFailures(img, arg[u]) = {} /\ DeviceFailures(img, arg[u]) = {}
        BY <2>0, <2>7, <3>2 DEF StageInv
      <4> QED
        BY <2>7, <2>a, <2>b, <3>1, <3>2, <4>1 DEF Backed
    <3>3. CASE u # t
      <4>1. out'[u] = out[u]
        BY <2>7, <2>t, <3>3 DEF GrantMarked, Grant
      <4>2. now[u] <= granted => now[u] <= granted'
        BY <2>a, <3>1
      <4> QED
        BY <2>0, <2>7, <4>1, <4>2 DEF Backed
    <3> QED
      BY <3>2, <3>3
  <2>8. ASSUME NEW t \in Tasks, LoadMark(t) PROVE Backed(u)'
    <3>1. CASE GrantMarked(t)
      BY <2>7, <2>8, <3>1 DEF LoadMark
    <3>2. CASE ~GrantMarked(t)
      BY <2>0, <2>8, <2>t, <3>2 DEF LoadMark, Refuse, Backed
    <3> QED
      BY <3>1, <3>2
  <2>9. ASSUME NEW t \in Tasks, StoreMark(t) PROVE Backed(u)'
    BY <2>7, <2>9 DEF StoreMark
  <2>10. CASE SetClock
    BY <2>0, <2>10 DEF SetClock, local, Backed
  <2>11. CASE PowerCycle
    BY <2>11 DEF PowerCycle, Backed
  <2>12. CASE UNCHANGED vars
    BY <2>0, <2>12 DEF vars, local, Backed
  <2> QED
    BY <2>1, <2>2, <2>3, <2>4, <2>5, <2>6, <2>8, <2>9, <2>10, <2>11, <2>12
       DEF Next, Step
<1> QED
  BY <1>1, <1>2, TypeCorrect, StagesHold, PTL DEF Spec

(* The caller's struct is populated exactly on VL_OK; the bits in its      *)
(* `checked` word are exactly the checks that the image could make, and    *)
(* each of them holds of the text and of the instant that were judged, for *)
(* any number of overlapping calls.                                        *)
THEOREM CheckedIsHonestAlways == Spec => []CheckedIsHonest
<1>1. ASSUME ListedInv, BackedInv PROVE CheckedIsHonest
  <2> SUFFICES ASSUME NEW t \in Tasks
               PROVE  /\ out[t] # None <=> rc[t] = "OK"
                      /\ out[t] # None =>
                           LET did == out[t].checked
                           IN  /\ out[t].blob = arg[t]
                               /\ did = ApplicableChecks(img)
                               /\ "SIGNATURE"  \in did => HeaderFailures(img, arg[t]) = {}
                               /\ "DEVICE"     \in did => arg[t].device_id = ThisDevice
                               /\ "REVOCATION" \in did => arg[t].serial \notin img.revoked
                               /\ "TIME"       \in did => /\ ~TooEarly(arg[t], now[t])
                                                          /\ ~TooLate(arg[t], now[t])
                               /\ "HWM"        \in did => Enforced(img) /\ now[t] <= granted
    BY DEF CheckedIsHonest
  <2>1. Listed(t) /\ Backed(t)
    BY <1>1 DEF ListedInv, BackedInv
  <2>2. ~IsRevoked(img, arg[t]) => arg[t].serial \notin img.revoked
    BY DEF IsRevoked, DenyList
  <2>3. "HWM" \in ApplicableChecks(img) => Enforced(img)
    BY DEF ApplicableChecks
  <2> QED
    BY <2>1, <2>2, <2>3 DEF Listed, Backed
<1> QED
  BY <1>1, ChecksListed, GrantsBacked, PTL

(* The order of the checks: a header status names a check that fails; what *)
(* fails after the header names a check that fails of a genuine text.      *)
LEMMA HeaderStatuses ==
  HeaderStatus \subseteq {"INVALID_ARG", "BAD_FORMAT", "BAD_MAGIC", "BAD_VERSION",
                          "BAD_FAMILY", "UNKNOWN_KEY", "BAD_SIGNATURE"}
BY DEF HeaderStatus, HeaderOrder

LEMMA HeaderBlamesNothing ==
  ASSUME NEW i, NEW b, NEW n, NEW s, FirstOf(HeaderOrder, HeaderFailures(i, b), s)
  PROVE  Explained(s, i, b, n)
<1>1. s \in HeaderFailures(i, b)
  BY DEF FirstOf
<1>2. s \in {"INVALID_ARG", "BAD_FORMAT", "BAD_MAGIC", "BAD_VERSION",
            "BAD_FAMILY", "UNKNOWN_KEY", "BAD_SIGNATURE"}
  BY <1>1 DEF HeaderFailures
<1> QED
  BY <1>1, <1>2 DEF Explained

LEMMA DeviceBlamesGenuine ==
  ASSUME NEW i, NEW b, NEW n, NEW s,
         HeaderFailures(i, b) = {},
         FirstOf(DeviceOrder, DeviceFailures(i, b), s)
  PROVE  Explained(s, i, b, n)
<1>1. s \in {"DEVICE_MISMATCH", "REVOKED", "NO_CLOCK"} /\ s \in DeviceFailures(i, b)
  BY DEF FirstOf, DeviceOrder
<1>2. /\ s # "DEVICE_MISMATCH" => "DEVICE_MISMATCH" \notin DeviceFailures(i, b)
      /\ s = "NO_CLOCK" => "REVOKED" \notin DeviceFailures(i, b)
  BY DEF FirstOf, DeviceOrder
<1>3. /\ s # "DEVICE_MISMATCH" => b.device_id = ThisDevice
      /\ s = "NO_CLOCK" => ~IsRevoked(i, b)
  BY <1>2 DEF DeviceFailures, Status
<1>4. /\ s = "DEVICE_MISMATCH" => b.device_id # ThisDevice
      /\ s = "REVOKED" => IsRevoked(i, b)
      /\ s = "NO_CLOCK" => ~HasClock(i) /\ "REQUIRE_CLOCK" \in i.flags
  BY <1>1 DEF DeviceFailures
<1>5. s \notin HeaderStatus
  BY <1>1, HeaderStatuses
<1> QED
  BY <1>1, <1>3, <1>4, <1>5 DEF Explained, Genuine

LEMMA WindowBlamesGenuine ==
  ASSUME NEW i, NEW b, NEW n, NEW s,
         HeaderFailures(i, b) = {}, DeviceFailures(i, b) = {}, HasClock(i),
         FirstOf(WindowOrder, WindowFailures(b, n), s)
  PROVE  Explained(s, i, b, n)
<1>1. s \in {"NOT_YET_VALID", "EXPIRED"} /\ s \in WindowFailures(b, n)
  BY DEF FirstOf, WindowOrder
<1>2. s = "EXPIRED" => "NOT_YET_VALID" \notin WindowFailures(b, n)
  BY DEF FirstOf, WindowOrder
<1>3. /\ s = "NOT_YET_VALID" => TooEarly(b, n)
      /\ s = "EXPIRED" => TooLate(b, n) /\ ~TooEarly(b, n)
  BY <1>1, <1>2 DEF WindowFailures, Status
<1>4. b.device_id = ThisDevice /\ ~IsRevoked(i, b)
  BY DEF DeviceFailures, Status
<1>5. s \notin HeaderStatus
  BY <1>1, HeaderStatuses
<1> QED
  BY <1>1, <1>3, <1>4, <1>5 DEF Explained, Genuine

ExplainedInv == \A u \in Tasks : Explained(rc[u], img, arg[u], now[u])

LEMMA RefusalsBlame == Spec => []ExplainedInv
<1>a. \A i, b, n : Explained(None, i, b, n)
  BY NoneAssumption, HeaderStatuses DEF Explained, Status
<1>b. \A i, b, n : \A s \in IdErrors \cup {"OK", "PLATFORM"} : Explained(s, i, b, n)
  <2>1. HeaderStatus \cap (IdErrors \cup {"OK", "PLATFORM"}) = {}
    BY HeaderStatuses DEF HeaderStatus
  <2> QED
    BY <2>1, BlameAssumption DEF Explained
<1>1. Init => ExplainedInv
  BY <1>a DEF Init, ExplainedInv
<1>2. TypeOK /\ PipelineInv /\ ExplainedInv /\ [Next]_vars => ExplainedInv'
  <2> SUFFICES ASSUME TypeOK, PipelineInv, ExplainedInv, [Next]_vars, NEW u \in Tasks
               PROVE  Explained(rc[u], img, arg[u], now[u])'
    BY DEF ExplainedInv
  <2>0. Explained(rc[u], img, arg[u], now[u]) /\ StageInv(u)
    BY DEF ExplainedInv, PipelineInv
  <2> USE <2>0, <1>a, <1>b DEF TypeOK
  <2>1. ASSUME NEW t \in Tasks, NEW b \in Blobs, Call(t, b)
        PROVE  Explained(rc'[u], img', arg'[u], now'[u])
    <3>1. \A s : FirstOf(HeaderOrder, HeaderFailures(img, b), s) => Explained(s, img, b, 0)
      BY HeaderBlamesNothing
    <3> QED
      BY <2>1, <3>1 DEF Call, Refuse
  <2>2. ASSUME NEW t \in Tasks, IdentityFails(t)
        PROVE  Explained(rc'[u], img', arg'[u], now'[u])
    BY <2>2 DEF IdentityFails, Refuse
  <2>3. ASSUME NEW t \in Tasks, BindDevice(t)
        PROVE  Explained(rc'[u], img', arg'[u], now'[u])
    <3>1. HeaderFailures(img, arg[t]) = {}
      BY <2>3 DEF BindDevice, PipelineInv, StageInv
    <3>2. \A s : FirstOf(DeviceOrder, DeviceFailures(img, arg[t]), s) =>
                Explained(s, img, arg[t], now[t])
      BY <3>1, DeviceBlamesGenuine
    <3> QED
      BY <2>3, <3>2 DEF BindDevice, Refuse, Grant
  <2>4. ASSUME NEW t \in Tasks, ClockFails(t)
        PROVE  Explained(rc'[u], img', arg'[u], now'[u])
    BY <2>4 DEF ClockFails, Refuse
  <2>5. ASSUME NEW t \in Tasks, ReadClock(t)
        PROVE  Explained(rc'[u], img', arg'[u], now'[u])
    <3>1. HeaderFailures(img, arg[t]) = {} /\ DeviceFailures(img, arg[t]) = {} /\ HasClock(img)
      BY <2>5 DEF ReadClock, PipelineInv, StageInv
    <3>2. \A s : FirstOf(WindowOrder, WindowFailures(arg[t], clock), s) =>
                Explained(s, img, arg[t], clock)
      BY <3>1, WindowBlamesGenuine
    <3>3. CASE u = t /\ rc'[t] = rc[t]
      BY <2>5, <3>3 DEF ReadClock, StageInv
    <3>4. CASE ~(u = t /\ rc'[t] = rc[t])
      BY <2>5, <3>2, <3>4 DEF ReadClock, Refuse, Grant
    <3> QED BY <3>3, <3>4
  <2>6. ASSUME NEW t \in Tasks, MarkFails(t)
        PROVE  Explained(rc'[u], img', arg'[u], now'[u])
    BY <2>6 DEF MarkFails, Refuse
  <2>7. ASSUME NEW t \in Tasks, LoadMark(t)
        PROVE  Explained(rc'[u], img', arg'[u], now'[u])
    <3>1. Explained("CLOCK_ROLLBACK", img, arg[t], now[t])
      <4>1. StageInv(t)
        BY DEF PipelineInv
      <4>2. arg[t].device_id = ThisDevice /\ ~IsRevoked(img, arg[t])
        BY <2>7, <4>1 DEF LoadMark, StageInv, DeviceFailures, Status
      <4>3. /\ Genuine(img, arg[t]) /\ HasClock(img) /\ Enforced(img)
            /\ ~TooEarly(arg[t], now[t]) /\ ~TooLate(arg[t], now[t])
        BY <2>7, <4>1, <4>2 DEF LoadMark, StageInv, Genuine, WindowFailures, Status
      <4>4. "CLOCK_ROLLBACK" \notin HeaderStatus
        BY HeaderStatuses
      <4> QED
        BY <4>2, <4>3, <4>4 DEF Explained
    <3> QED
      BY <2>7, <3>1 DEF LoadMark, GrantMarked, Refuse, Grant
  <2>8. ASSUME NEW t \in Tasks, StoreMark(t)
        PROVE  Explained(rc'[u], img', arg'[u], now'[u])
    BY <2>8 DEF StoreMark, GrantMarked, Grant
  <2>9. CASE SetClock
    BY <2>9 DEF SetClock, local
  <2>10. CASE PowerCycle
    BY <2>10 DEF PowerCycle
  <2>11. CASE UNCHANGED vars
    BY <2>11 DEF vars, local
  <2> QED
    BY <2>1, <2>2, <2>3, <2>4, <2>5, <2>6, <2>7, <2>8, <2>9, <2>10, <2>11
       DEF Next, Step
<1> QED
  BY <1>1, <1>2, TypeCorrect, StagesHold, PTL DEF Spec

(* With one task, nothing but another verdict follows a write of the mark. *)
BelowMark(u) == rc[u] = "CLOCK_ROLLBACK" /\ Tasks = {u} => now[u] < mark

BelowMarkInv == \A u \in Tasks : BelowMark(u)

LEMMA RollbackBelowMark == Spec => []BelowMarkInv
<1>1. Init => BelowMarkInv
  BY NoneAssumption DEF Init, BelowMarkInv, BelowMark, Status
<1>2. TypeOK /\ PipelineInv /\ BelowMarkInv /\ [Next]_vars => BelowMarkInv'
  <2> SUFFICES ASSUME TypeOK, PipelineInv, BelowMarkInv, [Next]_vars, NEW u \in Tasks,
                      rc'[u] = "CLOCK_ROLLBACK", Tasks = {u}
               PROVE  now'[u] < mark'
    BY DEF BelowMarkInv, BelowMark
  <2>0. StageInv(u) /\ (rc[u] = "CLOCK_ROLLBACK" => now[u] < mark)
    BY DEF PipelineInv, BelowMarkInv, BelowMark
  <2>n. None # "CLOCK_ROLLBACK"
    BY NoneAssumption DEF Status
  <2>t. rc \in [Tasks -> Status \cup {None}] /\ now \in [Tasks -> Time]
    BY DEF TypeOK
  <2>1. ASSUME NEW b \in Blobs, Call(u, b) PROVE now'[u] < mark'
    <3>1. \A s : FirstOf(HeaderOrder, HeaderFailures(img, b), s) => s # "CLOCK_ROLLBACK"
      BY DEF FirstOf, HeaderFailures
    <3> QED
      BY <2>1, <2>n, <2>t, <3>1 DEF Call, Refuse
  <2>2. CASE IdentityFails(u)
    BY <2>2, <2>t, BlameAssumption DEF IdentityFails, Refuse
  <2>3. CASE BindDevice(u)
    <3>1. rc[u] = None
      BY <2>0, <2>3 DEF BindDevice, StageInv
    <3>2. \A s : FirstOf(DeviceOrder, DeviceFailures(img, arg[u]), s) => s # "CLOCK_ROLLBACK"
      BY DEF FirstOf, DeviceFailures
    <3> QED
      BY <2>3, <2>n, <2>t, <3>1, <3>2 DEF BindDevice, Refuse, Grant
  <2>4. CASE ClockFails(u)
    BY <2>4, <2>t DEF ClockFails, Refuse
  <2>5. CASE ReadClock(u)
    <3>1. rc[u] = None
      BY <2>0, <2>5 DEF ReadClock, StageInv
    <3>2. \A s : FirstOf(WindowOrder, WindowFailures(arg[u], clock), s) => s # "CLOCK_ROLLBACK"
      BY DEF FirstOf, WindowFailures
    <3> QED
      BY <2>5, <2>n, <2>t, <3>1, <3>2 DEF ReadClock, Refuse, Grant
  <2>6. CASE MarkFails(u)
    BY <2>6, <2>t DEF MarkFails, Refuse
  <2>7. CASE LoadMark(u)
    <3>1. rc[u] = None
      BY <2>0, <2>7 DEF LoadMark, StageInv
    <3> QED
      BY <2>7, <2>n, <2>t, <3>1 DEF LoadMark, GrantMarked, Refuse, Grant
  <2>8. CASE StoreMark(u)
    BY <2>8, <2>t DEF StoreMark, GrantMarked, Grant
  <2>9. CASE SetClock
    BY <2>0, <2>9 DEF SetClock, local
  <2>10. CASE PowerCycle
    BY <2>10, <2>n DEF PowerCycle
  <2>11. CASE UNCHANGED vars
    BY <2>0, <2>11 DEF vars, local
  <2>12. \A t \in Tasks : t = u
    OBVIOUS
  <2> QED
    BY <2>1, <2>2, <2>3, <2>4, <2>5, <2>6, <2>7, <2>8, <2>9, <2>10, <2>11, <2>12
       DEF Next, Step
<1> QED
  BY <1>1, <1>2, TypeCorrect, StagesHold, PTL DEF Spec

(* A refusal blames a check that fails, and one that blames revocation,    *)
(* the clock or rollback is given to a licence that is otherwise genuine,  *)
(* for any number of overlapping calls: the checks are never tried in      *)
(* another order.  With one task, a rollback is below the stored mark.     *)
THEOREM RefusalExplainedAlways == Spec => []RefusalExplained
<1>1. ExplainedInv /\ BelowMarkInv => RefusalExplained
  BY DEF ExplainedInv, BelowMarkInv, BelowMark, RefusalExplained
<1> QED
  BY <1>1, RefusalsBlame, RollbackBelowMark, PTL

-----------------------------------------------------------------------------
(* What moves the mark.                                                    *)

(* No text but a genuine, unrevoked licence inside its window ever writes  *)
(* the high-water mark, and it writes the instant it was judged at; for    *)
(* any number of overlapping calls and any failing callback or power cut.  *)
THEOREM MarkIsEarnedAlways == Spec => MarkIsEarned
<1> DEFINE Earned == \E t \in Tasks : /\ pc[t] = "store"
                                      /\ mark' = now[t]
                                      /\ Enforced(img)
                                      /\ Genuine(img, arg[t])
                                      /\ ~IsRevoked(img, arg[t])
                                      /\ WindowFailures(arg[t], now[t]) = {}
<1>1. TypeOK /\ PipelineInv /\ [Next]_vars => [Earned]_mark
  <2> SUFFICES ASSUME TypeOK, PipelineInv, [Next]_vars, mark' # mark PROVE Earned
    OBVIOUS
  <2>1. \E t \in Tasks : pc[t] = "store" /\ mark' = now[t]
    <3>1. ASSUME NEW t \in Tasks, Step(t)
          PROVE pc[t] = "store" /\ mark' = now[t]
      BY <3>1 DEF Step, IdentityFails, BindDevice, ClockFails, ReadClock, MarkFails,
                  LoadMark, StoreMark
    <3>2. ASSUME NEW t \in Tasks, NEW b \in Blobs, Call(t, b) PROVE FALSE
      BY <3>2 DEF Call
    <3>3. CASE PowerCycle
      BY <3>3 DEF PowerCycle
    <3> QED
      BY <3>1, <3>2, <3>3 DEF Next, SetClock, vars
  <2>2. PICK t \in Tasks : pc[t] = "store" /\ mark' = now[t]
    BY <2>1
  <2>3. StageInv(t)
    BY DEF PipelineInv
  <2>4. arg[t].device_id = ThisDevice /\ ~IsRevoked(img, arg[t])
    BY <2>2, <2>3 DEF StageInv, DeviceFailures, Status
  <2> QED
    BY <2>2, <2>3, <2>4 DEF StageInv, Genuine
<1> QED
  BY <1>1, TypeCorrect, StagesHold, PTL DEF Spec, MarkIsEarned

(* The inductive invariant behind rollback protection: the mark covers     *)
(* every granted instant, and a call about to write it is about to raise   *)
(* it.  Another call's store between load and store would break the second *)
(* part: hence OneTask.                                                    *)
MarkInv == MarkCoversGrants /\ StoreRaises

LEMMA MarkInvStep ==
  ASSUME OneTask, TypeOK, MarkInv, [Next]_vars
  PROVE  MarkInv' /\ mark' >= mark
<1> USE DEF MarkInv, MarkCoversGrants, StoreRaises, TypeOK, OneTask
<1>1. ASSUME NEW t \in Tasks, NEW b \in Blobs, Call(t, b)
      PROVE MarkInv' /\ mark' >= mark
  BY <1>1 DEF Call, Refuse, Goto
<1>2. ASSUME NEW t \in Tasks, IdentityFails(t) PROVE MarkInv' /\ mark' >= mark
  BY <1>2 DEF IdentityFails, Refuse, Goto
<1>3. ASSUME NEW t \in Tasks, BindDevice(t) PROVE MarkInv' /\ mark' >= mark
  BY <1>3 DEF BindDevice, Refuse, Grant, Goto
<1>4. ASSUME NEW t \in Tasks, ClockFails(t) PROVE MarkInv' /\ mark' >= mark
  BY <1>4 DEF ClockFails, Refuse, Goto
<1>5. ASSUME NEW t \in Tasks, ReadClock(t) PROVE MarkInv' /\ mark' >= mark
  BY <1>5 DEF ReadClock, Refuse, Grant, Goto
<1>6. ASSUME NEW t \in Tasks, MarkFails(t) PROVE MarkInv' /\ mark' >= mark
  BY <1>6 DEF MarkFails, Refuse, Goto
<1>7. ASSUME NEW t \in Tasks, LoadMark(t) PROVE MarkInv' /\ mark' >= mark
  BY <1>7 DEF LoadMark, GrantMarked, Refuse, Grant, Goto
<1>8. ASSUME NEW t \in Tasks, StoreMark(t) PROVE MarkInv' /\ mark' >= mark
  BY <1>8 DEF StoreMark, GrantMarked, Grant, Goto
<1>9. CASE SetClock
  BY <1>9 DEF SetClock, local
<1>10. CASE PowerCycle
  BY <1>10 DEF PowerCycle
<1>11. CASE UNCHANGED vars
  BY <1>11 DEF vars, local
<1> QED
  BY <1>1, <1>2, <1>3, <1>4, <1>5, <1>6, <1>7, <1>8, <1>9, <1>10, <1>11
     DEF Next, Step

(* Calls that do not overlap: no grant is ever above the stored mark, for  *)
(* every sequence of failures, power cuts and clock changes.               *)
THEOREM MarkCoversGrantsAlways ==
  ASSUME OneTask
  PROVE  Spec => []MarkCoversGrants
<1>1. Init => MarkInv
  BY DEF Init, MarkInv, MarkCoversGrants, StoreRaises
<1>2. TypeOK /\ MarkInv /\ [Next]_vars => MarkInv'
  BY MarkInvStep, OneTask
<1>3. MarkInv => MarkCoversGrants
  BY DEF MarkInv
<1> QED
  BY <1>1, <1>2, <1>3, TypeCorrect, PTL DEF Spec

(* Calls that do not overlap: the mark only ever rises.                    *)
THEOREM MarkNeverFallsAlways ==
  ASSUME OneTask
  PROVE  Spec => MarkNeverFalls
<1>1. Init => MarkInv
  BY DEF Init, MarkInv, MarkCoversGrants, StoreRaises
<1>2. TypeOK /\ MarkInv /\ [Next]_vars => MarkInv' /\ [mark' >= mark]_mark
  BY MarkInvStep, OneTask
<1> QED
  BY <1>1, <1>2, TypeCorrect, PTL DEF Spec, MarkNeverFalls

-----------------------------------------------------------------------------
(* The pipeline implements LicenceService: each step of one call is a      *)
(* question, a grant, a refusal or nothing to the caller.                  *)

(* A text that has passed every stage is one its holder is entitled to.    *)
LEMMA StagesEntitle ==
  ASSUME NEW i \in Images, NEW b \in Blobs, NEW n \in Time,
         HeaderFailures(i, b) = {},
         DeviceFailures(i, b) = {},
         HasClock(i) => WindowFailures(b, n) = {}
  PROVE  Service!Entitled(i, b, n)
<1>1. b.shape = "well_formed"
  BY BlobsAssumption DEF HeaderFailures, ArgumentsUsable, Shapes, Status
<1>2. b.family = i.family
  BY DEF HeaderFailures, Status
<1>3. \E k \in DOMAIN i.keys : i.keys[k].key_id = b.key_id /\ i.keys[k].key = b.signer
  BY DEF HeaderFailures, SignatureVerifies, FoundKey, Status
<1>4. b.device_id = ThisDevice /\ b.serial \notin i.revoked
  BY DEF DeviceFailures, IsRevoked, DenyList, Status
<1>5. "REQUIRE_CLOCK" \in i.flags => "now_epoch" \in i.hal
  BY DEF DeviceFailures, HasClock, Status
<1>6. "now_epoch" \in i.hal => /\ b.not_before = 0 \/ n >= b.not_before
                               /\ b.not_after = 0 \/ n <= b.not_after
  BY BlobsAssumption DEF WindowFailures, TooEarly, TooLate, HasClock, Status
<1> QED
  BY <1>1, <1>2, <1>3, <1>4, <1>5, <1>6 DEF Service!Entitled

(* Rollback protection is only in force on an image that has a clock.      *)
LEMMA EnforcedHasClock ==
  ASSUME NEW i, NEW b, HeaderFailures(i, b) = {}, Enforced(i)
  PROVE  HasClock(i)
BY DEF HeaderFailures, ArgumentsUsable, HasClock, Status

(* The answer the caller sees changes as one task's does.                  *)
LEMMA AnswerOf ==
  ASSUME NEW t \in Tasks, TypeOK,
         NEW p, NEW r,
         pc' = [pc EXCEPT ![t] = p], rc' = [rc EXCEPT ![t] = r]
  PROVE  [u \in Tasks |-> Answer(u)]' =
           [[u \in Tasks |-> Answer(u)] EXCEPT ![t] =
              IF p # "idle" THEN "pending" ELSE IF r = None THEN "none"
              ELSE IF r = "OK" THEN "granted" ELSE "refused"]
BY DEF TypeOK, Answer

(* Every step of the pipeline, for calls that do not overlap.              *)
LEMMA StepSimulation ==
  ASSUME OneTask, TypeOK, PipelineInv, MarkInv, [Next]_vars
  PROVE  [Service!Next]_Service!svars
<1> DEFINE answer == [u \in Tasks |-> Answer(u)]
<1>0. None \notin Status /\ None # "OK" /\ "OK" \in Status
  BY NoneAssumption DEF Status
<1> USE DEF Service!svars
<1>1. ASSUME NEW t \in Tasks, NEW s \in Status, s # "OK", pc[t] # "idle", Refuse(t, s),
             UNCHANGED <<img, arg, granted>>
      PROVE Service!Next
  <2>1. answer' = [answer EXCEPT ![t] = "refused"]
    BY <1>0, <1>1, AnswerOf DEF Refuse, Goto
  <2> QED
    BY <1>1, <2>1 DEF Service!Next, Service!Refuse, Answer
<1>2. ASSUME NEW t \in Tasks, NEW p, p # "idle", pc[t] # "idle", Goto(t, p),
             UNCHANGED <<img, arg, rc, granted>>
      PROVE UNCHANGED Service!svars
  <2>1. answer' = answer
    BY <1>2 DEF TypeOK, Goto, Answer
  <2> QED
    BY <1>2, <2>1
<1>3. ASSUME NEW t \in Tasks, NEW b \in Blobs, Call(t, b) PROVE Service!Next
  <2>1. answer[t] # "pending"
    BY <1>3 DEF Call, Answer
  <2>2. \E a \in {"pending", "refused"} : answer' = [answer EXCEPT ![t] = a]
    <3>1. \A s : FirstOf(HeaderOrder, HeaderFailures(img, b), s) => s # "OK"
      BY DEF FirstOf, HeaderFailures
    <3>2. CASE Goto(t, "identity") /\ rc' = [rc EXCEPT ![t] = None]
      BY <3>2, AnswerOf DEF Goto
    <3>3. ASSUME NEW s \in Status, s # "OK", Refuse(t, s)
          PROVE answer' = [answer EXCEPT ![t] = "refused"]
      BY <1>0, <3>3, AnswerOf DEF Refuse, Goto
    <3> QED
      BY <1>3, <3>1, <3>2, <3>3 DEF Call
  <2> QED
    BY <1>3, <2>1, <2>2 DEF Service!Next, Service!Ask, Call
<1>4. ASSUME NEW t \in Tasks, NEW n \in Time, NEW bits, pc[t] # "idle", Grant(t, bits),
             UNCHANGED <<img, arg>>,
             DeviceFailures(img, arg[t]) = {},
             HasClock(img) => WindowFailures(arg[t], n) = {},
             IF Enforced(img) THEN n >= granted /\ granted' = n ELSE UNCHANGED granted
      PROVE Service!Next
  <2>1. answer' = [answer EXCEPT ![t] = "granted"]
    BY <1>0, <1>4, AnswerOf DEF Grant, Goto
  <2>2. Service!Entitled(img, arg[t], n)
    BY <1>4, StagesEntitle DEF PipelineInv, StageInv, TypeOK
  <2> QED
    BY <1>4, <2>1, <2>2 DEF Service!Next, Service!Grant, Answer, Enforced
<1>5. ASSUME NEW t \in Tasks, IdentityFails(t) PROVE Service!Next
  BY <1>1, <1>5, ErrorAssumption DEF IdentityFails, Status
<1>6. ASSUME NEW t \in Tasks, BindDevice(t) PROVE [Service!Next]_Service!svars
  <2>1. \A s : FirstOf(DeviceOrder, DeviceFailures(img, arg[t]), s) => s # "OK"
    BY DEF FirstOf, DeviceFailures
  <2>2. ~HasClock(img) => ~Enforced(img)
    BY <1>6, EnforcedHasClock DEF BindDevice, PipelineInv, StageInv
  <2>3. 0 \in Time
    OBVIOUS
  <2> QED
    BY <1>1, <1>2, <1>4, <1>6, <2>1, <2>2, <2>3 DEF BindDevice
<1>7. ASSUME NEW t \in Tasks, ClockFails(t) PROVE Service!Next
  BY <1>1, <1>7 DEF ClockFails, Status
<1>8. ASSUME NEW t \in Tasks, ReadClock(t) PROVE [Service!Next]_Service!svars
  <2>1. \A s : FirstOf(WindowOrder, WindowFailures(arg[t], clock), s) => s # "OK"
    BY DEF FirstOf, WindowFailures
  <2>2. DeviceFailures(img, arg[t]) = {}
    BY <1>8 DEF ReadClock, PipelineInv, StageInv
  <2> QED
    BY <1>1, <1>2, <1>4, <1>8, <2>1, <2>2 DEF ReadClock, TypeOK
<1>9. ASSUME NEW t \in Tasks, MarkFails(t) PROVE Service!Next
  BY <1>1, <1>9 DEF MarkFails, Status
<1>10. ASSUME NEW t \in Tasks, pc[t] \in {"load", "store"}, now[t] >= mark, GrantMarked(t),
              UNCHANGED <<img, arg>>
       PROVE Service!Next
  <2>1. /\ DeviceFailures(img, arg[t]) = {}
        /\ WindowFailures(arg[t], now[t]) = {}
        /\ Enforced(img)
    BY <1>10 DEF PipelineInv, StageInv
  <2>2. now[t] >= granted /\ granted' = now[t]
    BY <1>10 DEF MarkInv, MarkCoversGrants, TypeOK, GrantMarked
  <2> QED
    BY <1>4, <1>10, <2>1, <2>2 DEF GrantMarked, TypeOK
<1>11. ASSUME NEW t \in Tasks, LoadMark(t) PROVE [Service!Next]_Service!svars
  <2>1. CASE now[t] < mark /\ Refuse(t, "CLOCK_ROLLBACK") /\ UNCHANGED granted
    BY <1>1, <1>11, <2>1 DEF LoadMark, Status
  <2>2. CASE now[t] = mark /\ GrantMarked(t)
    BY <1>10, <1>11, <2>2 DEF LoadMark, TypeOK
  <2>3. CASE Goto(t, "store") /\ UNCHANGED <<rc, granted>>
    BY <1>2, <1>11, <2>3 DEF LoadMark
  <2> QED
    BY <1>11, <2>1, <2>2, <2>3 DEF LoadMark
<1>12. ASSUME NEW t \in Tasks, StoreMark(t) PROVE Service!Next
  <2>1. now[t] >= mark
    BY <1>12 DEF StoreMark, MarkInv, StoreRaises, TypeOK
  <2> QED
    BY <1>10, <1>12, <2>1 DEF StoreMark
<1>13. CASE SetClock
  BY <1>13 DEF SetClock, local, Answer
<1>14. CASE PowerCycle
  BY <1>14 DEF PowerCycle, Service!Next, Service!Restart, Answer
<1>15. CASE UNCHANGED vars
  BY <1>15 DEF vars, local, Answer
<1> QED
  BY <1>3, <1>5, <1>6, <1>7, <1>8, <1>9, <1>11, <1>12, <1>13, <1>14, <1>15
     DEF Next, Step

(* Calls that do not overlap implement the service, for every image, text  *)
(* and bound on time, through every failing callback and power cut: a      *)
(* grant is always to an entitled holder and never before an earlier one.  *)
THEOREM Implementation ==
  ASSUME OneTask
  PROVE  Spec => ImplementsService
<1>1. Init => Service!Init
  BY DEF Init, Service!Init, Answer
<1>2. Init => MarkInv
  BY DEF Init, MarkInv, MarkCoversGrants, StoreRaises
<1>3. TypeOK /\ MarkInv /\ [Next]_vars => MarkInv'
  BY MarkInvStep, OneTask
<1>4. TypeOK /\ PipelineInv /\ MarkInv /\ [Next]_vars => [Service!Next]_Service!svars
  BY StepSimulation, OneTask
<1> QED
  BY <1>1, <1>2, <1>3, <1>4, TypeCorrect, StagesHold, PTL
     DEF Spec, ImplementsService, Service!Spec
=============================================================================
