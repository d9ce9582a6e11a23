---------------------------- MODULE DeviceProofs ----------------------------
(***************************************************************************)
(* What Fingerprint and Gate guarantee for every hardware, block size and  *)
(* number of changes of the hardware.                                      *)
(***************************************************************************)
EXTENDS Gate, HashProofs, WellFoundedInduction

Calls == [pc : {"idle", "reading", "ended", "failed"}, idx : 0 .. CountMax,
          accepted : 0 .. CountMax, ctx : Contexts]

(* Between two steps of a call the context holds what was read so far.     *)
CallInv ==
  /\ board \in Boards
  /\ hw \in Hardware(board)
  /\ pin \in Pins(board)
  /\ iface \in Ifaces
  /\ call \in Calls
  /\ call.accepted = call.idx
  /\ message \in Seq(Byte)
  /\ call.pc # "idle" => HasAbsorbed(call.ctx, message)
  /\ HashesItsSegments

LEMMA DomainAbsorbed == HasAbsorbed(HashUpdate(HashStart, Domain), Domain)
<1>1. <<>> \in Seq(Byte) /\ Domain \in Seq(Byte)
  BY DomainAssumption
<1>2. HasAbsorbed(HashUpdate(HashStart, Domain), <<>> \o Domain)
  BY <1>1, StartAbsorbs, UpdateAbsorbs
<1>3. <<>> \o Domain = Domain
  BY <1>1
<1> QED
  BY <1>2, <1>3

(* The cast of a length to its byte loses nothing.                         *)
LEMMA LengthIsByte ==
  ASSUME NEW len \in Nat, len <= SegMax
  PROVE  len \in Byte
BY SegMaxAssumption DEF Byte

(* One turn of the loop: the length byte, then the segment.                *)
LEMMA SegmentAbsorbed ==
  ASSUME NEW ctx, NEW m \in Seq(Byte), HasAbsorbed(ctx, m),
         NEW bytes \in Seq(Byte), NEW len, len = Len(bytes), len <= SegMax
  PROVE  /\ m \o <<len>> \o bytes \in Seq(Byte)
         /\ HasAbsorbed(HashUpdate(HashUpdate(ctx, <<len>>), bytes), m \o <<len>> \o bytes)
<1>1. len \in Byte
  <2>1. len \in Nat
    BY LenProperties
  <2> QED
    BY <2>1, LengthIsByte
<1>2. <<len>> \in Seq(Byte)
  BY <1>1
<1>3. m \o <<len>> \in Seq(Byte) /\ m \o <<len>> \o bytes \in Seq(Byte)
  BY <1>2
<1>4. HasAbsorbed(HashUpdate(ctx, <<len>>), m \o <<len>>)
  BY <1>2, UpdateAbsorbs
<1>5. HasAbsorbed(HashUpdate(HashUpdate(ctx, <<len>>), bytes), (m \o <<len>>) \o bytes)
  BY <1>3, <1>4, UpdateAbsorbs
<1> QED
  BY <1>3, <1>5

LEMMA NewCalls == Started \in Calls /\ Idle \in Calls
<1>1. HashUpdate(HashStart, Domain) \in Contexts /\ HashStart \in Contexts
  BY DomainAbsorbed, StartAbsorbs DEF HasAbsorbed
<1> QED
  BY <1>1, CountAssumption DEF Started, Idle, Calls

LEMMA InitCall == Init => CallInv
<1> SUFFICES ASSUME Init PROVE CallInv
  OBVIOUS
<1>1. /\ board \in Boards /\ hw \in Hardware(board) /\ pin \in Pins(board) /\ iface = pin
      /\ call = Idle /\ out = <<>> /\ message = Domain
  BY DEF Init, FpInit
<1>2. pin \in Ifaces
  BY <1>1, PinsAssumption
<1> QED
  BY <1>1, <1>2, NewCalls, DomainAssumption DEF CallInv, HashesItsSegments, Idle

LEMMA StepCall == CallInv /\ [Next]_vars => CallInv'
<1> SUFFICES ASSUME CallInv, [Next]_vars PROVE CallInv'
  OBVIOUS
<1> USE DEF CallInv
<1>1. CASE Begin
  BY <1>1, NewCalls, DomainAbsorbed, DomainAssumption DEF Begin, Started, machine, HashesItsSegments
<1>2. CASE ReadSegment
  <2>1. /\ call.pc = "reading" /\ call.idx < CountMax /\ call.idx \in 0 .. CountMax
        /\ HasAbsorbed(call.ctx, message)
    BY <1>2 DEF ReadSegment, Calls
  <2>2. PICK r \in {Segment(board, hw, iface, call.idx)} :
          /\ call' \in {TakeSegment(call, r)}
          /\ message' = IF r.st = "OK" /\ r.len <= SegMax THEN message \o <<r.len>> \o r.bytes
                                                          ELSE message
    BY <1>2 DEF ReadSegment
  <2>3. /\ iface' \in Ifaces
        /\ r.st = "OK" /\ r.len <= SegMax => r.bytes \in Seq(Byte) /\ r.len = Len(r.bytes)
    BY <1>2, <2>1, <2>2, AnswerAssumption DEF ReadSegment
  <2>4. UNCHANGED <<board, hw, pin, out>>
    BY <1>2 DEF ReadSegment
  <2>5. CASE r.st = "OK" /\ r.len <= SegMax
    <3>1. /\ message' = message \o <<r.len>> \o r.bytes
          /\ call' = [call EXCEPT !.idx = call.idx + 1, !.accepted = call.accepted + 1,
                        !.ctx = HashUpdate(HashUpdate(call.ctx, <<r.len>>), r.bytes)]
      BY <2>2, <2>5 DEF TakeSegment
    <3>2. /\ message' \in Seq(Byte)
          /\ HasAbsorbed(HashUpdate(HashUpdate(call.ctx, <<r.len>>), r.bytes), message')
      BY <2>1, <2>3, <2>5, <3>1, SegmentAbsorbed
    <3>3. HashUpdate(HashUpdate(call.ctx, <<r.len>>), r.bytes) \in Contexts
      BY <3>2 DEF HasAbsorbed
    <3>4. /\ call'.ctx = HashUpdate(HashUpdate(call.ctx, <<r.len>>), r.bytes)
          /\ call'.pc = "reading" /\ call'.idx = call.idx + 1 /\ call'.accepted = call'.idx
          /\ call' \in Calls
      <4> DEFINE ctx == HashUpdate(HashUpdate(call.ctx, <<r.len>>), r.bytes)
      <4>1. /\ call.idx + 1 \in 0 .. CountMax /\ call.accepted + 1 = call.idx + 1
            /\ ctx \in Contexts
            /\ call' = [call EXCEPT !.idx = call.idx + 1, !.accepted = call.accepted + 1,
                          !.ctx = ctx]
        BY <2>1, <3>1, <3>3, CountAssumption
      <4> HIDE DEF ctx
      <4>2. call \in Calls /\ call.pc = "reading"
        BY <2>1
      <4>3. call'.ctx = ctx /\ call'.pc = "reading" /\ call'.idx = call.idx + 1
            /\ call'.accepted = call.accepted + 1 /\ call' \in Calls
        BY ONLY <4>1, <4>2 DEF Calls
      <4> QED
        BY <4>1, <4>3 DEF ctx
    <3> QED
      BY <2>1, <2>3, <2>4, <3>2, <3>4 DEF HashesItsSegments
  <2>6. CASE ~ (r.st = "OK" /\ r.len <= SegMax)
    <3>1. /\ message' = message
          /\ call' = [call EXCEPT !.pc = IF r.st = "NO_MORE_SEGMENTS" THEN "ended" ELSE "failed"]
      BY <2>2, <2>6 DEF TakeSegment
    <3>2. /\ call'.ctx = call.ctx /\ call'.accepted = call'.idx
          /\ call' \in Calls /\ call'.pc # "idle"
      BY <2>1, <3>1 DEF Calls
    <3> QED
      BY <2>1, <2>3, <2>4, <3>1, <3>2 DEF HashesItsSegments
  <2> QED
    BY <2>5, <2>6
<1>3. CASE Return
  <2>1. call.pc # "idle" /\ call' = Idle /\ out' = Result(call) /\ UNCHANGED <<machine, message>>
    BY <1>3 DEF Return
  <2>2. out' # <<>> => out' = HashFinal(call.ctx)
    BY <2>1 DEF Result
  <2>3. out' # <<>> => IsPadded(message', out')
    BY <2>1, <2>2, FinalPads
  <2> QED
    BY <2>1, <2>3, NewCalls DEF Idle, machine, HashesItsSegments
<1>4. CASE HardwareChanges
  BY <1>4 DEF HardwareChanges, HashesItsSegments
<1>5. CASE Restart
  <2>1. pin \in Ifaces
    BY PinsAssumption
  <2> QED
    BY <1>5, <2>1, NewCalls, DomainAssumption DEF Restart, Idle, HashesItsSegments
<1>6. CASE UNCHANGED fpVars
  BY <1>6 DEF fpVars, HashesItsSegments
<1> QED
  BY <1>1, <1>2, <1>3, <1>4, <1>5, <1>6
     DEF Next, Fingerprinting, Changing, FpStep, PowerCycle, GateInit, Mint, AllowsStatus,
         AllowsFeature, Save, Line, vars

(* vl_compute_fingerprint() returns the hash of the domain and of exactly  *)
(* the segments it read, whatever happens to the hardware meanwhile.       *)
THEOREM FingerprintIsOfItsSegments == Spec => []HashesItsSegments
<1>1. CallInv => HashesItsSegments
  BY DEF CallInv
<1> QED
  BY <1>1, InitCall, StepCall, PTL DEF Spec

-----------------------------------------------------------------------------
(* Numbers: every set of them has a least one, and what holds of 0 and is  *)
(* passed on holds of all.                                                 *)
LEMMA LeastNumber ==
  ASSUME NEW S \in SUBSET Nat, S # {}
  PROVE  \E n \in S : \A m \in S : n <= m
<1> DEFINE R == {ss \in Nat \X Nat : ss[1] < ss[2]}
<1>1. IsWellFoundedOn(R, Nat)
  BY NatLessThanWellFounded DEF OpToRel
<1>2. PICK n \in S : \A m \in S : ~(<<m, n>> \in R)
  BY <1>1, WFMin
<1>3. \A m \in S : ~(m < n)
  BY <1>2
<1> QED
  BY <1>3

LEMMA InSteps ==
  ASSUME NEW P, 0 \in P, \A n \in Nat : n \in P => n + 1 \in P
  PROVE  Nat \subseteq P
<1> DEFINE S == {n \in Nat : n \notin P}
<1>1. SUFFICES ASSUME S # {} PROVE FALSE
  OBVIOUS
<1>2. PICK n \in S : \A m \in S : n <= m
  BY <1>1, LeastNumber
<1>3. n # 0 /\ n - 1 \in Nat /\ n - 1 \notin S
  BY <1>2
<1> QED
  BY <1>3

-----------------------------------------------------------------------------
(* pick_iface().                                                           *)

(* There is a best interface whenever there is a candidate.                *)
LEMMA BestExists ==
  ASSUME NEW h \in Hardware("linux"), Candidates(h) # {}
  PROVE  \E i \in Candidates(h) : \A j \in Candidates(h) :
            \/ Score(h.up[j]) < Score(h.up[i])
            \/ Score(h.up[j]) = Score(h.up[i]) /\ i <= j
<1> DEFINE C(s) == {i \in Candidates(h) : Score(h.up[i]) = s}
<1>1. Candidates(h) \in SUBSET Nat
  <2>1. h.up \in Seq(Ifaces)
    BY HardwareAssumption DEF Boards
  <2> QED
    BY <2>1 DEF Candidates
<1>2. \A i \in Candidates(h) : Score(h.up[i]) \in {100, 90, 50, 1}
  BY DEF Score
<1>3. PICK s \in {100, 90, 50, 1} : C(s) # {} /\ \A i \in Candidates(h) : Score(h.up[i]) <= s
  <2>1. CASE C(100) # {}
    BY <1>2, <2>1
  <2>2. CASE C(100) = {} /\ C(90) # {}
    BY <1>2, <2>2
  <2>3. CASE C(100) = {} /\ C(90) = {} /\ C(50) # {}
    BY <1>2, <2>3
  <2>4. CASE C(100) = {} /\ C(90) = {} /\ C(50) = {}
    BY <1>2, <2>4
  <2> QED
    BY <2>1, <2>2, <2>3, <2>4
<1>4. PICK i \in C(s) : \A j \in C(s) : i <= j
  BY <1>1, <1>3, LeastNumber
<1> QED
  BY <1>2, <1>3, <1>4

LEMMA PickIsBest ==
  ASSUME NEW h \in Hardware("linux"), Candidates(h) # {}
  PROVE  \E i \in Candidates(h) :
            /\ PickIface(h) = h.up[i]
            /\ \A j \in Candidates(h) :
                 \/ Score(h.up[j]) < Score(h.up[i])
                 \/ Score(h.up[j]) = Score(h.up[i]) /\ i <= j
<1> DEFINE best == CHOOSE i \in Candidates(h) : \A j \in Candidates(h) :
                     \/ Score(h.up[j]) < Score(h.up[i])
                     \/ Score(h.up[j]) = Score(h.up[i]) /\ i <= j
<1>1. /\ best \in Candidates(h)
      /\ \A j \in Candidates(h) : \/ Score(h.up[j]) < Score(h.up[best])
                                  \/ Score(h.up[j]) = Score(h.up[best]) /\ best <= j
  BY BestExists
<1>2. PickIface(h) = h.up[best]
  BY DEF PickIface
<1> QED
  BY <1>1, <1>2

LEMMA OrderIs ==
  ASSUME NEW h, NEW x, NEW y
  PROVE  <<x, y>> \in Order(h) <=> \E j, k \in Own(h) : j <= k /\ h.up[j] = x /\ h.up[k] = y
<1> DEFINE Pairs == {q \in Own(h) \X Own(h) : q[1] <= q[2]}
<1>1. ASSUME <<x, y>> \in Order(h)
      PROVE  \E j, k \in Own(h) : j <= k /\ h.up[j] = x /\ h.up[k] = y
  <2>1. PICK p \in Pairs : <<x, y>> = <<h.up[p[1]], h.up[p[2]]>>
    BY <1>1 DEF Order
  <2> QED
    BY <2>1
<1>2. ASSUME NEW j \in Own(h), NEW k \in Own(h), j <= k, h.up[j] = x, h.up[k] = y
      PROVE  <<x, y>> \in Order(h)
  <2>1. <<j, k>> \in Pairs
    BY <1>2
  <2> QED
    BY <1>2, <2>1 DEF Order
<1> QED
  BY <1>1, <1>2

(* Which interface is chosen depends on those the machine has by itself,   *)
(* and on their order: a container that comes or goes changes nothing.     *)
LEMMA PickOfOrder ==
  ASSUME NEW g \in Hardware("linux"), NEW h \in Hardware("linux"),
         g.unit = h.unit, Order(g) = Order(h)
  PROVE  /\ Candidates(g) = {} <=> Candidates(h) = {}
         /\ Candidates(g) # {} => PickIface(g) = PickIface(h)
<1>1. /\ g.up \in Seq(Ifaces) /\ \A j, k \in DOMAIN g.up : g.up[j] = g.up[k] => j = k
      /\ h.up \in Seq(Ifaces) /\ \A j, k \in DOMAIN h.up : h.up[j] = h.up[k] => j = k
  BY HardwareAssumption DEF Boards
<1>a. \A n \in Ifaces : Mac(g, n) = Mac(h, n)
  BY DEF Mac
<1>b. \A i \in DOMAIN g.up : g.up[i] \in Ifaces
  BY <1>1
<1>c. \A i \in DOMAIN h.up : h.up[i] \in Ifaces
  BY <1>1
<1>2. Candidates(g) \subseteq Own(g) /\ Candidates(h) \subseteq Own(h)
  BY DEF Candidates, Own
<1>3. Own(g) \subseteq Nat /\ Own(h) \subseteq Nat
  BY <1>1 DEF Own
<1>4. ASSUME NEW i \in Candidates(g) PROVE \E j \in Candidates(h) : h.up[j] = g.up[i]
  <2>1. <<g.up[i], g.up[i]>> \in Order(g)
    BY <1>2, <1>3, <1>4, OrderIs
  <2>2. PICK j \in Own(h) : h.up[j] = g.up[i]
    BY <2>1, OrderIs
  <2>3. ~AllSame(Mac(h, h.up[j]), 0)
    BY <1>a, <1>b, <1>4, <2>2 DEF Candidates
  <2> QED
    BY <2>2, <2>3 DEF Candidates, Own
<1>5. ASSUME NEW i \in Candidates(h) PROVE \E j \in Candidates(g) : g.up[j] = h.up[i]
  <2>1. <<h.up[i], h.up[i]>> \in Order(h)
    BY <1>2, <1>3, <1>5, OrderIs
  <2>2. PICK j \in Own(g) : g.up[j] = h.up[i]
    BY <2>1, OrderIs
  <2>3. ~AllSame(Mac(g, g.up[j]), 0)
    BY <1>a, <1>c, <1>5, <2>2 DEF Candidates
  <2> QED
    BY <2>2, <2>3 DEF Candidates, Own
<1>6. ASSUME Candidates(g) # {} PROVE PickIface(g) = PickIface(h)
  <2>0. Candidates(h) # {}
    BY <1>4, <1>6
  <2>1. PICK p \in Candidates(g) :
          /\ PickIface(g) = g.up[p]
          /\ \A j \in Candidates(g) : \/ Score(g.up[j]) < Score(g.up[p])
                                      \/ Score(g.up[j]) = Score(g.up[p]) /\ p <= j
    BY <1>6, PickIsBest
  <2>2. PICK q \in Candidates(h) :
          /\ PickIface(h) = h.up[q]
          /\ \A j \in Candidates(h) : \/ Score(h.up[j]) < Score(h.up[q])
                                      \/ Score(h.up[j]) = Score(h.up[q]) /\ q <= j
    BY <2>0, PickIsBest
  <2>3. PICK r \in Candidates(g) : g.up[r] = h.up[q]
    BY <1>5
  <2>4. PICK s \in Candidates(h) : h.up[s] = g.up[p]
    BY <1>4
  <2>5. Score(g.up[p]) \in Int /\ Score(h.up[q]) \in Int
    BY DEF Score
  <2>6. p <= r /\ q <= s
    <3>1. \/ Score(h.up[q]) < Score(g.up[p])
          \/ Score(h.up[q]) = Score(g.up[p]) /\ p <= r
      BY <2>1, <2>3
    <3>2. \/ Score(g.up[p]) < Score(h.up[q])
          \/ Score(g.up[p]) = Score(h.up[q]) /\ q <= s
      BY <2>2, <2>4
    <3> QED
      BY <2>5, <3>1, <3>2
  <2>7. <<g.up[p], g.up[r]>> \in Order(h)
    BY <1>2, <2>6, OrderIs
  <2>8. PICK j, k \in Own(h) : j <= k /\ h.up[j] = g.up[p] /\ h.up[k] = g.up[r]
    BY <2>7, OrderIs
  <2>9. j = s /\ k = q
    BY <1>1, <2>3, <2>4, <2>8 DEF Own, Candidates
  <2>10. s = q
    BY <1>2, <1>3, <2>6, <2>8, <2>9
  <2> QED
    BY <2>1, <2>2, <2>4, <2>10
<1> QED
  BY <1>4, <1>5, <1>6

-----------------------------------------------------------------------------
(* What a Linux board answers depends on the interface it takes, on        *)
(* whether that is there, its address, and the two ids.                    *)
LEMMA LinuxTells ==
  ASSUME NEW g, NEW i, NEW h, NEW j, NEW name,
         IfaceAfter("linux", g, i, 0) = name, IfaceAfter("linux", h, j, 0) = name,
         name \in Up(g) <=> name \in Up(h),
         Mac(g, name) = Mac(h, name),
         MachineId(g) = MachineId(h), BoardSerial(g) = BoardSerial(h)
  PROVE  \A n : Segment("linux", g, i, n) = Segment("linux", h, j, n)
<1>1. ASSUME NEW n PROVE LinuxSegment(g, i, n) = LinuxSegment(h, j, n)
  <2>1. CASE n = 0
    <3>1. CASE name \notin Up(g)
      BY <2>1, <3>1 DEF LinuxSegment
    <3>2. CASE name \in Up(g)
      BY <2>1, <3>2 DEF LinuxSegment
    <3> QED
      BY <3>1, <3>2
  <2>2. CASE n # 0
    BY <2>2 DEF LinuxSegment
  <2> QED
    BY <2>1, <2>2
<1>2. \A k, x, n : Segment("linux", k, x, n) = LinuxSegment(k, x, n)
  BY DEF Segment
<1> QED
  BY <1>1, <1>2

(* The choice of an interface changes no answer of the board: it is the    *)
(* one that would be chosen again.                                         *)
LEMMA ChoiceStands ==
  ASSUME NEW b, NEW h, NEW i, NEW n, NEW m
  PROVE  Segment(b, h, IfaceAfter(b, h, i, n), m) = Segment(b, h, i, m)
<1>1. CASE IfaceAfter(b, h, i, n) = i
  BY <1>1
<1>2. CASE b = "linux" /\ i = "" /\ Candidates(h) # {} /\ IfaceAfter(b, h, i, n) = PickIface(h)
  <2>1. IfaceAfter("linux", h, PickIface(h), 0) = IfaceAfter("linux", h, i, 0)
    BY <1>2 DEF IfaceAfter
  <2> QED
    <3> DEFINE name == IfaceAfter("linux", h, i, 0)
               j    == PickIface(h)
    <3>1. \A x : Segment("linux", h, j, x) = Segment("linux", h, i, x)
      <4>1. IfaceAfter("linux", h, j, 0) = name /\ IfaceAfter("linux", h, i, 0) = name
        BY <2>1
      <4> HIDE DEF name, j
      <4> QED
        BY <4>1, LinuxTells
    <3> QED
      BY <1>2, <3>1
<1> QED
  BY <1>1, <1>2 DEF IfaceAfter

(* Hardware that is the same in what the fingerprint is taken from answers *)
(* the same.                                                               *)
LEMMA SourcesTell ==
  ASSUME NEW b, NEW g \in Hardware(b), NEW h \in Hardware(b), NEW i, NEW n,
         g.unit = h.unit, Sources(b, g, i) = Sources(b, h, i)
  PROVE  Segment(b, g, i, n) = Segment(b, h, i, n)
<1>1. CASE b # "linux"
  BY <1>1 DEF Sources
<1>2. CASE b = "linux"
  <2>1. /\ MachineId(g) = MachineId(h) /\ BoardSerial(g) = BoardSerial(h)
        /\ i # "" => (i \in Up(g) <=> i \in Up(h))
        /\ i = "" => Order(g) = Order(h)
    BY <1>2 DEF Sources
  <2>2. \A name : Mac(g, name) = Mac(h, name)
    BY DEF Mac
  <2>3. CASE i # ""
    <3>1. IfaceAfter("linux", g, i, 0) = i /\ IfaceAfter("linux", h, i, 0) = i
      BY <2>3 DEF IfaceAfter
    <3>2. /\ i \in Up(g) <=> i \in Up(h)
          /\ MachineId(g) = MachineId(h) /\ BoardSerial(g) = BoardSerial(h)
      BY <2>1, <2>3
    <3>3. \A k : Segment("linux", g, i, k) = Segment("linux", h, i, k)
      BY <2>2, <3>1, <3>2, LinuxTells
    <3> QED
      BY <1>2, <3>3
  <2>4. CASE i = "" /\ Candidates(g) # {}
    <3>1. Candidates(h) # {} /\ PickIface(g) = PickIface(h)
      BY <1>2, <2>1, <2>4, PickOfOrder
    <3>2. PickIface(g) \in Up(g) /\ PickIface(h) \in Up(h)
      BY <1>2, <2>4, <3>1, PickIsBest DEF Candidates, Up
    <3>3. IfaceAfter("linux", g, i, 0) = PickIface(g) /\ IfaceAfter("linux", h, i, 0) = PickIface(g)
      BY <2>4, <3>1 DEF IfaceAfter
    <3>4. \A k : Segment("linux", g, i, k) = Segment("linux", h, i, k)
      <4> DEFINE name == PickIface(g)
      <4>1. /\ IfaceAfter("linux", g, i, 0) = name /\ IfaceAfter("linux", h, i, 0) = name
            /\ name \in Up(g) /\ name \in Up(h)
            /\ MachineId(g) = MachineId(h) /\ BoardSerial(g) = BoardSerial(h)
        BY <2>1, <3>1, <3>2, <3>3
      <4> HIDE DEF name
      <4> QED
        BY <2>2, <4>1, LinuxTells
    <3> QED
      BY <1>2, <3>4
  <2>5. CASE i = "" /\ Candidates(g) = {}
    <3>1. Candidates(h) = {}
      BY <1>2, <2>1, <2>5, PickOfOrder
    <3>2. IfaceAfter("linux", g, i, 0) = "" /\ IfaceAfter("linux", h, i, 0) = ""
      BY <2>5, <3>1 DEF IfaceAfter
    <3>3. \A k \in {g, h} : ~AllSame(Mac(k, ""), 0) /\ "" \notin Virtual
      BY DEF AllSame, Mac, Virtual
    <3>4. "" \notin Up(g) /\ "" \notin Up(h)
      BY <2>5, <3>1, <3>3 DEF Up, Candidates
    <3>5. MachineId(g) = MachineId(h) /\ BoardSerial(g) = BoardSerial(h)
      BY <2>1
    <3>6. \A name : IfaceAfter("linux", g, i, 0) = name /\ IfaceAfter("linux", h, i, 0) = name
                      /\ name \notin Up(g) /\ name \notin Up(h)
            => \A k : Segment("linux", g, i, k) = Segment("linux", h, i, k)
      BY <2>2, <3>5, LinuxTells
    <3>7. \A k : Segment("linux", g, i, k) = Segment("linux", h, i, k)
      BY <3>2, <3>4, <3>6
    <3> QED
      BY <1>2, <3>7
  <2> QED
    BY <2>3, <2>4, <2>5
<1> QED
  BY <1>1, <1>2

-----------------------------------------------------------------------------
(* What a call that nothing disturbs has hashed when it has read k         *)
(* segments of a board: the messages after each of them, from the domain.  *)
Accepted(r) == r.st = "OK" /\ r.len <= SegMax

Grows(f, k, b, h, i) ==
  /\ f[0] = Domain
  /\ \A n \in 1 .. k : f[n] = f[n - 1] \o <<Segment(b, h, i, n - 1).len>>
                                       \o Segment(b, h, i, n - 1).bytes

Reads(m, k, b, h, i) ==
  /\ k \in 0 .. CountMax
  /\ \A n \in 0 .. k - 1 : Accepted(Segment(b, h, i, n))
  /\ \E f : Grows(f, k, b, h, i) /\ f[k] = m

(* There is no further segment to read.                                    *)
AtEnd(k, b, h, i) == k < CountMax => Segment(b, h, i, k).st = "NO_MORE_SEGMENTS"

LEMMA ReadsNothing ==
  ASSUME NEW b, NEW h, NEW i
  PROVE  Reads(Domain, 0, b, h, i)
<1> DEFINE f == [n \in {0} |-> Domain]
<1>1. Grows(f, 0, b, h, i) /\ f[0] = Domain
  BY DEF Grows
<1> QED
  BY <1>1, CountAssumption DEF Reads

LEMMA ReadsOneMore ==
  ASSUME NEW m, NEW k, NEW b, NEW h, NEW i, NEW r,
         Reads(m, k, b, h, i), k < CountMax, r = Segment(b, h, i, k), Accepted(r)
  PROVE  Reads(m \o <<r.len>> \o r.bytes, k + 1, b, h, i)
<1>1. PICK f : Grows(f, k, b, h, i) /\ f[k] = m
  BY DEF Reads
<1>2. k \in Nat
  BY CountAssumption DEF Reads
<1> DEFINE g == [n \in 0 .. k + 1 |-> IF n <= k THEN f[n] ELSE m \o <<r.len>> \o r.bytes]
<1>3. g[0] = Domain
  BY <1>1, <1>2 DEF Grows
<1>4. ASSUME NEW n \in 1 .. k + 1
      PROVE  g[n] = g[n - 1] \o <<Segment(b, h, i, n - 1).len>> \o Segment(b, h, i, n - 1).bytes
  <2>1. CASE n <= k
    <3>1. n \in 1 .. k /\ n - 1 \in 0 .. k
      BY <1>2, <2>1
    <3>2. g[n] = f[n] /\ g[n - 1] = f[n - 1]
      BY <1>2, <2>1, <3>1
    <3> QED
      BY <1>1, <3>1, <3>2 DEF Grows
  <2>2. CASE n = k + 1
    <3>1. n - 1 = k /\ n \in 0 .. k + 1 /\ ~ n <= k
      BY <1>2, <2>2
    <3>2. g[n] = m \o <<r.len>> \o r.bytes
      BY <3>1
    <3>3. g[n - 1] = m
      BY <1>1, <1>2, <3>1
    <3> HIDE DEF g
    <3> QED
      BY <3>1, <3>2, <3>3
  <2>3. n <= k \/ n = k + 1
    BY <1>2
  <2> HIDE DEF g
  <2> QED
    BY <2>1, <2>2, <2>3
<1>5. g[k + 1] = m \o <<r.len>> \o r.bytes
  <2>1. k + 1 \in 0 .. k + 1 /\ ~ k + 1 <= k
    BY <1>2
  <2> QED
    BY <2>1
<1>6. Grows(g, k + 1, b, h, i)
  <2> HIDE DEF g
  <2>1. \A n \in 1 .. k + 1 :
          g[n] = g[n - 1] \o <<Segment(b, h, i, n - 1).len>> \o Segment(b, h, i, n - 1).bytes
    BY <1>4
  <2> QED
    BY <1>3, <2>1, Zenon DEF Grows
<1>7. \A n \in 0 .. k : Accepted(Segment(b, h, i, n))
  BY <1>2 DEF Reads
<1> HIDE DEF g
<1>8. \E e : Grows(e, k + 1, b, h, i) /\ e[k + 1] = m \o <<r.len>> \o r.bytes
  BY <1>5, <1>6
<1>9. k + 1 \in 0 .. CountMax /\ (k + 1) - 1 = k
  BY <1>2, CountAssumption
<1> QED
  BY <1>7, <1>8, <1>9, Zenon DEF Reads

(* A board tells one thing: the message is determined, and so is its end.  *)
LEMMA ReadsOneMessage ==
  ASSUME NEW b, NEW h, NEW i, NEW m, NEW k, NEW n, NEW l,
         Reads(m, k, b, h, i), AtEnd(k, b, h, i),
         Reads(n, l, b, h, i), AtEnd(l, b, h, i)
  PROVE  m = n
<1>1. k \in Nat /\ l \in Nat /\ k <= CountMax /\ l <= CountMax
  BY CountAssumption DEF Reads
<1>2. k = l
  <2>1. CASE k < l
    <3>1. Accepted(Segment(b, h, i, k))
      BY <1>1, <2>1 DEF Reads
    <3> QED
      BY <1>1, <2>1, <3>1, CountAssumption DEF AtEnd, Accepted
  <2>2. CASE l < k
    <3>1. Accepted(Segment(b, h, i, l))
      BY <1>1, <2>2 DEF Reads
    <3> QED
      BY <1>1, <2>2, <3>1, CountAssumption DEF AtEnd, Accepted
  <2> QED
    BY <1>1, <2>1, <2>2
<1>3. PICK f : Grows(f, k, b, h, i) /\ f[k] = m
  BY DEF Reads
<1>4. PICK g : Grows(g, k, b, h, i) /\ g[k] = n
  BY <1>2 DEF Reads
<1> DEFINE P == {j \in Nat : j <= k => f[j] = g[j]}
<1>5. 0 \in P
  BY <1>3, <1>4 DEF Grows
<1>6. ASSUME NEW j \in Nat, j \in P PROVE j + 1 \in P
  <2> SUFFICES ASSUME j + 1 <= k PROVE f[j + 1] = g[j + 1]
    OBVIOUS
  <2>1. j + 1 \in 1 .. k /\ (j + 1) - 1 = j /\ f[j] = g[j]
    BY <1>1, <1>6
  <2> QED
    BY <1>3, <1>4, <2>1 DEF Grows
<1>7. k \in P
  <2> HIDE DEF P
  <2> QED
    BY <1>1, <1>5, <1>6, InSteps
<1> QED
  BY <1>1, <1>3, <1>4, <1>7

LEMMA SameReads ==
  ASSUME NEW b, NEW g, NEW i, NEW h, NEW j,
         \A n : Segment(b, g, i, n) = Segment(b, h, j, n)
  PROVE  \A m, k : /\ Reads(m, k, b, g, i) <=> Reads(m, k, b, h, j)
                   /\ AtEnd(k, b, g, i) <=> AtEnd(k, b, h, j)
BY DEF Reads, AtEnd, Grows

(* A fingerprint that this board shows, whenever it is asked.              *)
Shows(fp, b, h, i) ==
  \E m \in Seq(Byte), k \in Nat :
    /\ Reads(m, k, b, h, i) /\ AtEnd(k, b, h, i)
    /\ IsPadded(m, fp) /\ \E S : fp \in Seq(S)

LEMMA ShowsOne ==
  ASSUME NEW b, NEW h, NEW i, NEW x, NEW y, Shows(x, b, h, i), Shows(y, b, h, i)
  PROVE  x = y
<1>1. PICK m \in Seq(Byte), k \in Nat :
        /\ Reads(m, k, b, h, i) /\ AtEnd(k, b, h, i)
        /\ IsPadded(m, x) /\ \E S : x \in Seq(S)
  BY DEF Shows
<1>2. PICK n \in Seq(Byte), l \in Nat :
        /\ Reads(n, l, b, h, i) /\ AtEnd(l, b, h, i)
        /\ IsPadded(n, y) /\ \E S : y \in Seq(S)
  BY DEF Shows
<1>3. m = n
  BY <1>1, <1>2, ReadsOneMessage
<1> QED
  BY <1>1, <1>2, <1>3, PaddingIsUnique

LEMMA SameShows ==
  ASSUME NEW b, NEW g, NEW i, NEW h, NEW j,
         \A n : Segment(b, g, i, n) = Segment(b, h, j, n)
  PROVE  \A fp : Shows(fp, b, g, i) <=> Shows(fp, b, h, j)
BY SameReads, Zenon DEF Shows

(* The invariant behind a steady identity: a call that nothing disturbed   *)
(* has read what the board tells now, and the fingerprint it owes is the   *)
(* one the board would show now, though the interface was chosen since.    *)
Undisturbed ==
  clean /\ call.pc # "idle" =>
    /\ Reads(message, call.idx, board, hw, iface)
    /\ call.pc = "ended" => AtEnd(call.idx, board, hw, iface)

SteadyInv ==
  /\ iface = pin \/ (board = "linux" /\ pin = "")
  /\ Undisturbed
  /\ known # <<>> => Shows(known, board, hw, iface)

Steady == known # <<>> /\ known' # <<>> => known' = known

LEMMA InitSteady == Init => SteadyInv
BY DEF Init, FpInit, Idle, SteadyInv, Undisturbed

(* Hardware, interface and process go on as before as far as the board's   *)
(* answers tell.                                                           *)
LEMMA SameAnswers ==
  ASSUME SteadyInv, board' = board,
         \A n : Segment(board, hw, iface, n) = Segment(board, hw', iface', n)
  PROVE  /\ \A m, k : /\ Reads(m, k, board, hw, iface) <=> Reads(m, k, board', hw', iface')
                      /\ AtEnd(k, board, hw, iface) <=> AtEnd(k, board', hw', iface')
         /\ known # <<>> => Shows(known, board', hw', iface')
BY SameReads, SameShows, Zenon DEF SteadyInv

LEMMA ReadSteady ==
  ASSUME CallInv, SteadyInv, ReadSegment
  PROVE  SteadyInv' /\ Steady
<1> DEFINE r == Segment(board, hw, iface, call.idx)
<1>1. /\ call.pc = "reading" /\ call.idx < CountMax
      /\ call' = TakeSegment(call, r)
      /\ message' = IF Accepted(r) THEN message \o <<r.len>> \o r.bytes ELSE message
      /\ iface' = IfaceAfter(board, hw, iface, call.idx)
      /\ UNCHANGED <<board, pin, hw, known, clean>>
  BY Zenon DEF ReadSegment, Accepted
<1>2. \A n : Segment(board, hw, iface, n) = Segment(board, hw', iface', n)
  BY <1>1, ChoiceStands
<1>3. /\ \A m, k : /\ Reads(m, k, board, hw, iface) <=> Reads(m, k, board', hw', iface')
                   /\ AtEnd(k, board, hw, iface) <=> AtEnd(k, board', hw', iface')
      /\ known # <<>> => Shows(known, board', hw', iface')
  BY <1>1, <1>2, SameAnswers
<1>4. ASSUME clean, call'.pc # "idle"
      PROVE  /\ Reads(message', call'.idx, board, hw, iface)
             /\ call'.pc = "ended" => AtEnd(call'.idx, board, hw, iface)
  <2>1. Reads(message, call.idx, board, hw, iface)
    BY <1>1, <1>4 DEF SteadyInv, Undisturbed
  <2>2. call \in Calls
    BY DEF CallInv
  <2>3. CASE Accepted(r)
    <3>1. call'.idx = call.idx + 1 /\ call'.pc = "reading"
      BY <1>1, <2>2, <2>3 DEF TakeSegment, Accepted, Calls
    <3>2. Reads(message \o <<r.len>> \o r.bytes, call.idx + 1, board, hw, iface)
      BY <1>1, <2>1, <2>3, ReadsOneMore
    <3> QED
      BY <1>1, <2>3, <3>1, <3>2
  <2>4. CASE ~Accepted(r)
    <3>1. /\ call'.idx = call.idx
          /\ call'.pc = IF r.st = "NO_MORE_SEGMENTS" THEN "ended" ELSE "failed"
      BY <1>1, <2>2, <2>4 DEF TakeSegment, Accepted, Calls
    <3> QED
      BY <1>1, <2>1, <2>4, <3>1 DEF AtEnd
  <2> QED
    BY <2>3, <2>4
<1>5. Undisturbed'
  BY <1>1, <1>3, <1>4 DEF Undisturbed
<1>6. iface' = pin' \/ (board' = "linux" /\ pin' = "")
  BY <1>1 DEF SteadyInv, IfaceAfter
<1> QED
  BY <1>1, <1>3, <1>5, <1>6 DEF SteadyInv, Steady

LEMMA ReturnSteady ==
  ASSUME CallInv, SteadyInv, Return
  PROVE  SteadyInv' /\ Steady
<1>1. /\ call.pc \in {"ended", "failed"} \/ (call.pc = "reading" /\ call.idx = CountMax)
      /\ out' = Result(call) /\ call' = Idle
      /\ known' = IF clean /\ out' # <<>> THEN out' ELSE known
      /\ UNCHANGED <<board, pin, hw, iface, clean>>
  BY DEF Return, machine
<1>2. ASSUME clean, out' # <<>> PROVE Shows(out', board, hw, iface)
  <2>1. call.pc # "failed" /\ out' = HashFinal(call.ctx)
    BY <1>1, <1>2 DEF Result
  <2>2. Reads(message, call.idx, board, hw, iface) /\ AtEnd(call.idx, board, hw, iface)
    <3>1. call.pc = "ended" \/ call.idx = CountMax
      BY <1>1, <2>1
    <3>2. call.idx = CountMax => AtEnd(call.idx, board, hw, iface)
      BY CountAssumption DEF AtEnd
    <3> QED
      BY <1>1, <1>2, <2>1, <3>1, <3>2 DEF SteadyInv, Undisturbed
  <2>3. message \in Seq(Byte) /\ call.idx \in Nat /\ HasAbsorbed(call.ctx, message)
    BY <1>1 DEF CallInv, Calls
  <2>4. IsPadded(message, out') /\ \E S : out' \in Seq(S)
    BY <2>1, <2>3, FinalPads
  <2> QED
    BY <2>2, <2>3, <2>4 DEF Shows
<1>3. known' # <<>> => Shows(known', board, hw, iface)
  BY <1>1, <1>2 DEF SteadyInv
<1>4. Steady
  BY <1>3, ShowsOne DEF SteadyInv, Steady
<1>5. Undisturbed'
  BY <1>1 DEF Undisturbed, Idle
<1> QED
  BY <1>1, <1>3, <1>4, <1>5 DEF SteadyInv

LEMMA ChangeSteady ==
  ASSUME CallInv, SteadyInv, HardwareChanges
  PROVE  SteadyInv' /\ Steady
<1>1. /\ hw' \in Hardware(board) /\ hw'.unit = hw.unit
      /\ UNCHANGED <<board, pin, iface, call, message>>
  BY DEF HardwareChanges
<1>2. CASE Sources(board, hw', iface) = Sources(board, hw, iface) /\ UNCHANGED <<known, clean>>
  <2>1. \A n : Segment(board, hw, iface, n) = Segment(board, hw', iface', n)
    BY <1>1, <1>2, SourcesTell DEF CallInv
  <2>2. /\ \A m, k : /\ Reads(m, k, board, hw, iface) <=> Reads(m, k, board', hw', iface')
                     /\ AtEnd(k, board, hw, iface) <=> AtEnd(k, board', hw', iface')
        /\ known # <<>> => Shows(known, board', hw', iface')
    BY <1>1, <2>1, SameAnswers
  <2> QED
    BY <1>1, <1>2, <2>2 DEF SteadyInv, Undisturbed, Steady
<1>3. CASE known' = <<>> /\ clean' = FALSE
  BY <1>1, <1>3 DEF SteadyInv, Undisturbed, Steady
<1> QED
  BY <1>2, <1>3 DEF HardwareChanges

LEMMA RestartSteady ==
  ASSUME CallInv, SteadyInv, Restart
  PROVE  SteadyInv' /\ Steady
<1>1. /\ iface' = pin /\ call' = Idle /\ UNCHANGED <<board, pin, hw>>
      /\ known' = IF iface = pin \/ (Candidates(hw) # {} /\ PickIface(hw) = iface)
                    THEN known ELSE <<>>
  BY DEF Restart
<1>2. Undisturbed'
  BY <1>1 DEF Undisturbed, Idle
<1>3. ASSUME known' # <<>> PROVE Shows(known', board, hw, pin)
  <2>1. known' = known /\ Shows(known, board, hw, iface)
    BY <1>1, <1>3 DEF SteadyInv
  <2>2. CASE iface = pin
    BY <2>1, <2>2
  <2>3. CASE iface # pin
    <3>1. board = "linux" /\ pin = "" /\ Candidates(hw) # {} /\ PickIface(hw) = iface
      BY <1>1, <1>3, <2>3 DEF SteadyInv
    <3>2. IfaceAfter(board, hw, pin, 0) = iface
      BY <3>1 DEF IfaceAfter
    <3>3. \A n : Segment(board, hw, iface, n) = Segment(board, hw, pin, n)
      BY <3>2, ChoiceStands
    <3> QED
      BY <2>1, <3>3, SameShows
  <2> QED
    BY <2>2, <2>3
<1> QED
  BY <1>1, <1>2, <1>3 DEF SteadyInv, Steady

LEMMA StepSteady == CallInv /\ SteadyInv /\ [Next]_vars => SteadyInv' /\ Steady
<1> SUFFICES ASSUME CallInv, SteadyInv, [Next]_vars PROVE SteadyInv' /\ Steady
  OBVIOUS
<1>1. CASE Begin
  <2>1. /\ call' = Started /\ message' = Domain /\ UNCHANGED <<board, pin, hw, iface, known>>
    BY <1>1 DEF Begin, machine
  <2>2. Undisturbed'
    BY <2>1, ReadsNothing DEF Undisturbed, Started
  <2> QED
    BY <2>1, <2>2 DEF SteadyInv, Steady
<1>2. CASE UNCHANGED fpVars
  BY <1>2 DEF fpVars, SteadyInv, Undisturbed, Steady
<1> QED
  BY <1>1, <1>2, ReadSteady, ReturnSteady, ChangeSteady, RestartSteady
     DEF Next, Fingerprinting, Changing, FpStep, PowerCycle, GateInit, Mint, AllowsStatus,
         AllowsFeature, Save, Line, vars

(* As long as the sources of a fingerprint stand, every call shows the     *)
(* same one: for every hardware, whatever interfaces come and go, before a *)
(* call or under it, and after any restart that finds the interface again. *)
THEOREM IdentityIsSteady == Spec => SteadyIdentity
<1>1. CallInv /\ SteadyInv /\ [Next]_vars
        => [known # <<>> /\ known' # <<>> => known' = known]_fpVars
  BY StepSteady DEF Steady
<1>2. CallInv /\ SteadyInv /\ [Next]_vars => SteadyInv'
  BY StepSteady
<1> QED
  BY <1>1, <1>2, InitCall, StepCall, InitSteady, PTL DEF Spec, SteadyIdentity

-----------------------------------------------------------------------------
(* The byte of a message in which a unit differs from every other: it is   *)
(* in the first segment, on Linux in the second.                           *)
UnitIn(b) == IF b = "stm32" THEN 2 ELSE 1
UnitAt(b) == Len(Domain) + (IF b = "linux" THEN 4 ELSE 1) + UnitIn(b)

Carries(m, b, u) == UnitAt(b) <= Len(m) /\ m[UnitAt(b)] = u

(* How far the n segments read so far have come.                           *)
Opened(m, n, b, u) ==
  /\ n = 0 => m = Domain
  /\ b = "linux" /\ n = 1 => Len(m) = Len(Domain) + 3
  /\ n >= 2 \/ (n = 1 /\ b # "linux") => Carries(m, b, u)

LEMMA UnitPlace == \A b : UnitAt(b) \in Nat \ {0}
<1> TAKE b
<1>1. Len(Domain) \in Nat /\ UnitIn(b) \in {1, 2}
  BY DomainAssumption, LenProperties DEF UnitIn
<1>2. UnitAt(b) = Len(Domain) + 4 + UnitIn(b) \/ UnitAt(b) = Len(Domain) + 1 + UnitIn(b)
  BY DEF UnitAt
<1> QED
  BY <1>1, <1>2

LEMMA AppendKeeps ==
  ASSUME NEW m \in Seq(Byte), NEW s \in Seq(Byte), NEW b, NEW u, Carries(m, b, u)
  PROVE  Carries(m \o s, b, u)
<1>1. UnitAt(b) \in 1 .. Len(m) /\ m[UnitAt(b)] = u
  BY UnitPlace DEF Carries
<1>2. Len(m \o s) = Len(m) + Len(s) /\ \A k \in 1 .. Len(m) : (m \o s)[k] = m[k]
  OBVIOUS
<1>3. UnitAt(b) <= Len(m \o s)
  BY <1>1, <1>2
<1> QED
  BY <1>1, <1>2, <1>3 DEF Carries

LEMMA AppendCarries ==
  ASSUME NEW m \in Seq(Byte), NEW len \in Byte, NEW s \in Seq(Byte), NEW b, NEW u,
         Len(m) = Len(Domain) + (IF b = "linux" THEN 3 ELSE 0),
         UnitIn(b) <= Len(s), s[UnitIn(b)] = u
  PROVE  Carries(m \o <<len>> \o s, b, u)
<1> DEFINE p == m \o <<len>>
<1>1. Len(p) = Len(m) + 1 /\ p \in Seq(Byte)
  OBVIOUS
<1> HIDE DEF p
<1>2. UnitAt(b) = Len(p) + UnitIn(b) /\ UnitIn(b) \in 1 .. Len(s)
  BY <1>1, DomainAssumption DEF UnitAt, UnitIn
<1>3. Len(p \o s) = Len(p) + Len(s) /\ \A k \in 1 .. Len(s) : (p \o s)[Len(p) + k] = s[k]
  BY <1>1
<1>4. (p \o s)[UnitAt(b)] = u /\ UnitAt(b) <= Len(p \o s)
  <2> DEFINE k == UnitIn(b)
             t == p \o s
  <2>1. k \in 1 .. Len(s) /\ UnitAt(b) = Len(p) + k /\ s[k] = u
    BY <1>2
  <2>2. Len(p) \in Nat /\ Len(s) \in Nat
    BY <1>1
  <2>3. Len(t) = Len(p) + Len(s) /\ \A j \in 1 .. Len(s) : t[Len(p) + j] = s[j]
    BY <1>3
  <2> HIDE DEF k, t
  <2>4. t[UnitAt(b)] = u
    BY ONLY <2>1, <2>3
  <2>5. UnitAt(b) <= Len(t)
    BY ONLY <2>1, <2>2, <2>3
  <2> QED
    BY <2>4, <2>5 DEF t
<1> QED
  BY <1>4 DEF Carries, p

(* Two words of two bytes.                                                 *)
LEMMA FourBytes ==
  ASSUME NEW a, NEW c, NEW d, NEW e
  PROVE  /\ Len(BigEndian(<< <<a, c>>, <<d, e>> >>)) = 4
         /\ BigEndian(<< <<a, c>>, <<d, e>> >>)[1] = a
         /\ BigEndian(<< <<a, c>>, <<d, e>> >>) = <<a, c, d, e>>
         /\ Len(LittleEndian(<< <<a, c>>, <<d, e>> >>)) = 4
         /\ LittleEndian(<< <<a, c>>, <<d, e>> >>)[2] = a
<1>1. <<a, c>> \o <<d, e>> = <<a, c, d, e>>
  <2> DEFINE S == {a, c, d, e}
  <2>1. <<a, c>> \in Seq(S) /\ <<d, e>> \in Seq(S) /\ <<a, c, d, e>> \in Seq(S)
    OBVIOUS
  <2> HIDE DEF S
  <2> DEFINE s == <<a, c>> \o <<d, e>>
  <2>2. /\ s \in Seq(S) /\ Len(s) = 4
        /\ s[1] = a /\ s[2] = c /\ s[3] = d /\ s[4] = e
    BY <2>1, ConcatProperties
  <2> HIDE DEF s
  <2>3. s = <<a, c, d, e>>
    BY <2>1, <2>2
  <2> QED
    BY <2>3 DEF s
<1>2. BigEndian(<< <<a, c>>, <<d, e>> >>) = <<a, c, d, e>>
  BY <1>1 DEF BigEndian
<1>3. LittleEndian(<< <<a, c>>, <<d, e>> >>) = <<c, a, e, d>>
  BY DEF LittleEndian
<1> QED
  BY <1>2, <1>3

(* A die id that is not blank is the unit's.                               *)
LEMMA DieId ==
  ASSUME NEW h, h.uid \notin {"zeros", "ones"}
  PROVE  /\ Len(BigEndian(Words(h))) = 4 /\ BigEndian(Words(h))[1] = h.unit
         /\ Len(LittleEndian(Words(h))) = 4 /\ LittleEndian(Words(h))[2] = h.unit
<1>1. Words(h) = << <<h.unit, 0>>, <<255, 255>> >>
  BY DEF Words
<1> QED
  BY <1>1, FourBytes

LEMMA BlankIds ==
  ASSUME NEW h, h.uid \in {"zeros", "ones"}
  PROVE  /\ Blank(BigEndian(Words(h)))
         /\ \E blank \in {<<0, 0>>, <<255, 255>>} : \A i \in 1 .. 2 : Words(h)[i] = blank
<1>1. CASE h.uid = "zeros"
  <2>1. Words(h) = << <<0, 0>>, <<0, 0>> >>
    BY <1>1 DEF Words
  <2>2. BigEndian(Words(h)) = <<0, 0, 0, 0>>
    BY <2>1, FourBytes
  <2> QED
    BY <2>1, <2>2 DEF Blank, AllSame
<1>2. CASE h.uid = "ones"
  <2>1. Words(h) = << <<255, 255>>, <<255, 255>> >>
    BY <1>2 DEF Words
  <2>2. BigEndian(Words(h)) = <<255, 255, 255, 255>>
    BY <2>1, FourBytes
  <2> QED
    BY <2>1, <2>2 DEF Blank, AllSame
<1> QED
  BY <1>1, <1>2

(* An address that is not all zero begins with the unit's byte.            *)
LEMMA MacOfUnit ==
  ASSUME NEW h, NEW name
  PROVE  /\ Mac(h, name) = <<>> \/ Len(Mac(h, name)) = 2
         /\ ~AllSame(Mac(h, name), 0) => Len(Mac(h, name)) = 2 /\ Mac(h, name)[1] = h.unit
<1>1. Mac(h, name) \in {<<0, 0>>, <<>>} \cup {<<h.unit, n>> : n \in 11 .. 15}
  BY DEF Mac
<1>2. AllSame(<<0, 0>>, 0) /\ AllSame(<<>>, 0)
  BY DEF AllSame
<1> QED
  BY <1>1, <1>2

LEMMA MacosOpens ==
  ASSUME NEW h \in Hardware("macos"), NEW i, Accepted(MacosSegment(h, i, 0))
  PROVE  Len(MacosSegment(h, i, 0).bytes) = 2 /\ MacosSegment(h, i, 0).bytes[1] = h.unit
<1> DEFINE w     == Wanted(h, i)
           first == FirstOf(w)
<1>0. /\ \A s : Accepted(Fits(s)) => Fits(s).bytes = s
      /\ ~Accepted(Platform)
  BY DEF Accepted, Fits, Data, Platform, Refusal
<1>1. w \in SUBSET Nat
  <2>1. DOMAIN h.up \subseteq Nat
    <3>1. h.up \in Seq(Ifaces)
      BY HardwareAssumption DEF Boards
    <3> QED
      BY <3>1
  <2> QED
    BY <2>1 DEF Wanted
<1>2. MacosSegment(h, i, 0) = IF w = {} THEN Platform ELSE Fits(Mac(h, h.up[first]))
  BY DEF MacosSegment
<1>3. ASSUME w # {} PROVE ~AllSame(Mac(h, h.up[first]), 0)
  <2>1. \E k \in w : \A j \in w : k <= j
    <3> HIDE DEF w
    <3> QED
      BY <1>1, <1>3, LeastNumber
  <2>2. first \in w
    BY <2>1 DEF FirstOf
  <2> HIDE DEF first
  <2> QED
    BY <2>2 DEF Wanted
<1> HIDE DEF w, first
<1>4. w # {}
  <2> SUFFICES ASSUME w = {} PROVE FALSE
    OBVIOUS
  <2>1. MacosSegment(h, i, 0) = Platform
    BY <1>2
  <2> QED
    BY <1>0, <2>1
<1>5. MacosSegment(h, i, 0).bytes = Mac(h, h.up[first])
  <2>1. MacosSegment(h, i, 0) = Fits(Mac(h, h.up[first]))
    BY <1>2, <1>4
  <2> QED
    BY <1>0, <2>1
<1> QED
  BY <1>3, <1>4, <1>5, MacOfUnit

LEMMA FirstSegment ==
  ASSUME NEW b \in Boards \ {"linux", "ported"}, NEW h \in Hardware(b), NEW i,
         Accepted(Segment(b, h, i, 0))
  PROVE  /\ UnitIn(b) <= Len(Segment(b, h, i, 0).bytes)
         /\ Segment(b, h, i, 0).bytes[UnitIn(b)] = h.unit
<1>0. ~Accepted(Platform) /\ \A s : Data(s).bytes = s
  BY DEF Accepted, Platform, Refusal, Data
<1>1. CASE b = "macos"
  <2>1. Segment(b, h, i, 0) = MacosSegment(h, i, 0) /\ UnitIn(b) = 1
    BY <1>1 DEF Segment, UnitIn
  <2> QED
    BY <1>1, <2>1, MacosOpens
<1>2. CASE b = "esp32"
  <2>1. Segment(b, h, i, 0) = Esp32Segment(h, 0) /\ UnitIn(b) = 1
    BY <1>2 DEF Segment, UnitIn
  <2>2. Esp32Segment(h, 0) = IF h.uid = "error" THEN Platform ELSE Data(BigEndian(Words(h)))
    BY DEF Esp32Segment
  <2>3. h.uid = "ok" /\ Segment(b, h, i, 0) = Data(BigEndian(Words(h)))
    BY <1>0, <1>2, <2>1, <2>2, HardwareAssumption
  <2> QED
    BY <1>0, <2>1, <2>3, DieId
<1>3. CASE b \in {"rp2040", "nxp", "gate"}
  <2> DEFINE id == BigEndian(Words(h))
  <2>1. Segment(b, h, i, 0) = IF Blank(id) THEN Platform ELSE Data(id)
    BY <1>3 DEF Segment, Rp2040Segment, NxpSegment, GateSegment
  <2>2. ~Blank(id) /\ Segment(b, h, i, 0) = Data(id) /\ UnitIn(b) = 1
    BY <1>0, <1>3, <2>1 DEF UnitIn
  <2> QED
    BY <1>0, <2>2, DieId, BlankIds
<1>4. CASE b = "stm32"
  <2> DEFINE blank == \E w \in {<<0, 0>>, <<255, 255>>} : \A j \in 1 .. 2 : Words(h)[j] = w
  <2>1. Segment(b, h, i, 0) = IF blank THEN Platform ELSE Data(LittleEndian(Words(h)))
    BY <1>4 DEF Segment, Stm32Segment
  <2>2. ~blank /\ Segment(b, h, i, 0) = Data(LittleEndian(Words(h))) /\ UnitIn(b) = 2
    BY <1>0, <1>4, <2>1 DEF UnitIn
  <2> QED
    BY <1>0, <2>2, DieId, BlankIds
<1>5. CASE b = "none"
  BY <1>0, <1>5 DEF Segment, NoneSegment
<1> QED
  BY <1>1, <1>2, <1>3, <1>4, <1>5 DEF Boards

LEMMA LinuxOpens ==
  ASSUME NEW h, NEW i
  PROVE  /\ Accepted(Segment("linux", h, i, 0)) => Len(Segment("linux", h, i, 0).bytes) = 2
         /\ Accepted(Segment("linux", h, i, 1)) => Segment("linux", h, i, 1).bytes = <<h.unit, 21>>
         /\ Segment("linux", h, i, 0).st # "NO_MORE_SEGMENTS"
         /\ Segment("linux", h, i, 1).st # "NO_MORE_SEGMENTS"
<1>0. /\ \A s : Accepted(Fits(s)) => Fits(s).bytes = s
      /\ \A s : Fits(s).st \in {"OK", "BUFFER_TOO_SMALL"}
      /\ ~Accepted(Platform) /\ Platform.st # "NO_MORE_SEGMENTS"
  BY DEF Accepted, Fits, Data, Platform, Refusal
<1>1. PICK name : Segment("linux", h, i, 0) =
        IF name \notin Up(h) \/ Mac(h, name) = <<>> THEN Platform ELSE Fits(Mac(h, name))
  BY DEF Segment, LinuxSegment
<1>2. Segment("linux", h, i, 1) = MachineId(h)
  BY DEF Segment, LinuxSegment
<1>3. \/ Segment("linux", h, i, 0) = Platform
      \/ Mac(h, name) # <<>> /\ Segment("linux", h, i, 0) = Fits(Mac(h, name))
  BY <1>1, Zenon
<1>4. /\ Accepted(Segment("linux", h, i, 0)) => Len(Segment("linux", h, i, 0).bytes) = 2
      /\ Segment("linux", h, i, 0).st # "NO_MORE_SEGMENTS"
  BY <1>0, <1>3, MacOfUnit
<1>5. \/ MachineId(h) = Fits(<<h.unit, 21>>)
      \/ MachineId(h) = Platform
      \/ MachineId(h) = Fits([k \in 1 .. SegMax + 1 |-> 21])
  BY DEF MachineId
<1>6. ~Accepted(Fits([k \in 1 .. SegMax + 1 |-> 21]))
  <2>1. Len([k \in 1 .. SegMax + 1 |-> 21]) = SegMax + 1
    BY SegMaxAssumption
  <2> QED
    BY <2>1, SegMaxAssumption DEF Fits, Accepted, Refusal
<1> QED
  BY <1>0, <1>2, <1>4, <1>5, <1>6

(* One more segment brings a message as far as it should.                  *)
LEMMA OpensFurther ==
  ASSUME NEW b \in Boards \ {"ported"}, NEW h \in Hardware(b), NEW i \in Ifaces,
         NEW n \in 0 .. CountMax, NEW m \in Seq(Byte), Opened(m, n, b, h.unit),
         Accepted(Segment(b, h, i, n))
  PROVE  /\ m \o <<Segment(b, h, i, n).len>> \o Segment(b, h, i, n).bytes \in Seq(Byte)
         /\ Opened(m \o <<Segment(b, h, i, n).len>> \o Segment(b, h, i, n).bytes,
                   n + 1, b, h.unit)
<1> DEFINE r == Segment(b, h, i, n)
           p == m \o <<r.len>> \o r.bytes
<1>1. r.bytes \in Seq(Byte) /\ r.len = Len(r.bytes) /\ r.len \in Byte
  <2>1. r.bytes \in Seq(Byte) /\ r.len = Len(r.bytes) /\ r.len <= SegMax
    BY AnswerAssumption DEF Accepted
  <2>2. r.len \in Nat
    BY <2>1, LenProperties
  <2> QED
    BY <2>1, <2>2, LengthIsByte
<1>2. n \in Nat /\ n + 1 # 0
  BY CountAssumption
<1> DEFINE s == r.bytes
           l == r.len
<1>3. s \in Seq(Byte) /\ l \in Byte /\ l = Len(s) /\ p = m \o <<l>> \o s
  BY <1>1
<1>4. p \in Seq(Byte) /\ Len(m \o <<l>>) = Len(m) + 1 /\ Len(p) = Len(m) + 1 + Len(s)
  <2> HIDE DEF s, l, p
  <2>1. m \o <<l>> \in Seq(Byte) /\ Len(m \o <<l>>) = Len(m) + 1
    BY <1>3
  <2> QED
    BY <1>3, <2>1, ConcatProperties
<1>5. CASE b # "linux" /\ n = 0
  <2>1. UnitIn(b) <= Len(s) /\ s[UnitIn(b)] = h.unit
    BY <1>5, FirstSegment
  <2>2. m = Domain
    BY <1>5 DEF Opened
  <2>3. Len(m) = Len(Domain) + (IF b = "linux" THEN 3 ELSE 0)
    <3>1. Len(m) = Len(Domain) + 0
      BY <2>2, DomainAssumption, LenProperties
    <3> QED
      BY <1>5, <3>1
  <2> HIDE DEF s, l, p
  <2>4. Carries(p, b, h.unit)
    BY <1>3, <2>1, <2>3, AppendCarries
  <2>5. b # "linux" /\ n + 1 # 0
    BY <1>2, <1>5
  <2>6. Opened(p, n + 1, b, h.unit)
    BY <2>4, <2>5, Zenon DEF Opened
  <2> QED
    BY <1>4, <2>6 DEF s, l, p
<1>6. CASE b = "linux" /\ n = 0
  <2>1. Len(s) = 2 /\ m = Domain
    BY <1>6, LinuxOpens DEF Opened
  <2> HIDE DEF s, l, p
  <2>2. Len(p) = Len(Domain) + 3
    BY <1>4, <2>1, DomainAssumption, LenProperties
  <2>3. n + 1 = 1 /\ b = "linux" /\ 1 # 0 /\ ~ 1 >= 2
    BY <1>6
  <2>4. Opened(p, n + 1, b, h.unit)
    BY <2>2, <2>3, Zenon DEF Opened
  <2> QED
    BY <1>4, <2>4 DEF s, l, p
<1>7. CASE b = "linux" /\ n = 1
  <2>1. s = <<h.unit, 21>> /\ Len(m) = Len(Domain) + 3
    BY <1>7, LinuxOpens DEF Opened
  <2>2. UnitIn(b) = 1 /\ 1 <= Len(s) /\ s[1] = h.unit
    BY <1>7, <2>1 DEF UnitIn
  <2> HIDE DEF s, l, p
  <2>3. Carries(p, b, h.unit)
    BY <1>3, <1>7, <2>1, <2>2, AppendCarries
  <2> QED
    BY <1>4, <1>7, <2>3 DEF Opened, s, l, p
<1>8. CASE n >= 2 \/ (n = 1 /\ b # "linux")
  <2>1. Carries(m, b, h.unit)
    BY <1>8 DEF Opened
  <2> HIDE DEF s, l, p
  <2>2. <<l>> \in Seq(Byte) /\ m \o <<l>> \in Seq(Byte)
    BY <1>3
  <2>3. Carries(m \o <<l>> \o s, b, h.unit)
    BY <1>3, <2>1, <2>2, AppendKeeps
  <2>4. ~(b = "linux" /\ n + 1 = 1) /\ n + 1 # 0
    BY <1>2, <1>8
  <2> QED
    BY <1>3, <1>4, <2>3, <2>4 DEF Opened, s, l, p
<1> QED
  BY <1>2, <1>5, <1>6, <1>7, <1>8

(* A recursion over the first numbers has a value.                         *)
LEMMA MessagesExist ==
  ASSUME NEW a, NEW k \in Nat
  PROVE  \E g : g = [n \in 0 .. k |-> IF n = 0 THEN Domain
                                      ELSE g[n - 1] \o <<a[n - 1].len>> \o a[n - 1].bytes]
<1> DEFINE Step(g, n) == g[n - 1] \o <<a[n - 1].len>> \o a[n - 1].bytes
           Is(g, j)   == g = [n \in 0 .. j |-> IF n = 0 THEN Domain ELSE Step(g, n)]
           P          == {j \in Nat : \E g : Is(g, j)}
<1>1. 0 \in P
  <2> DEFINE g == [n \in {0} |-> Domain]
  <2>1. Is(g, 0)
    OBVIOUS
  <2> QED
    BY <2>1
<1>2. ASSUME NEW j \in Nat, j \in P PROVE j + 1 \in P
  <2>1. PICK g : Is(g, j)
    BY <1>2
  <2> DEFINE f == [n \in 0 .. j + 1 |-> IF n <= j THEN g[n] ELSE Step(g, n)]
  <2>2. /\ f = [n \in 0 .. j + 1 |-> f[n]]
        /\ \A n \in 0 .. j : f[n] = g[n]
        /\ f[j + 1] = Step(g, j + 1)
    <3> HIDE DEF Step
    <3>1. f = [n \in 0 .. j + 1 |-> IF n <= j THEN g[n] ELSE Step(g, n)]
      OBVIOUS
    <3> HIDE DEF f
    <3>2. \A n \in 0 .. j : n \in 0 .. j + 1 /\ n <= j
      OBVIOUS
    <3>3. j + 1 \in 0 .. j + 1 /\ ~ j + 1 <= j
      OBVIOUS
    <3> QED
      BY <3>1, <3>2, <3>3
  <2>3. \A n \in 0 .. j : g[n] = IF n = 0 THEN Domain ELSE Step(g, n)
    <3> HIDE DEF Step
    <3> QED
      BY <2>1
  <2> HIDE DEF f
  <2>4. \A n \in 0 .. j + 1 : f[n] = IF n = 0 THEN Domain ELSE Step(f, n)
    <3> TAKE n \in 0 .. j + 1
    <3>1. CASE n = 0
      <4>1. 0 \in 0 .. j
        OBVIOUS
      <4> QED
        BY <2>2, <2>3, <3>1, <4>1
    <3>2. CASE n # 0
      <4>1. n - 1 \in 0 .. j
        BY <3>2
      <4>2. Step(f, n) = Step(g, n)
        BY <2>2, <4>1
      <4>3. CASE n = j + 1
        <5> HIDE DEF Step
        <5> QED
          BY <2>2, <3>2, <4>2, <4>3
      <4>4. CASE n # j + 1
        <5>1. n \in 0 .. j
          BY <4>4
        <5> HIDE DEF Step
        <5> QED
          BY <2>2, <2>3, <3>2, <4>2, <5>1
      <4> QED
        BY <4>3, <4>4
    <3> QED
      BY <3>1, <3>2
  <2>5. Is(f, j + 1)
    <3> HIDE DEF Step
    <3> QED
      BY <2>2, <2>4
  <2> QED
    BY <2>5
<1>3. k \in P
  <2> HIDE DEF P
  <2> QED
    BY <1>1, <1>2, InSteps
<1> QED
  BY <1>3

(* What a call that nothing interrupts hashes shows the unit.              *)
LEMMA MessageCarries ==
  ASSUME NEW b \in Boards \ {"ported"}, NEW h \in Hardware(b), NEW i \in Ifaces,
         MessageOf(b, h, i) # <<>>
  PROVE  Carries(MessageOf(b, h, i), b, h.unit)
<1> DEFINE told == [n \in 0 .. CountMax - 1 |-> Segment(b, h, i, n)]
           stops  == {n \in 0 .. CountMax - 1 : ~(told[n].st = "OK" /\ told[n].len <= SegMax)}
           count  == IF stops = {} THEN CountMax
                                   ELSE CHOOSE n \in stops : \A m \in stops : n <= m
           bytes[n \in 0 .. CountMax] ==
             IF n = 0 THEN Domain
             ELSE bytes[n - 1] \o <<told[n - 1].len>> \o told[n - 1].bytes
<1>1. MessageOf(b, h, i) =
        IF count = 0 \/ (stops # {} /\ told[count].st # "NO_MORE_SEGMENTS") THEN <<>>
        ELSE bytes[count]
  BY DEF MessageOf
<1>2. bytes = CHOOSE g : g = [n \in 0 .. CountMax |->
                                IF n = 0 THEN Domain
                                ELSE g[n - 1] \o <<told[n - 1].len>> \o told[n - 1].bytes]
  BY DEF bytes
<1>3. /\ bytes[0] = Domain
      /\ \A n \in 1 .. CountMax :
           bytes[n] = bytes[n - 1] \o <<told[n - 1].len>> \o told[n - 1].bytes
  <2> HIDE DEF bytes, told
  <2>1. bytes = [n \in 0 .. CountMax |->
                   IF n = 0 THEN Domain
                   ELSE bytes[n - 1] \o <<told[n - 1].len>> \o told[n - 1].bytes]
    BY <1>2, MessagesExist, CountAssumption
  <2> DEFINE Step(n) == bytes[n - 1] \o <<told[n - 1].len>> \o told[n - 1].bytes
  <2>2. bytes = [n \in 0 .. CountMax |-> IF n = 0 THEN Domain ELSE Step(n)]
    BY <2>1
  <2> HIDE DEF Step
  <2>3. bytes[0] = Domain /\ \A n \in 1 .. CountMax : bytes[n] = Step(n)
    BY <2>2, CountAssumption
  <2> QED
    BY <2>3 DEF Step
<1>4. \A n \in 0 .. CountMax - 1 : told[n] = Segment(b, h, i, n)
  OBVIOUS
<1>5. /\ stops \in SUBSET Nat
      /\ stops = {n \in 0 .. CountMax - 1 : ~Accepted(Segment(b, h, i, n))}
  BY <1>4, CountAssumption DEF Accepted
<1> HIDE DEF bytes, told, stops
<1>6. /\ count \in 0 .. CountMax
      /\ \A n \in 0 .. count - 1 : Accepted(Segment(b, h, i, n))
      /\ stops = {} => count = CountMax
      /\ stops # {} => count \in stops
  <2>1. CASE stops = {}
    BY <1>5, <2>1, CountAssumption
  <2>2. CASE stops # {}
    <3>1. \E n \in stops : \A m \in stops : n <= m
      BY <1>5, <2>2, LeastNumber
    <3>2. count \in stops /\ \A m \in stops : count <= m
      BY <2>2, <3>1
    <3> HIDE DEF count
    <3>3. count \in 0 .. CountMax - 1 /\ count \in 0 .. CountMax
      BY <1>5, <3>2, CountAssumption
    <3>4. \A n \in 0 .. count - 1 : n \in 0 .. CountMax - 1 /\ n \notin stops
      BY <3>2, <3>3, CountAssumption
    <3> QED
      BY <1>5, <2>2, <3>2, <3>3, <3>4
  <2> QED
    BY <2>1, <2>2
<1> HIDE DEF count
<1> DEFINE P == {n \in Nat : n <= count => bytes[n] \in Seq(Byte)
                                           /\ Opened(bytes[n], n, b, h.unit)}
<1>7. 0 \in P
  BY <1>3, DomainAssumption DEF Opened
<1>8. ASSUME NEW n \in Nat, n \in P PROVE n + 1 \in P
  <2> SUFFICES ASSUME n + 1 <= count
               PROVE  bytes[n + 1] \in Seq(Byte) /\ Opened(bytes[n + 1], n + 1, b, h.unit)
    OBVIOUS
  <2>1. /\ n \in 0 .. CountMax /\ n \in 0 .. CountMax - 1 /\ n \in 0 .. count - 1
        /\ n + 1 \in 1 .. CountMax /\ (n + 1) - 1 = n
    BY <1>6, CountAssumption
  <2>2. bytes[n] \in Seq(Byte) /\ Opened(bytes[n], n, b, h.unit)
    BY <1>6, <1>8, <2>1
  <2>3. bytes[n + 1] = bytes[n] \o <<Segment(b, h, i, n).len>> \o Segment(b, h, i, n).bytes
    BY <1>3, <1>4, <2>1
  <2>4. Accepted(Segment(b, h, i, n))
    BY <1>6, <2>1
  <2> QED
    BY <2>1, <2>2, <2>3, <2>4, OpensFurther
<1>9. count \in P /\ count \in Nat
  <2> HIDE DEF P
  <2> QED
    BY <1>6, <1>7, <1>8, InSteps, CountAssumption
<1>10. Opened(MessageOf(b, h, i), count, b, h.unit) /\ count # 0
  BY <1>1, <1>9
<1>11. b = "linux" => count >= 2
  <2> SUFFICES ASSUME b = "linux", count = 1 PROVE FALSE
    BY <1>9, <1>10
  <2>1. stops # {} /\ count \in 0 .. CountMax - 1
    BY <1>5, <1>6, CountAssumption
  <2>2. told[count].st = "NO_MORE_SEGMENTS"
    BY <1>1, <2>1
  <2> QED
    BY <1>4, <2>1, <2>2, LinuxOpens
<1>12. count >= 2 \/ (count = 1 /\ b # "linux")
  BY <1>9, <1>10, <1>11
<1> QED
  BY <1>10, <1>12, Zenon DEF Opened

(* The invariant behind UnitsApart: whatever changes under a call, what it *)
(* has read so far shows the unit as soon as it can.                       *)
UnitInv ==
  board # "ported" =>
    /\ call.pc # "idle" => Opened(message, call.idx, board, hw.unit)
    /\ call.pc = "ended" /\ board = "linux" => call.idx >= 2
    /\ call.pc = "idle" /\ out # <<>> => Carries(message, board, hw.unit)

LEMMA InitUnit == Init => UnitInv
BY DEF Init, FpInit, Idle, UnitInv

LEMMA ReadUnit ==
  ASSUME CallInv, UnitInv, ReadSegment, board # "ported"
  PROVE  UnitInv'
<1> DEFINE r == Segment(board, hw, iface, call.idx)
<1>1. /\ call.pc = "reading" /\ call.idx < CountMax
      /\ call' = TakeSegment(call, r)
      /\ message' = IF Accepted(r) THEN message \o <<r.len>> \o r.bytes ELSE message
      /\ UNCHANGED <<board, hw, out>>
  BY Zenon DEF ReadSegment, Accepted
<1>2. /\ call \in Calls /\ call.idx \in 0 .. CountMax /\ message \in Seq(Byte)
      /\ board \in Boards \ {"ported"} /\ hw \in Hardware(board) /\ iface \in Ifaces
  BY DEF CallInv, Calls
<1>3. Opened(message, call.idx, board, hw.unit)
  BY <1>1 DEF UnitInv
<1>4. CASE Accepted(r)
  <2>1. call'.idx = call.idx + 1 /\ call'.pc = "reading"
    BY <1>1, <1>2, <1>4 DEF TakeSegment, Accepted, Calls
  <2>2. Opened(message \o <<r.len>> \o r.bytes, call.idx + 1, board, hw.unit)
    BY <1>2, <1>3, <1>4, OpensFurther
  <2> QED
    BY <1>1, <1>4, <2>1, <2>2 DEF UnitInv
<1>5. CASE ~Accepted(r)
  <2>1. /\ call'.idx = call.idx /\ message' = message
        /\ call'.pc = IF r.st = "NO_MORE_SEGMENTS" THEN "ended" ELSE "failed"
    BY <1>1, <1>2, <1>5 DEF TakeSegment, Accepted, Calls
  <2>2. ASSUME r.st = "NO_MORE_SEGMENTS", board = "linux" PROVE call.idx >= 2
    <3>1. call.idx # 0 /\ call.idx # 1
      BY <2>2, LinuxOpens
    <3> QED
      BY <1>2, <3>1, CountAssumption
  <2> QED
    BY <1>1, <1>3, <2>1, <2>2 DEF UnitInv
<1> QED
  BY <1>4, <1>5

LEMMA ReturnUnit ==
  ASSUME CallInv, UnitInv, Return, board # "ported"
  PROVE  UnitInv'
<1>1. /\ call.pc \in {"ended", "failed"} \/ (call.pc = "reading" /\ call.idx = CountMax)
      /\ out' = Result(call) /\ call' = Idle
      /\ UNCHANGED <<board, hw, message>>
  BY DEF Return, machine
<1>2. ASSUME out' # <<>> PROVE Carries(message, board, hw.unit)
  <2>1. call.pc # "failed" /\ call.idx > 0 /\ call.idx \in 0 .. CountMax
    BY <1>1, <1>2 DEF Result, CallInv, Calls
  <2>2. Opened(message, call.idx, board, hw.unit)
    BY <1>1 DEF UnitInv
  <2>3. board = "linux" => call.idx >= 2
    <3>1. call.pc = "ended" \/ call.idx = CountMax
      BY <1>1, <2>1
    <3> QED
      BY <2>1, <3>1, CountAssumption DEF UnitInv
  <2>4. call.idx >= 2 \/ (call.idx = 1 /\ board # "linux")
    BY <2>1, <2>3, CountAssumption
  <2> QED
    BY <2>2, <2>4, Zenon DEF Opened
<1> QED
  BY <1>1, <1>2 DEF UnitInv, Idle

LEMMA StepUnit == CallInv /\ UnitInv /\ [Next]_vars => UnitInv'
<1> SUFFICES ASSUME CallInv, UnitInv, [Next]_vars, board' # "ported" PROVE UnitInv'
  BY DEF UnitInv
<1>1. CASE Begin
  BY <1>1 DEF Begin, Started, machine, UnitInv, Opened
<1>2. CASE HardwareChanges
  <2>1. hw'.unit = hw.unit /\ UNCHANGED <<board, call, out, message>>
    BY <1>2 DEF HardwareChanges
  <2> QED
    BY <2>1 DEF UnitInv
<1>3. CASE Restart
  BY <1>3 DEF Restart, Idle, UnitInv
<1>4. CASE UNCHANGED fpVars
  BY <1>4 DEF fpVars, UnitInv
<1>5. CASE ReadSegment
  <2>1. board # "ported"
    BY <1>5 DEF ReadSegment
  <2> QED
    BY <1>5, <2>1, ReadUnit
<1>6. CASE Return
  <2>1. board # "ported"
    BY <1>6 DEF Return, machine
  <2> QED
    BY <1>6, <2>1, ReturnUnit
<1> QED
  BY <1>1, <1>2, <1>3, <1>4, <1>5, <1>6
     DEF Next, Fingerprinting, Changing, FpStep, PowerCycle, GateInit, Mint, AllowsStatus,
         AllowsFeature, Save, Line, vars

(* No unit ever shows a fingerprint that another unit may show, whatever   *)
(* does not answer and whatever changes under a call.                      *)
THEOREM UnitsStayApart == Spec => []UnitsApart
<1>1. CallInv /\ UnitInv => UnitsApart
  <2> SUFFICES ASSUME CallInv, UnitInv, call.pc = "idle", out # <<>>, board # "ported",
                      NEW h \in Hardware(board), NEW i \in Pins(board), h.unit # hw.unit,
                      MessageOf(board, h, i) = message
               PROVE  FALSE
    BY DEF UnitsApart
  <2>1. Carries(message, board, hw.unit)
    BY DEF UnitInv
  <2>2. board \in Boards \ {"ported"} /\ i \in Ifaces
    BY PinsAssumption DEF CallInv
  <2>3. message # <<>>
    <3>1. UnitAt(board) \in Nat \ {0}
      BY UnitPlace
    <3> QED
      BY <2>1, <3>1 DEF Carries
  <2>4. Carries(message, board, h.unit)
    BY <2>2, <2>3, MessageCarries
  <2> QED
    BY <2>1, <2>4 DEF Carries
<1> QED
  BY <1>1, InitCall, StepCall, InitUnit, StepUnit, PTL DEF Spec

-----------------------------------------------------------------------------
(* A device that is not licensed holds no licence.                         *)
LicenceInv ==
  /\ g_status # "OK" => g_license = NoLicence
  /\ main = "boot" => g_status # "OK"

LEMMA InitLicence == Init => LicenceInv
BY DEF Init, GateInit0, LicenceInv

LEMMA StepLicence == LicenceInv /\ [Next]_vars => LicenceInv'
<1> SUFFICES ASSUME LicenceInv, [Next]_vars PROVE LicenceInv'
  OBVIOUS
<1>1. CASE GateInit
  <2>1. main = "boot" /\ main' = "run" /\ g_license = NoLicence
    BY <1>1 DEF GateInit, LicenceInv
  <2>2. CASE g_status' = "NOT_FOUND" /\ UNCHANGED g_license
    BY <2>1, <2>2 DEF LicenceInv
  <2>3. ASSUME NEW loaded, g_status' = Verdict(loaded), g_license' = Filled(loaded)
        PROVE  LicenceInv'
    BY <2>1, <2>3 DEF Filled, LicenceInv
  <2> QED
    BY <1>1, <2>2, <2>3 DEF GateInit
<1>2. ASSUME NEW t \in Lines, Line(t) PROVE LicenceInv'
  BY <1>2 DEF Line, Filled, LicenceInv
<1>3. CASE PowerCycle
  BY <1>3 DEF PowerCycle, LicenceInv
<1>4. CASE UNCHANGED <<g_status, g_license>> /\ (main' = main \/ main' # "boot")
  BY <1>4 DEF LicenceInv
<1> QED
  BY <1>1, <1>2, <1>3, <1>4
     DEF Next, Fingerprinting, Changing, Mint, AllowsStatus, AllowsFeature, Save, vars, gateVars

(* gate_allows() says yes only under a licence in force, though a line may *)
(* be judged between its two readings.                                     *)
THEOREM GateAllowsTruthfully == Spec => AllowsIsTruthful
<1>1. LicenceInv /\ [Next]_vars
        => [main = "allows" /\ main' = "run" /\ answer' => g_status = "OK" /\ g_license.grants]_vars
  <2> SUFFICES ASSUME LicenceInv, [Next]_vars, ~ UNCHANGED vars,
                      main = "allows", main' = "run", answer'
               PROVE  g_status = "OK" /\ g_license.grants
    OBVIOUS
  <2>1. CASE AllowsFeature
    <3>1. g_license.grants
      BY <2>1, Zenon DEF AllowsFeature
    <3>2. ~ NoLicence.grants
      BY DEF NoLicence
    <3>3. g_license # NoLicence
      BY <3>1, <3>2, Zenon
    <3> QED
      BY <3>1, <3>3 DEF LicenceInv
  <2>2. CASE ~AllowsFeature
    BY <2>2 DEF Next, Fingerprinting, Changing, PowerCycle, GateInit, Mint, AllowsStatus, Save, Line,
                gateVars
  <2> QED
    BY <2>1, <2>2
<1> QED
  BY <1>1, InitLicence, StepLicence, PTL DEF Spec, AllowsIsTruthful

-----------------------------------------------------------------------------
(* What is saved was verified, on the hardware it remembers; the interrupt *)
(* may hold one more such text that is not saved yet.                      *)
Verified(k) ==
  /\ board = "gate"
  /\ k.text.form # "noise"
  /\ MessageOf(board, k.hw, pin) # <<>>
  /\ k.text.device = MessageOf(board, k.hw, pin)

KeptInv ==
  /\ board # "linux" => iface = pin
  /\ saved = {k.text : k \in kept}
  /\ \A k \in isr \cup kept : Verified(k)
  /\ \A j, k \in isr : j = k
  /\ \A j, k \in kept : j = k

LEMMA InitKept == Init => KeptInv
BY DEF Init, FpInit, GateInit0, KeptInv

LEMMA StepKept == KeptInv /\ [Next]_vars => KeptInv'
<1> SUFFICES ASSUME KeptInv, [Next]_vars PROVE KeptInv'
  OBVIOUS
<1> USE DEF KeptInv
<1>1. CASE UNCHANGED <<board, pin, iface, saved, isr, kept>>
  BY <1>1, Zenon DEF Verified
<1>2. CASE ReadSegment /\ UNCHANGED gateVars
  <2>1. board # "linux" => iface' = iface
    BY <1>2 DEF ReadSegment, IfaceAfter
  <2>2. UNCHANGED <<board, pin, saved, isr, kept>>
    BY <1>2 DEF ReadSegment, gateVars
  <2> QED
    BY <2>1, <2>2, Zenon DEF Verified
<1>3. ASSUME NEW t \in Lines, Line(t) PROVE KeptInv'
  <2>1. /\ board = "gate" /\ iface = pin
        /\ UNCHANGED <<board, pin, iface, saved, kept>>
        /\ isr' = IF Verdict(t) = "OK" THEN {[text |-> t, hw |-> hw]} ELSE {}
    BY <1>3 DEF Line, fpVars
  <2>2. Verdict(t) = "OK" =>
          /\ t.form # "noise"
          /\ MessageOf(board, hw, iface) # <<>>
          /\ t.device = MessageOf(board, hw, iface)
    BY DEF Verdict
  <2>3. \A k \in isr' : Verified(k)'
    BY <2>1, <2>2 DEF Verified
  <2>4. \A k \in kept' : Verified(k)'
    BY <2>1, Zenon DEF Verified
  <2> QED
    BY <2>1, <2>3, <2>4
<1>4. CASE Save
  BY <1>4, Zenon DEF Save, Verified, fpVars
<1>5. CASE PowerCycle
  <2>1. UNCHANGED <<board, pin>> /\ iface' = pin /\ isr' = {}
    BY <1>5 DEF PowerCycle, Restart
  <2>2. \/ UNCHANGED <<saved, kept>>
        \/ saved' = {k.text : k \in isr} /\ kept' = isr
    BY <1>5 DEF PowerCycle
  <2> QED
    BY <2>1, <2>2, Zenon DEF Verified
<1>6. CASE (Begin \/ Return \/ HardwareChanges) /\ UNCHANGED gateVars
  BY <1>1, <1>6 DEF Begin, Return, HardwareChanges, gateVars, machine
<1>7. CASE GateInit \/ Mint \/ AllowsStatus \/ AllowsFeature \/ UNCHANGED vars
  BY <1>1, <1>7 DEF GateInit, Mint, AllowsStatus, AllowsFeature, vars, gateVars, fpVars
<1> QED
  BY <1>2, <1>3, <1>4, <1>5, <1>6, <1>7, Zenon DEF Next, Fingerprinting, Changing, FpStep

(* gate_init(): a licence that was accepted and saved as the vendor prints *)
(* it is in force again after every boot on the same hardware, whatever    *)
(* was typed since.                                                        *)
THEOREM LicenceComesBack == Spec => ComesBack
<1>1. KeptInv /\ [Next]_vars
        => [main = "boot" /\ main' = "run" =>
              \A k \in kept : k.text.form = "canonical" /\ k.hw = hw => g_status' = "OK"]_vars
  <2> SUFFICES ASSUME KeptInv, [Next]_vars, ~ UNCHANGED vars, main = "boot", main' = "run",
                      NEW k \in kept, k.text.form = "canonical", k.hw = hw
               PROVE  g_status' = "OK"
    OBVIOUS
  <2>1. GateInit
    BY DEF Next, Fingerprinting, Changing, PowerCycle, Mint, AllowsStatus, AllowsFeature, Save, Line,
           gateVars
  <2>2. \A t \in saved : t = k.text
    BY DEF KeptInv
  <2>3. k.text \in saved
    BY DEF KeptInv
  <2>4. Verdict(k.text) = "OK"
    <3>1. Verified(k) /\ iface = pin
      BY DEF KeptInv, Verified
    <3> QED
      BY <3>1 DEF Verdict, Verified
  <2>5. ~ \A t \in saved : t.form = "grouped"
    BY <2>3
  <2>6. PICK t \in saved : \E loaded \in IF t.form = "grouped" THEN {Junk} ELSE {t} :
                             g_status' = Verdict(loaded)
    BY <2>1, <2>5 DEF GateInit
  <2> QED
    BY <2>2, <2>4, <2>6
<1> QED
  BY <1>1, InitKept, StepKept, PTL DEF Spec, ComesBack
=============================================================================
