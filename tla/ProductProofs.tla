---------------------------- MODULE ProductProofs ----------------------------
(***************************************************************************)
(* Proofs about Product for every set of licences and grants, every choice *)
(* of siblings a sketch is built with, and any number of texts entered.    *)
(***************************************************************************)
EXTENDS Product, TLAPS

-----------------------------------------------------------------------------
(* The order of one pass.                                                  *)

(* A call of a sibling is made only where the sibling is installed, and    *)
(* VectiOTA's gate then ends every pass of loop(), so no pass begins       *)
(* before it has been asked.                                               *)
LEMMA PassOrder ==
  ASSUME NEW call, Proceed(call)
  PROVE  /\ at' \in {"pump", "portal", "card", "console", "gate"}
         /\ at' = "gate" => "ota" \in parts
         /\ at' = "portal" => "net" \in parts
         /\ at' = "pump" /\ "ota" \in parts => call = "gate"
<1>1. PICK i \in 1..5 :
        /\ Calls[i] = call
        /\ \/ Follows(i) = {} /\ at' = "pump"
           \/ \E j \in Follows(i) : at' = Calls[j] /\ \A k \in Follows(i) : j <= k
  BY DEF Proceed, Calls
<1>2. Follows(i) = {j \in (i + 1)..5 : Needs[Calls[j]] \in parts}
  BY DEF Follows, Calls
<1>3. CASE Follows(i) = {} /\ at' = "pump"
  <2>1. "ota" \in parts => i = 5
    BY <1>2, <1>3 DEF Calls, Needs
  <2> QED
    BY <1>1, <1>3, <2>1 DEF Calls
<1>4. CASE \E j \in Follows(i) : at' = Calls[j]
  <2>1. PICK j \in 2..5 : at' = Calls[j] /\ Needs[Calls[j]] \in parts
    BY <1>2, <1>4
  <2>2. j = 2 \/ j = 3 \/ j = 4 \/ j = 5
    OBVIOUS
  <2> QED
    BY <2>1, <2>2 DEF Calls, Needs
<1> QED
  BY <1>1, <1>3, <1>4

-----------------------------------------------------------------------------
(* The gate for updates.                                                   *)

(* What holds in the middle of a pass also, when VectiOTA may still act on *)
(* an older verdict: a licence is in force only with the verdict OK, and   *)
(* only a sketch with VectiOTA has a gate to come to.                      *)
GateInv ==
  /\ at \in {"setup", "pump", "portal", "card", "console", "gate"}
  /\ inforce # Nothing => status = "OK"
  /\ at = "setup" => ~gated /\ inforce = Nothing
  /\ gated \/ at = "gate" => "ota" \in parts
  /\ UpdatesFollowVerdict

LEMMA GateInvStep ==
  ASSUME GateInv, [Next]_vars
  PROVE  GateInv'
<1> USE DEF GateInv, UpdatesFollowVerdict, world, object, ota
<1>0. Nothing \notin Ota
  BY OtaAssumption, NamesAssumption
<1>1. CASE Setup
  BY <1>0, <1>1 DEF Setup, Begins, Apply
<1>2. ASSUME NEW call, call # "gate", at # "setup", PumpObject \/ UNCHANGED <<status, inforce>>,
             Proceed(call), UNCHANGED <<parts, ota>>
      PROVE  GateInv'
  <2>1. inforce' # Nothing => status' = "OK"
    BY <1>2 DEF PumpObject, Apply
  <2>2. at' # "setup" /\ at' \in {"pump", "portal", "card", "console", "gate"}
    BY <1>2, PassOrder
  <2>3. at' = "gate" => "ota" \in parts
    BY <1>2, PassOrder
  <2>4. at' = "pump" => ~gated
    BY <1>2, PassOrder
  <2> QED
    BY <1>2, <2>1, <2>2, <2>3, <2>4
<1>3. CASE Pump
  BY <1>2, <1>3 DEF Pump
<1>4. CASE Portal
  BY <1>2, <1>4 DEF Portal
<1>5. CASE Card
  BY <1>2, <1>5 DEF Card
<1>6. CASE Console
  BY <1>2, <1>6 DEF Console
<1>7. CASE Gate
  <2>1. at' \in {"pump", "portal", "card", "console", "gate"}
    BY <1>7, PassOrder DEF Gate
  <2>2. {"filesystem", "pull"} \cap allowed' # {} <=> inforce \in Ota
    BY <1>0, <1>7 DEF Gate
  <2> QED
    BY <1>7, <2>1, <2>2 DEF Gate
<1>8. ASSUME NEW t, PostForm(t) \/ Command(t) \/ PasteCard(t) PROVE GateInv'
  BY <1>8 DEF PostForm, Command, PasteCard
<1>9. CASE ClockSet
  BY <1>9 DEF ClockSet
<1>10. CASE TimePasses
  BY <1>10 DEF TimePasses
<1>11. CASE Reset
  BY <1>11 DEF Reset, Updates
<1>12. CASE UNCHANGED vars
  BY <1>12 DEF vars
<1> QED
  BY <1>1, <1>3, <1>4, <1>5, <1>6, <1>7, <1>8, <1>9, <1>10, <1>11, <1>12
     DEF Next, LoopTask

(* Whichever call of the pass, on whichever task's text, changed the       *)
(* verdict: once the pass has ended VectiOTA takes filesystem and pull     *)
(* updates just when the licence in force grants them, firmware always.    *)
THEOREM UpdatesFollowVerdictAlways == Spec => []UpdatesFollowVerdict
<1>1. Init => GateInv
  BY DEF Init, GateInv, UpdatesFollowVerdict, Updates
<1>2. GateInv /\ [Next]_vars => GateInv'
  BY GateInvStep
<1>3. GateInv => UpdatesFollowVerdict
  BY DEF GateInv
<1> QED
  BY <1>1, <1>2, <1>3, PTL DEF Spec

-----------------------------------------------------------------------------
(* Writes to the flash.                                                    *)

(* A text waits in the object, and one in VectiNet that the portal has not *)
(* offered: each is a write still to come.                                 *)
Offered  == IF waiting # Nothing THEN 1 ELSE 0
ToOffer  == IF "net" \in parts /\ key # Nothing /\ key # last THEN 1 ELSE 0

(* Every write still to come has been asked for; the portal is only polled *)
(* where VectiNet is installed, and nothing waits before setup().          *)
CreditInv ==
  /\ credit \in Int
  /\ credit >= Offered + ToOffer
  /\ at = "portal" => "net" \in parts
  /\ at = "setup" => waiting = Nothing

LEMMA CreditInvStep ==
  ASSUME CreditInv, [Next]_vars
  PROVE  CreditInv'
<1> USE DEF CreditInv, Offered, ToOffer, world, object, ota
<1>1. CASE Setup
  BY <1>1 DEF Setup, Erases
<1>2. ASSUME PumpObject, UNCHANGED <<world, last>>, NEW call, Proceed(call) PROVE CreditInv'
  BY <1>2, PassOrder DEF PumpObject
<1>3. CASE Pump
  BY <1>2, <1>3 DEF Pump
<1>4. CASE Portal
  <2>1. /\ credit' = credit /\ key' = key /\ parts' = parts
        /\ at' = "portal" => "net" \in parts
    BY <1>4, PassOrder DEF Portal
  <2>2. CASE key = Nothing \/ key = last
    <3>1. UNCHANGED <<last, waiting>> /\ at' # "setup"
      BY <1>4, <2>2, PassOrder DEF Portal
    <3>2. Offered' = Offered /\ ToOffer' = ToOffer
      BY <2>1, <3>1
    <3> QED
      BY <2>1, <3>1, <3>2
  <2>3. CASE key # Nothing /\ key # last
    <3>1. ToOffer' = 0
      BY <1>4, <2>1, <2>3 DEF Portal
    <3>2. Offered' <= Offered + 1 /\ ("net" \in parts => ToOffer = 1)
      BY <1>4, <2>3 DEF Portal, Submit, Taken
    <3>3. "net" \in parts
      BY <1>4 DEF Portal
    <3>4. Offered \in {0, 1} /\ Offered' \in {0, 1}
      OBVIOUS
    <3>5. credit' >= Offered' + ToOffer'
      BY <2>1, <3>1, <3>2, <3>3, <3>4
    <3>6. at' # "setup"
      BY <1>4, PassOrder DEF Portal
    <3> QED
      BY <2>1, <3>5, <3>6
  <2> QED
    BY <2>2, <2>3
<1>5. CASE Card \/ Gate
  BY <1>5, PassOrder DEF Card, Gate
<1>6. CASE Console
  BY <1>2, <1>6 DEF Console
<1>7. ASSUME NEW t, PostForm(t) PROVE CreditInv'
  BY <1>7 DEF PostForm, Enters, Worth
<1>8. ASSUME NEW t, Command(t) \/ PasteCard(t) PROVE CreditInv'
  BY <1>8 DEF Command, PasteCard, Enters, Worth, Submit, Taken
<1>9. CASE ClockSet \/ TimePasses
  BY <1>9 DEF ClockSet, TimePasses
<1>10. CASE Reset
  BY <1>10 DEF Reset
<1>11. CASE UNCHANGED vars
  BY <1>11 DEF vars
<1> QED
  BY <1>1, <1>3, <1>4, <1>5, <1>6, <1>7, <1>8, <1>9, <1>10, <1>11 DEF Next, LoopTask

(* No more texts are judged, and licences written to flash, than were      *)
(* entered, or kept for a boot: passes of loop() and a portal that shows   *)
(* the same key again do not wear the flash out.                           *)
THEOREM NoWriteUnaskedAlways == Spec => []NoWriteUnasked
<1>1. Init => CreditInv
  BY DEF Init, CreditInv, Offered, ToOffer
<1>2. CreditInv /\ [Next]_vars => CreditInv'
  BY CreditInvStep
<1>3. CreditInv => NoWriteUnasked
  BY DEF CreditInv, Offered, ToOffer, NoWriteUnasked
<1> QED
  BY <1>1, <1>2, <1>3, PTL DEF Spec
=============================================================================
