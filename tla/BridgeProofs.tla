---------------------------- MODULE BridgeProofs ----------------------------
(***************************************************************************)
(* Proofs about Bridge for every set of tasks and licences.  What concerns *)
(* the slot needs that one task submits, as the run bridge_race shows; the *)
(* theorems about it say so.                                               *)
(***************************************************************************)
EXTENDS Bridge, TLAPS

(* All submissions come from one task.                                     *)
OneSubmitter == \A p, q \in Producers : p = q

-----------------------------------------------------------------------------
(* Texts.                                                                  *)
LEMMA TextTypes ==
  /\ Blank \in Text /\ Torn \in Text /\ Junk \in Text
  /\ Pasted \subseteq Text
  /\ \A t \in Text : t.lic \in Licences \cup {NoLicence} /\ Canonical(t) \in Text
  BY DEF Blank, Torn, Junk, Pasted, Text, Forms, Canonical

LEMMA CanonicalOf ==
  ASSUME NEW t \in Text, t.lic # NoLicence
  PROVE  Canonical(t) = [lic |-> t.lic, form |-> "canonical"]
  BY DEF Text, Canonical

LEMMA Distinct ==
  /\ Nothing \notin Text /\ NoSlot \notin Text /\ NoSlot # Nothing
  /\ NoLicence \notin Licences
  /\ Loop \in Tasks /\ Producers \subseteq Tasks
  BY NothingAssumption, NoSlotAssumption, LicenceAssumption DEF Tasks

-----------------------------------------------------------------------------
(* The object, its buffers and the tasks keep their types, however many    *)
(* tasks submit.                                                           *)
THEOREM BridgeTypeCorrect == Spec => []TypeOK
<1>1. Init => TypeOK
  BY TextTypes, Distinct DEF Init, TypeOK, Status
<1>2. TypeOK /\ [Next]_vars => TypeOK'
  <2> SUFFICES ASSUME TypeOK, [Next]_vars PROVE TypeOK'
    OBVIOUS
  <2> USE TextTypes, Distinct
  <2>0. Given \in Text
    BY DEF TypeOK, Given
  <2>1. ASSUME NEW p \in Producers, NEW t \in Pasted, SubmitCheck(p, t) PROVE TypeOK'
    BY <2>1 DEF TypeOK, SubmitCheck, Goto, slot, verdict, job
  <2>2. ASSUME NEW p \in Producers, SubmitStep(p) PROVE TypeOK'
    <3>1. CASE SubmitCopy(p)
      BY <3>1 DEF TypeOK, SubmitCopy, Goto, verdict, job
    <3>2. CASE SubmitCopied(p)
      BY <3>2 DEF TypeOK, SubmitCopied, Goto, verdict, job
    <3>3. CASE SubmitPublish(p)
      BY <3>3 DEF TypeOK, SubmitPublish, Goto, verdict, job
    <3> QED
      BY <2>2, <3>1, <3>2, <3>3 DEF SubmitStep
  <2>3. CASE BeginFails
    BY <2>3 DEF TypeOK, BeginFails, Goto, slot, job, Status
  <2>4. CASE BeginLoads
    BY <2>4 DEF TypeOK, BeginLoads, Goto, slot, verdict
  <2>5. CASE Pump
    BY <2>5 DEF TypeOK, Pump, Goto, slot, verdict
  <2>6. CASE ApplyVerify
    BY <2>0, <2>6 DEF TypeOK, ApplyVerify, AfterApply, Goto, slot, Status
  <2>7. CASE ApplyCanonicalise
    BY <2>0, <2>7 DEF TypeOK, ApplyCanonicalise, AfterApply, Goto, slot, Status
  <2>8. CASE ApplyStore
    BY <2>8 DEF TypeOK, ApplyStore, AfterApply, Goto, slot, verdict, Status
  <2>9. CASE PumpWipe \/ PumpFree \/ PumpReport
    BY <2>9 DEF TypeOK, PumpWipe, PumpFree, PumpReport, Goto, slot, verdict, job
  <2>10. CASE Clear \/ ClearStore
    BY <2>10 DEF TypeOK, Clear, ClearStore, Goto, slot, verdict, job, Status
  <2>11. ASSUME NEW t \in Pasted, Activate(t) PROVE TypeOK'
    BY <2>11 DEF TypeOK, Activate, Goto, slot, verdict
  <2>12. CASE TimePasses
    BY <2>12 DEF TypeOK, TimePasses, slot, verdict, job
  <2>13. CASE Reset
    BY <2>13 DEF TypeOK, Reset, Fresh, Status
  <2>14. CASE UNCHANGED vars
    BY <2>14 DEF TypeOK, vars
  <2> QED
    BY <2>1, <2>2, <2>3, <2>4, <2>5, <2>6, <2>7, <2>8, <2>9, <2>10, <2>11,
       <2>12, <2>13, <2>14 DEF Next, LoopStep
<1> QED
  BY <1>1, <1>2, PTL DEF Spec

-----------------------------------------------------------------------------
(* What a step with one submitter keeps besides the types.                 *)
Holds == SlotInv /\ ApplyInv /\ InForceMatchesBlob /\ StoredIsIssued /\ ReportInv

LEMMA BridgeStep ==
  ASSUME OneSubmitter, BridgeInv, [Next]_vars
  PROVE  Holds'
<1> USE TextTypes, Distinct
    DEF BridgeInv, TypeOK, Holds, SlotInv, ApplyInv, InForceMatchesBlob, StoredIsIssued,
        ReportInv, Submitting, Pumping, HasStorage, Goto, slot, verdict, job
<1>0. Given \in Text
  BY DEF Given
<1>1. ASSUME NEW p \in Producers, NEW t \in Pasted, SubmitCheck(p, t) PROVE Holds'
  BY <1>1 DEF SubmitCheck, Given
<1>2. ASSUME NEW p \in Producers, SubmitCopy(p) PROVE Holds'
  BY <1>2 DEF SubmitCopy, OneSubmitter, Given
<1>3. ASSUME NEW p \in Producers, SubmitCopied(p) PROVE Holds'
  BY <1>3 DEF SubmitCopied, OneSubmitter, Given
<1>4. ASSUME NEW p \in Producers, SubmitPublish(p) PROVE Holds'
  BY <1>4 DEF SubmitPublish, OneSubmitter, Given
<1>5. CASE BeginFails \/ BeginLoads
  BY <1>5 DEF BeginFails, BeginLoads, Given
<1>6. CASE Pump
  BY <1>6 DEF Pump, Given
<1>7. CASE ApplyVerify
  BY <1>0, <1>7 DEF ApplyVerify, AfterApply, Given
<1>8. CASE ApplyCanonicalise
  BY <1>0, <1>8, CanonicalOf DEF ApplyCanonicalise, AfterApply
<1>9. CASE ApplyStore
  BY <1>9 DEF ApplyStore, AfterApply, Given
<1>10. CASE PumpWipe \/ PumpFree \/ PumpReport
  BY <1>10 DEF PumpWipe, PumpFree, PumpReport, Given
<1>11. CASE Clear \/ ClearStore
  BY <1>11 DEF Clear, ClearStore, Given
<1>12. ASSUME NEW t \in Pasted, Activate(t) PROVE Holds'
  BY <1>12 DEF Activate, Given
<1>13. CASE TimePasses \/ UNCHANGED vars
  BY <1>13 DEF TimePasses, vars, Given
<1>14. CASE Reset
  BY <1>14 DEF Reset, Fresh, Given
<1> QED
  BY <1>1, <1>2, <1>3, <1>4, <1>5, <1>6, <1>7, <1>8, <1>9, <1>10, <1>11,
     <1>12, <1>13, <1>14 DEF Next, LoopStep, SubmitStep

LEMMA BridgeInvariant ==
  ASSUME OneSubmitter
  PROVE  Spec => []BridgeInv
<1>1. Init => BridgeInv
  BY TextTypes, Distinct
     DEF Init, BridgeInv, TypeOK, SlotInv, ApplyInv, InForceMatchesBlob, StoredIsIssued,
         ReportInv, Status, Submitting, Pumping, HasStorage
<1>2. BridgeInv /\ TypeOK' /\ [Next]_vars => BridgeInv'
  BY BridgeStep DEF BridgeInv, Holds
<1> QED
  BY <1>1, <1>2, BridgeTypeCorrect, PTL DEF Spec

(* One submitter: what blob() shows is the canonical text of the licence   *)
(* that vl_verify() accepted, whatever was submitted meanwhile.            *)
THEOREM InForceMatchesBlobAlways ==
  ASSUME OneSubmitter
  PROVE  Spec => []InForceMatchesBlob
  BY BridgeInvariant, PTL DEF BridgeInv

(* One submitter: storage never receives what was not issued.              *)
THEOREM StoredIsIssuedAlways ==
  ASSUME OneSubmitter
  PROVE  Spec => []StoredIsIssued
  BY BridgeInvariant, PTL DEF BridgeInv

(* One submitter: an OK reported for a submission means in force and kept. *)
THEOREM ReportedOkIsDurableAlways ==
  ASSUME OneSubmitter
  PROVE  Spec => []ReportedOkIsDurable
<1>1. BridgeInv => ReportedOkIsDurable
  BY DEF BridgeInv, ReportInv, ReportedOkIsDurable, Pumping
<1> QED
  BY <1>1, BridgeInvariant, PTL

(* One submitter: nobody writes the slot while pump() reads it.            *)
THEOREM NoOverwriteUnderPumpAlways ==
  ASSUME OneSubmitter
  PROVE  Spec => NoOverwriteUnderPump
<1>1. BridgeInv /\ [Next]_vars => [PumpReads => pc'[Loop] = "boot"]_pending
  <2> SUFFICES ASSUME BridgeInv, Next, pending' # pending, PumpReads
               PROVE  pc'[Loop] = "boot"
    BY DEF vars
  <2>1. ~ \E p \in Producers : SubmitStep(p)
    BY DEF BridgeInv, SlotInv, PumpReads, Submitting, SubmitStep, SubmitCopy,
           SubmitCopied, SubmitPublish
  <2>2. ~PumpWipe
    BY DEF PumpReads, PumpWipe
  <2>3. Reset
    BY <2>1, <2>2 DEF Next, LoopStep, SubmitCheck, BeginFails, BeginLoads, Pump, ApplyVerify,
       ApplyCanonicalise, ApplyStore, PumpFree, PumpReport, Clear, ClearStore,
       Activate, TimePasses, slot
  <2> QED
    BY <2>3, Distinct DEF Reset, Fresh
<1> QED
  BY <1>1, BridgeInvariant, PTL DEF Spec, NoOverwriteUnderPump

-----------------------------------------------------------------------------
(* The refinement.  Every step of the object is a step of the abstract     *)
(* slot or leaves it alone.                                                *)
LEMMA SlotStep ==
  ASSUME OneSubmitter, BridgeInv, [Next]_vars
  PROVE  [Slot!Next]_(Slot!svars)
<1> USE TextTypes, Distinct
    DEF Slot!svars, Slot!Next, BridgeInv, TypeOK, SlotInv, ApplyInv, InForceMatchesBlob,
        Submitting, Pumping, Goto, slot, verdict, job
<1>1. ASSUME NEW p \in Producers, NEW t \in Pasted, SubmitCheck(p, t)
      PROVE  UNCHANGED Slot!svars
  BY <1>1 DEF SubmitCheck
<1>2. ASSUME NEW p \in Producers, SubmitCopy(p) \/ SubmitCopied(p)
      PROVE  UNCHANGED Slot!svars
  BY <1>2 DEF SubmitCopy, SubmitCopied
<1>3. ASSUME NEW p \in Producers, SubmitPublish(p) PROVE Slot!Put
  <2>1. ~flag /\ pending \in Pasted /\ pending \in Slot!Pasted
    BY <1>3 DEF SubmitPublish, Pasted, Junk, Slot!Pasted, Slot!Forms
  <2>2. pc[Loop] \notin {"canonicalise", "store", "wipe", "free"} \/ source = "own"
    BY <2>1
  <2>3. pc'[Loop] \notin {"canonicalise", "store", "wipe", "free"} \/ source = "own"
    BY <1>3, <2>2 DEF SubmitPublish
  <2>4. pc'[Loop] # "free"
    BY <1>3, <2>1 DEF SubmitPublish
  <2> QED
    BY <1>3, <2>1, <2>3, <2>4 DEF SubmitPublish, Slot!Put
<1>4. CASE BeginFails \/ BeginLoads \/ Pump
  BY <1>4 DEF BeginFails, BeginLoads, Pump
<1>5. CASE ApplyVerify
  <2>1. CASE source = "pending"
    <3>1. Slot!Judge
      BY <1>5, <2>1 DEF ApplyVerify, AfterApply, Given, Slot!Judge
    <3> QED
      BY <3>1
  <2>2. CASE source = "own"
    <3>1. Slot!Supply
      BY <1>5, <2>2 DEF ApplyVerify, AfterApply, Given, Slot!Supply
    <3> QED
      BY <3>1
  <2> QED
    BY <2>1, <2>2
<1>6. CASE ApplyCanonicalise
  BY <1>6 DEF ApplyCanonicalise, AfterApply
<1>7. CASE ApplyStore
  <2>1. CASE stored' = stored
    BY <1>7, <2>1 DEF ApplyStore, AfterApply
  <2>2. CASE stored' = blob
    <3>1. Slot!Keep
      BY <1>7, <2>2 DEF ApplyStore, AfterApply, Slot!Keep
    <3> QED
      BY <3>1
  <2> QED
    BY <1>7, <2>1, <2>2 DEF ApplyStore
<1>8. CASE PumpWipe
  <2>1. Slot!Take
    BY <1>8 DEF PumpWipe, Slot!Take
  <2> QED
    BY <2>1
<1>9. CASE PumpFree \/ PumpReport
  BY <1>9 DEF PumpFree, PumpReport
<1>10. CASE Clear
  <2>1. Slot!Supply
    BY <1>10 DEF Clear, Slot!Supply
  <2> QED
    BY <2>1
<1>11. CASE ClearStore
  <2>1. CASE stored' = stored
    BY <1>11, <2>1 DEF ClearStore
  <2>2. CASE stored' = Blank
    <3>1. Slot!Erase
      BY <1>11, <2>2 DEF ClearStore, Slot!Erase, Blank
    <3> QED
      BY <3>1
  <2> QED
    BY <1>11, <2>1, <2>2 DEF ClearStore
<1>12. ASSUME NEW t \in Pasted, Activate(t) PROVE UNCHANGED Slot!svars
  BY <1>12 DEF Activate
<1>13. CASE TimePasses \/ UNCHANGED vars
  BY <1>13 DEF TimePasses, vars
<1>14. CASE Reset
  <2>1. Slot!Restart
    BY <1>14 DEF Reset, Fresh, Slot!Restart, Blank
  <2> QED
    BY <2>1
<1> QED
  BY <1>1, <1>2, <1>3, <1>4, <1>5, <1>6, <1>7, <1>8, <1>9, <1>10, <1>11,
     <1>12, <1>13, <1>14 DEF Next, LoopStep, SubmitStep

(* One submitter: the object is the slot of ActivationSlot.                *)
THEOREM SlotImplementation ==
  ASSUME OneSubmitter
  PROVE  Spec => ImplementsSlot
<1>1. Init => Slot!Init
  BY Distinct DEF Init, Slot!Init
<1>2. BridgeInv /\ [Next]_vars => [Slot!Next]_(Slot!svars)
  BY SlotStep
<1> QED
  BY <1>1, <1>2, BridgeInvariant, PTL DEF Spec, ImplementsSlot, Slot!Spec
=============================================================================
