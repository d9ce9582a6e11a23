------------------------------- MODULE Bridge -------------------------------
(***************************************************************************)
(* class vecti::License of bridge/vl_bridge.h: the licence a device holds. *)
(*                                                                         *)
(* The loop task owns the object: it loads what is stored at boot, applies *)
(* what was submitted, activates and clears.  Any task may submit() a text *)
(* into a one-slot buffer; a flag publishes it and pump() on the loop task *)
(* consumes it.  There is no lock: submit() and pump() are the steps that  *)
(* touch the buffer and the flag, in program order.                        *)
(*                                                                         *)
(* vl_verify() is Verify's business.  Here a text names a licence or none, *)
(* and `valid` is the set of licences vl_verify() would accept just now.   *)
(***************************************************************************)
CONSTANTS
  Loop,        \* the loop task
  Producers,   \* the tasks that call submit(); the loop task may be one
  Licences,    \* licences the vendor issued to this device
  NoLicence,   \* what an undecodable or foreign text stands for
  Nothing,     \* the HAL's slot of a device that never stored anything
  NoSlot       \* the HAL provides neither blob_load nor blob_store

VARIABLES
  status,      \* _status
  lic,         \* _lic: the licence it was filled from
  blob,        \* _blob
  pending,     \* _pending, the slot
  flag,        \* _pending_flag
  pc,          \* where each task is
  held,        \* the text a producer is submitting, or the loop task's own buffer
  source,      \* which buffer the loop task's _apply() reads: "pending" or "own"
  persist,     \* _apply()'s second argument
  result,      \* what the running activation will report
  stored,      \* non-volatile: the HAL's blob slot
  valid        \* environment: the licences vl_verify() accepts now

vars == <<status, lic, blob, pending, flag, pc, held, source, persist, result,
          stored, valid>>

Forms == {"canonical", "respelt", "junk", "torn", "blank"}
Text  == [lic : Licences \cup {NoLicence}, form : Forms]

Blank == [lic |-> NoLicence, form |-> "blank"]  \* the empty string
Torn  == [lic |-> NoLicence, form |-> "torn"]   \* a half-copied buffer
Junk  == [lic |-> NoLicence, form |-> "junk"]   \* anything that does not verify

(* What an operator may paste: a licence in either spelling, or junk.      *)
Pasted == [lic : Licences, form : {"canonical", "respelt"}] \cup {Junk}

(* The fold in _apply(): upper case, aliases, no grouping.                 *)
Canonical(t) == IF t.lic = NoLicence THEN t ELSE [t EXCEPT !.form = "canonical"]

Status == {"OK", "NOT_FOUND", "REFUSED", "BAD_FORMAT", "PLATFORM"}

ASSUME TasksAssumption   == Producers # {}
ASSUME LicenceAssumption == NoLicence \notin Licences
ASSUME NothingAssumption == Nothing \notin Text
ASSUME NoSlotAssumption  == NoSlot \notin Text \cup {Nothing}

Tasks == Producers \cup {Loop}

-----------------------------------------------------------------------------
(* RAM after a reset: the constructor has run, begin() has not.            *)
Fresh ==
  /\ status' = "NOT_FOUND"
  /\ lic' = NoLicence
  /\ blob' = Blank
  /\ pending' = Blank
  /\ flag' = FALSE
  /\ pc' = [t \in Tasks |-> IF t = Loop THEN "boot" ELSE "idle"]
  /\ held' = [t \in Tasks |-> Blank]
  /\ source' = "own"
  /\ persist' = FALSE
  /\ result' = "OK"

Init ==
  /\ status = "NOT_FOUND"
  /\ lic = NoLicence
  /\ blob = Blank
  /\ pending = Blank
  /\ flag = FALSE
  /\ pc = [t \in Tasks |-> IF t = Loop THEN "boot" ELSE "idle"]
  /\ held = [t \in Tasks |-> Blank]
  /\ source = "own"
  /\ persist = FALSE
  /\ result = "OK"
  /\ stored \in {Nothing, NoSlot}
  /\ valid \in SUBSET Licences

HasStorage == stored # NoSlot

Goto(t, l) == pc' = [pc EXCEPT ![t] = l]

slot    == <<pending, flag>>
verdict == <<status, lic, blob>>
job     == <<source, persist, result>>

-----------------------------------------------------------------------------
(* Mutant: submit() does not look at the flag.                             *)
BugSubmitUnlooked(p, t) ==
  /\ pc[p] = "idle"
  /\ Goto(p, "copy")
  /\ held' = [held EXCEPT ![p] = t]
  /\ UNCHANGED <<slot, verdict, job, stored, valid>>

(* submit(): look at the flag, copy, publish.  A call that finds the slot  *)
(* taken, or a blank or overlong text, returns false and does nothing.     *)
SubmitCheck(p, t) ==
  /\ pc[p] = "idle"
  /\ ~flag
  /\ Goto(p, "copy")
  /\ held' = [held EXCEPT ![p] = t]
  /\ UNCHANGED <<slot, verdict, job, stored, valid>>

(* memcpy() is not atomic: the buffer is torn until it ends.               *)
SubmitCopy(p) ==
  /\ pc[p] = "copy"
  /\ Goto(p, "copying")
  /\ pending' = Torn
  /\ UNCHANGED <<flag, verdict, held, job, stored, valid>>

SubmitCopied(p) ==
  /\ pc[p] = "copying"
  /\ Goto(p, "publish")
  /\ pending' = held[p]
  /\ UNCHANGED <<flag, verdict, held, job, stored, valid>>

SubmitPublish(p) ==
  /\ pc[p] = "publish"
  /\ Goto(p, "idle")
  /\ flag' = TRUE
  /\ held' = [held EXCEPT ![p] = Blank]
  /\ UNCHANGED <<pending, verdict, job, stored, valid>>

-----------------------------------------------------------------------------
(* The loop task.                                                          *)

(* begin() from setup(): load what is stored.  A failed load leaves the    *)
(* object as it was but for the status.  An erased slot is not found on    *)
(* some boards and loads as the empty text on others.                      *)
BeginFails ==
  /\ pc[Loop] = "boot"
  /\ Goto(Loop, "idle")
  /\ \/ ~HasStorage /\ status' = "NOT_FOUND"
     \/ HasStorage /\ status' = "PLATFORM"
     \/ stored \in {Nothing, Blank} /\ status' = "NOT_FOUND"
  /\ UNCHANGED <<lic, blob, slot, held, job, stored, valid>>

(* Mutant: begin() ignores what blob_load() returned.                      *)
BugBeginUnchecked ==
  /\ pc[Loop] = "boot"
  /\ HasStorage
  /\ Goto(Loop, "verify")
  /\ held' = [held EXCEPT ![Loop] = stored]
  /\ source' = "own"
  /\ persist' = FALSE
  /\ UNCHANGED <<result, slot, verdict, stored, valid>>

BeginLoads ==
  /\ pc[Loop] = "boot"
  /\ stored \in Text
  /\ Goto(Loop, "verify")
  /\ held' = [held EXCEPT ![Loop] = stored]
  /\ source' = "own"
  /\ persist' = FALSE
  /\ UNCHANGED <<result, slot, verdict, stored, valid>>

(* activate() called by the sketch with a text of its own.                 *)
Activate(t) ==
  /\ pc[Loop] = "idle"
  /\ Goto(Loop, "verify")
  /\ held' = [held EXCEPT ![Loop] = t]
  /\ source' = "own"
  /\ persist' = TRUE
  /\ UNCHANGED <<result, slot, verdict, stored, valid>>

(* Mutants: pump() frees the slot first; pump() serves unlicensed devices. *)
BugPumpFreesFirst ==
  /\ pc[Loop] = "idle"
  /\ flag
  /\ flag' = FALSE
  /\ Goto(Loop, "verify")
  /\ source' = "pending"
  /\ persist' = TRUE
  /\ UNCHANGED <<result, held, pending, verdict, stored, valid>>

BugPumpOnlyOnce ==
  /\ pc[Loop] = "idle"
  /\ flag
  /\ status # "OK"
  /\ Goto(Loop, "verify")
  /\ source' = "pending"
  /\ persist' = TRUE
  /\ UNCHANGED <<result, held, slot, verdict, stored, valid>>

(* pump() finds the flag set and activates the slot itself, not a copy.    *)
Pump ==
  /\ pc[Loop] = "idle"
  /\ flag
  /\ Goto(Loop, "verify")
  /\ source' = "pending"
  /\ persist' = TRUE
  /\ UNCHANGED <<result, held, slot, verdict, stored, valid>>

(* What _apply() finds when it reads its argument.                         *)
Given == IF source = "pending" THEN pending ELSE held[Loop]

(* Where the loop task goes when _apply() returns.                         *)
AfterApply == IF source = "pending" THEN "wipe" ELSE "idle"

(* Mutant: a refused text leaves the old _blob behind.                     *)
BugApplyKeepsBlob ==
  /\ pc[Loop] = "verify"
  /\ \/ /\ Given.lic \in valid
        /\ status' = "OK"
        /\ lic' = Given.lic
        /\ Goto(Loop, "canonicalise")
        /\ UNCHANGED <<blob, result>>
     \/ /\ Given.lic \notin valid
        /\ status' = IF Given.lic = NoLicence THEN "BAD_FORMAT" ELSE "REFUSED"
        /\ lic' = NoLicence
        /\ result' = status'
        /\ Goto(Loop, AfterApply)
        /\ UNCHANGED blob
  /\ UNCHANGED <<slot, held, source, persist, stored, valid>>

(* _apply(), first reading: vl_verify().                                   *)
ApplyVerify ==
  /\ pc[Loop] = "verify"
  /\ \/ /\ Given.lic \in valid
        /\ status' = "OK"
        /\ lic' = Given.lic
        /\ Goto(Loop, "canonicalise")
        /\ UNCHANGED <<blob, result>>
     \/ /\ Given.lic \notin valid
        /\ status' = IF Given.lic = NoLicence THEN "BAD_FORMAT" ELSE "REFUSED"
        /\ lic' = NoLicence
        /\ blob' = Blank
        /\ result' = status'
        /\ Goto(Loop, AfterApply)
  /\ UNCHANGED <<slot, held, source, persist, stored, valid>>

(* Mutant: _blob keeps the operator's spelling.                            *)
BugKeepsSpelling ==
  /\ pc[Loop] = "canonicalise"
  /\ blob' = Given
  /\ result' = "OK"
  /\ Goto(Loop, IF persist /\ HasStorage THEN "store" ELSE AfterApply)
  /\ UNCHANGED <<status, lic, slot, held, source, persist, stored, valid>>

(* _apply(), second reading: keep the canonical spelling.                  *)
ApplyCanonicalise ==
  /\ pc[Loop] = "canonicalise"
  /\ blob' = Canonical(Given)
  /\ result' = "OK"
  /\ Goto(Loop, IF persist /\ HasStorage THEN "store" ELSE AfterApply)
  /\ UNCHANGED <<status, lic, slot, held, source, persist, stored, valid>>

(* Mutant: a store that failed is not reported.                            *)
BugStoreUnchecked ==
  /\ pc[Loop] = "store"
  /\ stored' \in {stored, blob}
  /\ result' = "OK"
  /\ Goto(Loop, AfterApply)
  /\ UNCHANGED <<slot, verdict, held, source, persist, valid>>

(* blob_store(): it may fail, having written or not.  It is one step with  *)
(* one outcome here; what it may leave half written is in Storage.         *)
ApplyStore ==
  /\ pc[Loop] = "store"
  /\ \/ stored' = blob /\ result' = "OK"
     \/ stored' \in {stored, blob} /\ result' = "PLATFORM"
  /\ Goto(Loop, AfterApply)
  /\ UNCHANGED <<slot, verdict, held, source, persist, valid>>

(* pump() after activate(): wipe the slot, then free it.                   *)
PumpWipe ==
  /\ pc[Loop] = "wipe"
  /\ pending' = Blank
  /\ Goto(Loop, "free")
  /\ UNCHANGED <<flag, verdict, held, job, stored, valid>>

PumpFree ==
  /\ pc[Loop] = "free"
  /\ flag' = FALSE
  /\ Goto(Loop, "report")
  /\ UNCHANGED <<pending, verdict, held, job, stored, valid>>

(* _onResult: the callback hears `result`.                                 *)
PumpReport ==
  /\ pc[Loop] = "report"
  /\ Goto(Loop, "idle")
  /\ UNCHANGED <<slot, verdict, held, job, stored, valid>>

(* clear(): forget, then overwrite the HAL's slot with an empty text.      *)
Clear ==
  /\ pc[Loop] = "idle"
  /\ status' = "NOT_FOUND"
  /\ lic' = NoLicence
  /\ blob' = Blank
  /\ Goto(Loop, IF HasStorage THEN "erase" ELSE "idle")
  /\ UNCHANGED <<slot, held, job, stored, valid>>

(* blob_store() of an empty text, again one step.                          *)
ClearStore ==
  /\ pc[Loop] = "erase"
  /\ stored' \in {Blank, stored}
  /\ Goto(Loop, "idle")
  /\ UNCHANGED <<slot, verdict, held, job, valid>>

-----------------------------------------------------------------------------
(* Environment: licences come into and fall out of their windows.          *)
TimePasses ==
  /\ valid' \in (SUBSET Licences) \ {valid}
  /\ UNCHANGED <<slot, verdict, pc, held, job, stored>>

(* The power fails anywhere, a store perhaps done; RAM starts afresh.      *)
Reset ==
  /\ Fresh
  /\ stored' \in {stored} \cup (IF pc[Loop] = "store" THEN {blob} ELSE {})
                          \cup (IF pc[Loop] = "erase" THEN {Blank} ELSE {})
  /\ UNCHANGED valid

SubmitStep(p) == SubmitCopy(p) \/ SubmitCopied(p) \/ SubmitPublish(p)

(* What the loop task does whatever the sketch adds to it.                 *)
LoopStep ==
  \/ BeginFails \/ BeginLoads
  \/ Pump \/ ApplyVerify \/ ApplyCanonicalise \/ ApplyStore
  \/ PumpWipe \/ PumpFree \/ PumpReport
  \/ ClearStore

Next ==
  \/ \E p \in Producers : SubmitStep(p) \/ \E t \in Pasted : SubmitCheck(p, t)
  \/ LoopStep
  \/ Clear
  \/ \E t \in Pasted : Activate(t)
  \/ TimePasses
  \/ Reset

Spec == Init /\ [][Next]_vars

(* loop() runs again and again and always calls pump(), so a set flag is   *)
(* seen even if the sketch also activates or clears; a task inside         *)
(* submit() is scheduled again.                                            *)
FairSpec ==
  /\ Spec
  /\ WF_vars(LoopStep)
  /\ SF_vars(Pump)
  /\ \A p \in Producers : WF_vars(SubmitStep(p))

-----------------------------------------------------------------------------
(* Properties.                                                             *)

(* The members of the object and the buffers hold what they can hold.      *)
TypeOK ==
  /\ status \in Status
  /\ lic \in Licences \cup {NoLicence}
  /\ blob \in Text
  /\ pending \in Text
  /\ flag \in BOOLEAN
  /\ pc \in [Tasks -> {"boot", "idle", "copy", "copying", "publish", "verify",
                       "canonicalise", "store", "wipe", "free", "report", "erase"}]
  /\ held \in [Tasks -> Text]
  /\ source \in {"pending", "own"}
  /\ persist \in BOOLEAN
  /\ result \in Status
  /\ stored \in Text \cup {Nothing, NoSlot}
  /\ valid \in SUBSET Licences

(* vl_bridge.h:107-119: between the two readings of _apply() apart, blob() *)
(* is the canonical text of exactly the licence that was verified, and a   *)
(* device that is not licensed shows neither features nor a blob.          *)
InForceMatchesBlob ==
  pc[Loop] # "canonicalise" =>
    IF status = "OK" THEN lic # NoLicence /\ blob = [lic |-> lic, form |-> "canonical"]
                     ELSE lic = NoLicence /\ blob = Blank

(* tests/test_vl_bridge.cpp:316: a bad blob is never stored.  Non-volatile *)
(* storage holds nothing, an erased slot, or a licence in canonical form.  *)
StoredIsIssued ==
  stored \in {Nothing, NoSlot, Blank} \cup [lic : Licences, form : {"canonical"}]

(* vl_bridge.h:138-143, 173: an activation reported as OK is in force and  *)
(* already in storage, so it survives the next reset.                      *)
ReportedOkIsDurable ==
  pc[Loop] = "report" /\ result = "OK" =>
    /\ status = "OK"
    /\ HasStorage => stored = blob

(* pump() is between its readings of the slot and the end of the store.    *)
PumpReads == source = "pending" /\ pc[Loop] \in {"verify", "canonicalise", "store"}

(* vl_bridge.h:26-27: "while a blob is pending, submit() returns false     *)
(* rather than overwriting a buffer pump() may be reading".  Only a reset   *)
(* of the device empties it under pump().                                  *)
NoOverwriteUnderPump == [][PumpReads => pc'[Loop] = "boot"]_pending

(* A text that submit() accepted is judged and its result reported, unless *)
(* the device restarts first.                                              *)
SubmissionAnswered == flag ~> pc[Loop] \in {"report", "boot"}

-----------------------------------------------------------------------------
(* The invariant that makes the object work when one task submits.         *)

Submitting == {"copy", "copying", "publish"}
Pumping    == {"wipe", "free", "report"}

(* A set flag excludes a task inside submit(), and pump() holds the flag   *)
(* from its first look at the slot until it frees it.                      *)
SlotInv ==
  /\ flag => /\ pending \in Pasted \/ pc[Loop] = "free"
             /\ \A p \in Producers : pc[p] \notin Submitting
  /\ source = "pending" /\ pc[Loop] \in {"verify", "canonicalise", "store", "wipe", "free"}
       => flag /\ persist
  /\ pc[Loop] \in Pumping => source = "pending"
  /\ \A p \in Producers :
       /\ pc[p] \in Submitting => held[p] \in Pasted
       /\ pc[p] = "publish" => pending = held[p]

(* Between its two readings _apply() sees the same licence.                *)
ApplyInv ==
  /\ pc[Loop] = "canonicalise" => status = "OK" /\ lic \in Licences /\ Given.lic = lic
  /\ pc[Loop] = "store" => status = "OK"
  /\ pc[Loop] \in {"boot", "erase"} => status # "OK"

(* What pump() will report has been true since the store.                  *)
ReportInv ==
  pc[Loop] \in Pumping /\ result = "OK" =>
    /\ status = "OK"
    /\ HasStorage => stored = blob

BridgeInv == TypeOK /\ SlotInv /\ ApplyInv /\ InForceMatchesBlob /\ StoredIsIssued /\ ReportInv

-----------------------------------------------------------------------------
(* The abstract object: a slot, a licence in force, a licence kept.        *)
Slot == INSTANCE ActivationSlot WITH
  slot    <- IF flag /\ pc[Loop] # "free" THEN pending ELSE Nothing,
  judged  <- flag /\ source = "pending" /\ pc[Loop] \in {"canonicalise", "store", "wipe"},
  inforce <- lic,
  kept    <- IF stored \in Text THEN stored.lic ELSE NoLicence

(* With one task submitting, the object behaves as the slot does: each     *)
(* accepted text is judged exactly once, nothing else gets in force        *)
(* through the slot, and what is kept is what was in force.                *)
ImplementsSlot == Slot!Spec
=============================================================================
