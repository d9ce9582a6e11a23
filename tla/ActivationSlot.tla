--------------------------- MODULE ActivationSlot ---------------------------
(***************************************************************************)
(* What vecti::License promises the tasks that use it (bridge/vl_bridge.h: *)
(* 14-27, 138-168), with no buffer, flag or intermediate step: a submitted *)
(* text waits alone in a slot, is judged once, and only then leaves; a     *)
(* licence comes into force only by being judged; and what is kept across  *)
(* restarts is a licence that was in force.                                *)
(***************************************************************************)
CONSTANTS Licences, NoLicence, Nothing

VARIABLES
  slot,     \* the submitted text, or Nothing
  judged,   \* has the text in the slot been judged?
  inforce,  \* the licence in force, or NoLicence
  kept      \* the licence in non-volatile storage, or NoLicence

svars == <<slot, judged, inforce, kept>>

Forms  == {"canonical", "respelt", "junk"}
Pasted == [lic : Licences \cup {NoLicence}, form : Forms]

Init ==
  /\ slot = Nothing
  /\ judged = FALSE
  /\ inforce = NoLicence
  /\ kept = NoLicence

Put ==
  /\ slot = Nothing
  /\ slot' \in Pasted
  /\ UNCHANGED <<judged, inforce, kept>>

(* The text in the slot is accepted or not; nothing else can come of it.   *)
Judge ==
  /\ slot # Nothing
  /\ ~judged
  /\ judged' = TRUE
  /\ inforce' \in {NoLicence, slot.lic}
  /\ UNCHANGED <<slot, kept>>

Take ==
  /\ judged
  /\ slot' = Nothing
  /\ judged' = FALSE
  /\ UNCHANGED <<inforce, kept>>

(* The sketch, or storage at boot, supplies a licence of its own.          *)
Supply ==
  /\ ~judged
  /\ inforce' \in Licences \cup {NoLicence}
  /\ UNCHANGED <<slot, judged, kept>>

Keep ==
  /\ inforce # NoLicence
  /\ kept' = inforce
  /\ UNCHANGED <<slot, judged, inforce>>

Erase ==
  /\ inforce = NoLicence
  /\ kept' = NoLicence
  /\ UNCHANGED <<slot, judged, inforce>>

Restart ==
  /\ slot' = Nothing
  /\ judged' = FALSE
  /\ inforce' = NoLicence
  /\ kept' \in {kept, inforce}

Next == Put \/ Judge \/ Take \/ Supply \/ Keep \/ Erase \/ Restart

Spec == Init /\ [][Next]_svars
=============================================================================
