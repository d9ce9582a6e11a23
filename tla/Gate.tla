-------------------------------- MODULE Gate --------------------------------
(***************************************************************************)
(* examples/baremetal/vl_gate.c: a gate without an operating system.  The  *)
(* main program starts it, shows the device id and asks it for features;   *)
(* the UART's interrupt hands it lines, and preempts the main program but  *)
(* is not preempted by it.  The vendor mints for the id that was shown.    *)
(***************************************************************************)
EXTENDS Fingerprint

CONSTANT
  Foreign       \* the fingerprint of a device that is not this one

VARIABLES
  g_status, g_license,
  saved,        \* non-volatile: what board_save_blob() was given last, {} if nothing
  main,         \* the main program: before gate_init(), in its loop, in gate_allows()
  isr,          \* what the interrupt has verified and goes on to save, with the hardware
  answer,       \* what gate_allows() returned last
  minted        \* the fingerprint the vendor was told
VARIABLE
  kept          \* history: what was saved last, with the hardware it was verified on

gateVars == <<g_status, g_license, saved, main, isr, answer, minted, kept>>
vars     == <<fpVars, gateVars>>

NoLicence == [grants |-> FALSE]
Junk      == [device |-> Foreign, grants |-> FALSE, form |-> "noise"]

(* What arrives on the line: the vendor's text as printed or in groups,    *)
(* somebody else's, or noise.  In groups it outgrows VL_BLOB_STR_BUF_LEN.  *)
Lines ==
  [device : {minted, Foreign}, grants : BOOLEAN, form : {"canonical", "grouped"}] \cup {Junk}

(* vl_verify() as the gate calls it.  A fingerprint stands for what it is  *)
(* the hash of (HashesItsSegments).                                        *)
Verdict(t) ==
  LET fp == MessageOf(board, hw, iface) IN
  CASE t.form = "noise" -> "BAD_FORMAT"
    [] fp = <<>>        -> "PLATFORM"
    [] t.device # fp    -> "DEVICE_MISMATCH"
    [] OTHER            -> "OK"

(* Mutant: a refused text leaves the licence that was there.               *)
BugFilled(t) == IF Verdict(t) = "OK" THEN [grants |-> t.grants] ELSE g_license

Filled(t) == IF Verdict(t) = "OK" THEN [grants |-> t.grants] ELSE NoLicence

GateInit0 ==
  /\ g_status = "NOT_FOUND" /\ g_license = NoLicence
  /\ saved = {}
  /\ main = "boot" /\ isr = {} /\ answer = FALSE
  /\ minted = Foreign
  /\ kept = {}

(* gate_init(): what is loaded is verified on every boot.  A text longer   *)
(* than its buffer is not found, or is cut.                                *)
GateInit ==
  /\ board = "gate" /\ main = "boot"
  /\ main' = "run"
  /\ \/ /\ \A t \in saved : t.form = "grouped"
        /\ g_status' = "NOT_FOUND"
        /\ UNCHANGED g_license
     \/ \E t \in saved : \E loaded \in IF t.form = "grouped" THEN {Junk} ELSE {t} :
          g_status' = Verdict(loaded) /\ g_license' = Filled(loaded)
  /\ UNCHANGED <<fpVars, saved, isr, answer, minted, kept>>

(* gate_device_id() went well: the vendor mints for what it showed.        *)
Mint ==
  /\ board = "gate" /\ main = "run" /\ isr = {}
  /\ call.pc = "idle" /\ out # <<>>
  /\ minted' = message
  /\ UNCHANGED <<fpVars, g_status, g_license, saved, main, isr, answer, kept>>

(* gate_allows() reads the status, then the licence.                       *)
AllowsStatus ==
  /\ board = "gate" /\ main = "run" /\ isr = {} /\ call.pc = "idle"
  /\ IF g_status = "OK" THEN main' = "allows" /\ UNCHANGED answer
                        ELSE answer' = FALSE /\ UNCHANGED main
  /\ UNCHANGED <<fpVars, g_status, g_license, saved, isr, minted, kept>>

AllowsFeature ==
  /\ board = "gate" /\ main = "allows" /\ isr = {}
  /\ answer' = g_license.grants
  /\ main' = "run"
  /\ UNCHANGED <<fpVars, g_status, g_license, saved, isr, minted, kept>>

(* Mutant: gate_uart_rx() stores what came before it knows what it is.     *)
BugLine(t) ==
  /\ board = "gate" /\ main \in {"run", "allows"} /\ isr = {}
  /\ g_status' = Verdict(t)
  /\ g_license' = Filled(t)
  /\ isr' = IF Verdict(t) = "OK" THEN {[text |-> t, hw |-> hw]} ELSE {}
  /\ saved' = {t}
  /\ UNCHANGED <<fpVars, main, answer, minted, kept>>

(* gate_uart_rx() has a whole line: it verifies it, and goes on to save it *)
(* if it is good.                                                          *)
Line(t) ==
  /\ board = "gate" /\ main \in {"run", "allows"} /\ isr = {}
  /\ g_status' = Verdict(t)
  /\ g_license' = Filled(t)
  /\ isr' = IF Verdict(t) = "OK" THEN {[text |-> t, hw |-> hw]} ELSE {}
  /\ UNCHANGED <<fpVars, saved, main, answer, minted, kept>>

Save ==
  /\ isr # {}
  /\ saved' = {k.text : k \in isr}
  /\ isr' = {}
  /\ kept' = isr
  /\ UNCHANGED <<fpVars, g_status, g_license, main, answer, minted>>

(* The power fails, the save perhaps done.                                 *)
PowerCycle ==
  /\ Restart
  /\ \/ UNCHANGED <<saved, kept>>
     \/ isr # {} /\ saved' = {k.text : k \in isr} /\ kept' = isr
  /\ g_status' = "NOT_FOUND" /\ g_license' = NoLicence
  /\ main' = "boot" /\ isr' = {} /\ answer' = FALSE
  /\ UNCHANGED minted

-----------------------------------------------------------------------------
Init == FpInit /\ GateInit0

(* The main program computes device ids only in its loop, and stands still *)
(* while the interrupt runs.  Programs for other boards are not gates.     *)
Fingerprinting ==
  /\ isr = {}
  /\ board = "gate" => main = "run"
  /\ Begin \/ FpStep
  /\ UNCHANGED gateVars

Changing ==
  /\ HardwareChanges
  /\ UNCHANGED gateVars

Next ==
  \/ Fingerprinting
  \/ Changing
  \/ PowerCycle
  \/ GateInit \/ Mint \/ AllowsStatus \/ AllowsFeature \/ Save
  \/ \E t \in Lines : Line(t)

(* A call that was begun is gone on with: by the main program whenever the  *)
(* interrupt leaves it time, as it does between any two lines.             *)
Spec ==
  /\ Init /\ [][Next]_vars
  /\ SF_vars(Fingerprinting /\ call.pc # "idle")
  /\ WF_vars(Save)

-----------------------------------------------------------------------------
(* vl_gate.c:211-214: gate_allows() says yes only while a licence for this *)
(* device that grants it is in force, though a line may come between the   *)
(* two readings it makes.                                                  *)
AllowsIsTruthful ==
  [][main = "allows" /\ main' = "run" /\ answer' => g_status = "OK" /\ g_license.grants]_vars

(* vl_gate.c:270-271: what was accepted and saved as the vendor prints it  *)
(* is in force again after every boot on the same hardware, whatever was   *)
(* mistyped since.                                                         *)
ComesBack ==
  [][main = "boot" /\ main' = "run" =>
       \A k \in kept : k.text.form = "canonical" /\ k.hw = hw => g_status' = "OK"]_vars
=============================================================================
