------------------------------- MODULE Product -------------------------------
(***************************************************************************)
(* examples/esp32-arduino: the licence object in a product, with those of  *)
(* VectiNet, VectiDash, VectiSerial and VectiOTA that are installed.  One  *)
(* pass of loop() is five calls on the loop task; the portal's form and    *)
(* the console are served on another task and may come between any two.    *)
(*                                                                         *)
(* A call of the object is one step here: Bridge has its steps, and shows  *)
(* what two overlapping calls do to its buffer.                            *)
(***************************************************************************)
EXTENDS Integers, Sequences

CONSTANTS
  Licences,    \* licences the vendor issued to this device
  Ota,         \* those that grant FEATURE_OTA
  Junk,        \* a text that is no licence
  TooLong,     \* a text that does not fit _pending
  Nothing,     \* the absence of a licence or of a text
  Sketches,    \* sets of the siblings a sketch may be built with
  MaxPastes    \* bound: how many texts the operator enters

Siblings == {"net", "dash", "serial", "ota"}
Texts    == Licences \cup {Junk, TooLong}

ASSUME OtaAssumption      == Ota \subseteq Licences
ASSUME NamesAssumption    ==
  /\ Junk # Nothing /\ TooLong # Nothing /\ Junk # TooLong
  /\ {Junk, TooLong, Nothing} \cap Licences = {}
ASSUME SketchesAssumption == Sketches \subseteq SUBSET Siblings
ASSUME PastesAssumption   == MaxPastes \in Nat

VARIABLES
  parts,       \* the siblings this sketch was built with
  at,          \* the call of setup() or loop() the loop task makes next
  status,      \* License::_status
  inforce,     \* the licence _lic and _blob are of
  waiting,     \* the text in _pending
  heard,       \* what onActivation() printed last
  last,        \* NetLicensePortal::_last
  card,        \* the cards: _shown, the paste box
  allowed,     \* VectiOTA: the kinds of update it accepts, all after a reset
  stored,      \* non-volatile: the licence in NVS
  key,         \* non-volatile: VectiNet's parameter vl_key
  clock,       \* environment: has SNTP set the clock?
  valid,       \* environment: the licences in their window
  pastes       \* bound

(* History.                                                                *)
VARIABLES
  credit,      \* texts entered or kept for this boot, less those that were judged
  gated        \* has loop() been round once?

object == <<status, inforce, waiting, heard, stored, credit>>
ota    == <<allowed, gated>>
world  == <<parts, key, clock, valid, pastes>>
vars   == <<parts, at, status, inforce, waiting, heard, last, card, allowed,
            stored, key, clock, valid, pastes, credit, gated>>

Updates == {"firmware", "filesystem", "pull"}

(* The calls of loop(), in order; those of absent siblings are not there.  *)
Calls == <<"pump", "portal", "card", "console", "gate">>
Needs == [portal |-> "net", card |-> "dash", console |-> "serial", gate |-> "ota"]

Follows(i) == {j \in (i + 1)..Len(Calls) : Needs[Calls[j]] \in parts}

Proceed(call) ==
  \E i \in DOMAIN Calls :
    /\ Calls[i] = call
    /\ \/ Follows(i) = {} /\ at' = "pump"
       \/ \E j \in Follows(i) : at' = Calls[j] /\ \A k \in Follows(i) : j <= k

-----------------------------------------------------------------------------
(* vl_verify() on an ESP32: the text is judged before the clock is asked,  *)
(* and a clock that SNTP has not set is an error.                          *)
Verdict(t) ==
  CASE t = Junk     -> "BAD_FORMAT"
    [] ~clock       -> "PLATFORM"
    [] t \notin valid -> "REFUSED"
    [] OTHER        -> "OK"

(* License::_apply().                                                      *)
Apply(t) ==
  /\ status' = Verdict(t)
  /\ inforce' = IF Verdict(t) = "OK" THEN t ELSE Nothing

(* License::submit(): refused when the text is too long or one waits.      *)
Taken(t)  == waiting = Nothing /\ t # TooLong
Submit(t) == waiting' = IF Taken(t) THEN t ELSE waiting

(* License::pump() with onActivation(): an accepted licence is stored, and *)
(* the operator is told if that fails.                                     *)
PumpObject ==
  IF waiting = Nothing THEN UNCHANGED object
  ELSE /\ Apply(waiting)
       /\ waiting' = Nothing
       /\ credit' = credit - 1
       /\ IF Verdict(waiting) = "OK"
            THEN \/ stored' = waiting /\ heard' = "OK"
                 \/ stored' = stored  /\ heard' = "PLATFORM"
            ELSE heard' = Verdict(waiting) /\ UNCHANGED stored

(* DashLicenseCard::_repaint(), given the verdict.                         *)
Painted(c, st) == [shown |-> st, box |-> IF st = "OK" THEN Nothing ELSE c.box]

NewCard == [shown |-> "INTERNAL", box |-> Nothing]

-----------------------------------------------------------------------------
Init ==
  /\ parts \in Sketches
  /\ at = "setup"
  /\ status = "NOT_FOUND" /\ inforce = Nothing /\ waiting = Nothing /\ heard = "none"
  /\ last = Nothing /\ card = NewCard /\ allowed = Updates
  /\ stored = Nothing /\ key = Nothing
  /\ clock = FALSE /\ valid \in SUBSET Licences
  /\ pastes = 0 /\ credit = 0 /\ gated = FALSE

(* nvs_flash_init() finds no free page or an older layout, and setup()     *)
(* erases what the device had: licence, mark and VectiNet's parameters.    *)
Erases ==
  /\ stored' = Nothing /\ key' = Nothing
  /\ credit' = 0

(* License::begin(): an entry that does not open or read is no licence.    *)
Begins ==
  \/ status' \in {"NOT_FOUND", "PLATFORM"} /\ UNCHANGED inforce
  \/ stored' # Nothing /\ Apply(stored')

(* setup(): begin(), then the portal and the cards are attached.           *)
Setup ==
  /\ at = "setup"
  /\ Erases \/ UNCHANGED <<stored, key, credit>>
  /\ Begins
  /\ at' = "pump"
  /\ card' = IF "dash" \in parts THEN Painted(card, status') ELSE card
  /\ UNCHANGED <<parts, clock, valid, pastes, waiting, heard, last, ota>>

(* Mutant: pump() serves a device only until it is licensed.               *)
BugPump ==
  /\ at = "pump"
  /\ IF status = "OK" THEN UNCHANGED object ELSE PumpObject
  /\ Proceed("pump")
  /\ UNCHANGED <<world, last, card, ota>>

Pump ==
  /\ at = "pump"
  /\ PumpObject
  /\ Proceed("pump")
  /\ UNCHANGED <<world, last, card, ota>>

(* Mutant: the portal does not remember what it offered.                   *)
BugPortal ==
  /\ at = "portal"
  /\ IF key = Nothing \/ key = last THEN UNCHANGED waiting ELSE Submit(key)
  /\ Proceed("portal")
  /\ UNCHANGED <<world, last, status, inforce, heard, stored, credit, card, ota>>

(* NetLicensePortal::loop(): a key is remembered whether or not submit()   *)
(* takes it.                                                               *)
Portal ==
  /\ at = "portal"
  /\ IF key = Nothing \/ key = last
       THEN UNCHANGED <<last, waiting>>
       ELSE last' = key /\ Submit(key)
  /\ Proceed("portal")
  /\ UNCHANGED <<world, status, inforce, heard, stored, credit, card, ota>>

(* Mutant: the cards only look whether the device is licensed.             *)
BugCard ==
  /\ at = "card"
  /\ card' = IF (card.shown = "OK") # (status = "OK") THEN Painted(card, status) ELSE card
  /\ Proceed("card")
  /\ UNCHANGED <<world, object, last, ota>>

(* DashLicenseCard::loop().                                                *)
Card ==
  /\ at = "card"
  /\ card' = IF card.shown # status THEN Painted(card, status) ELSE card
  /\ Proceed("card")
  /\ UNCHANGED <<world, object, last, ota>>

(* licenseSerialLoop(): a second pump() in every pass.                     *)
Console ==
  /\ at = "console"
  /\ PumpObject
  /\ Proceed("console")
  /\ UNCHANGED <<world, last, card, ota>>

(* Mutant: updates are opened, never closed again.                         *)
BugGate ==
  /\ at = "gate"
  /\ allowed' = allowed \cup (IF status = "OK" /\ inforce \in Ota THEN Updates ELSE {})
  /\ gated' = TRUE
  /\ Proceed("gate")
  /\ UNCHANGED <<world, object, last, card>>

(* licenseGateOta(license, FEATURE_OTA, false): firmware is not touched.   *)
Gate ==
  /\ at = "gate"
  /\ allowed' = IF status = "OK" /\ inforce \in Ota THEN allowed \cup {"filesystem", "pull"}
                                                    ELSE allowed \ {"filesystem", "pull"}
  /\ gated' = TRUE
  /\ Proceed("gate")
  /\ UNCHANGED <<world, object, last, card>>

LoopTask == Setup \/ Pump \/ Portal \/ Card \/ Console \/ Gate

-----------------------------------------------------------------------------
(* Other tasks enter a text, with so much credit for what may come of it.  *)
Enters(worth) ==
  /\ pastes < MaxPastes
  /\ pastes' = pastes + 1
  /\ credit' = credit + worth
  /\ at # "setup"

Worth(taken) == IF taken THEN 1 ELSE 0

(* The portal's form is posted, with a key or without: VectiNet keeps what *)
(* it was given.                                                           *)
PostForm(t) ==
  /\ "net" \in parts /\ Enters(Worth(t # Nothing))
  /\ key' = t
  /\ UNCHANGED <<parts, at, status, inforce, waiting, heard, last, card, ota,
                 stored, clock, valid>>

(* licenseSerialCommand() with a text: queued, or refused.                 *)
Command(t) ==
  /\ "serial" \in parts /\ Enters(Worth(Taken(t)))
  /\ Submit(t)
  /\ UNCHANGED <<parts, at, status, inforce, heard, last, card, ota,
                 stored, key, clock, valid>>

(* The paste card's onChange, from VectiDash.tick() at the end of a pass.  *)
PasteCard(t) ==
  /\ "dash" \in parts /\ Enters(Worth(Taken(t))) /\ at = "pump"
  /\ card' = [card EXCEPT !.box = t]
  /\ Submit(t)
  /\ UNCHANGED <<parts, at, status, inforce, heard, last, ota,
                 stored, key, clock, valid>>

ClockSet ==
  /\ ~clock
  /\ clock' = TRUE
  /\ UNCHANGED <<parts, at, object, last, card, ota, key, valid, pastes>>

TimePasses ==
  /\ valid' \in (SUBSET Licences) \ {valid}
  /\ UNCHANGED <<parts, at, object, last, card, ota, key, clock, pastes>>

(* The clock survives a restart, not a loss of power.                      *)
Reset ==
  /\ at' = "setup"
  /\ status' = "NOT_FOUND" /\ inforce' = Nothing /\ waiting' = Nothing /\ heard' = "none"
  /\ last' = Nothing /\ card' = NewCard /\ allowed' = Updates
  /\ clock' \in {clock, FALSE}
  /\ credit' = (IF "net" \in parts /\ key # Nothing THEN 1 ELSE 0) /\ gated' = FALSE
  /\ UNCHANGED <<parts, stored, key, valid, pastes>>

Next ==
  \/ LoopTask
  \/ PostForm(Nothing) \/ \E t \in Texts : PostForm(t) \/ Command(t) \/ PasteCard(t)
  \/ ClockSet \/ TimePasses \/ Reset

(* The Arduino core calls loop() again and again.                          *)
Spec == Init /\ [][Next]_vars /\ WF_vars(LoopTask)

-----------------------------------------------------------------------------
(* Properties.                                                             *)

(* vl_bridge_ota.h:56-57, esp32-arduino.ino:205-207: whichever call judged *)
(* a text, between two passes VectiOTA takes filesystem and pull updates   *)
(* just when the licence in force grants them, and firmware always.        *)
UpdatesFollowVerdict ==
  /\ "firmware" \in allowed
  /\ at = "pump" /\ gated =>
       ({"filesystem", "pull"} \cap allowed # {} <=> inforce \in Ota)

(* vl_bridge_net.h:104-115: a text is judged, and a licence written to     *)
(* flash, once for each text the operator entered and once for the key the *)
(* portal still has after a boot, and not on every pass of loop().  A form *)
(* without a key and a text that is not queued are good for nothing.       *)
NoWriteUnasked == credit >= 0

(* vl_bridge_dash.h:94-98: the status card comes to show the verdict, also *)
(* one that the console's pump() reached after the card had looked.        *)
CardCatchesUp ==
  "dash" \in parts /\ card.shown # status ~> card.shown = status

(* vl_bridge_serial.h:100: a text that was queued is judged, on a licensed *)
(* device also, or lost with the power.                                    *)
QueuedIsJudged == waiting # Nothing ~> waiting = Nothing
=============================================================================
