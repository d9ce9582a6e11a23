------------------------------ MODULE Identity ------------------------------
(***************************************************************************)
(* read_id_segment() of every HAL, and of examples/baremetal/vl_gate.c:    *)
(* what a board answers for segment idx, given the hardware it finds.      *)
(*                                                                         *)
(* A byte string is short and its bytes are few: a die id is two words of  *)
(* two bytes, a text of any length is one or two bytes, and the text that  *)
(* outgrows a segment is SegMax + 1 bytes long.                            *)
(***************************************************************************)
EXTENDS Integers, Sequences, FiniteSets

CONSTANT SegMax  \* VL_ID_SEGMENT_MAX

ASSUME SegMaxAssumption == SegMax \in 0 .. 255

Boards == {"linux", "macos", "esp32", "rp2040", "stm32", "nxp", "gate", "none", "ported"}

(* The hardware of one unit: how its registers answer, the interfaces that *)
(* are up in the order the system lists them, which files it has, whether  *)
(* its serial page was written, and what a vendor's own HAL answers.       *)
Answer == {"ok", "zeros", "ones", "error"}

Bare == [unit |-> 1, uid |-> "ok", flash |-> "ok", up |-> <<>>, machine |-> "etc",
         serial |-> "none", page |-> "blank", answers |-> <<>>, endless |-> FALSE]

(* What a call answers.                                                    *)
Data(b)     == [st |-> "OK", len |-> Len(b), bytes |-> b]
Refusal(st) == [st |-> st, len |-> 0, bytes |-> <<>>]
End         == Refusal("NO_MORE_SEGMENTS")
Platform    == Refusal("PLATFORM")
Fits(b)     == IF Len(b) > SegMax THEN Refusal("BUFFER_TOO_SMALL") ELSE Data(b)

AllSame(b, v) == \A i \in DOMAIN b : b[i] = v
Blank(b)      == AllSame(b, 0) \/ AllSame(b, 255)

(* The words of the die id register: two of two bytes, high byte first.    *)
Words(hw) ==
  CASE hw.uid = "zeros" -> << <<0, 0>>, <<0, 0>> >>
    [] hw.uid = "ones"  -> << <<255, 255>>, <<255, 255>> >>
    [] OTHER            -> << <<hw.unit, 0>>, <<255, 255>> >>

BigEndian(w)    == w[1] \o w[2]
LittleEndian(w) == <<w[1][2], w[1][1], w[2][2], w[2][1]>>

-----------------------------------------------------------------------------
(* Mutant: the bus that answers with ones is not noticed.                  *)
BugRp2040Segment(hw, idx) ==
  LET id == BigEndian(Words(hw)) IN
  IF idx # 0 THEN End ELSE IF AllSame(id, 0) THEN Platform ELSE Data(id)

(* One segment: the board id, refused when the flash chip did not answer.  *)
Rp2040Segment(hw, idx) ==
  LET id == BigEndian(Words(hw)) IN
  IF idx # 0 THEN End ELSE IF Blank(id) THEN Platform ELSE Data(id)

(* The check is over the words, the bytes go out low byte first.           *)
Stm32Segment(hw, idx) ==
  LET w == Words(hw) IN
  IF idx # 0 THEN End
  ELSE IF \E blank \in {<<0, 0>>, <<255, 255>>} : \A i \in 1 .. 2 : w[i] = blank THEN Platform
  ELSE Data(LittleEndian(w))

(* SIM->UID or OCOTP->CFG, high byte first.                                *)
NxpSegment(hw, idx) ==
  LET id == BigEndian(Words(hw)) IN
  IF idx # 0 THEN End ELSE IF Blank(id) THEN Platform ELSE Data(id)

(* Fuse MAC, chip model (the same for every unit of a part), flash chip.   *)
Esp32Segment(hw, idx) ==
  CASE idx = 0 -> IF hw.uid = "error" THEN Platform ELSE Data(BigEndian(Words(hw)))
    [] idx = 1 -> Data(<<9>>)
    [] idx = 2 -> CASE hw.flash = "ok" -> Data(<<7>>)
                    [] OTHER           -> Platform
    [] OTHER   -> End

(* Die id, then the serial page: blank is a segment of no bytes.           *)
GateSegment(hw, idx) ==
  LET id == BigEndian(Words(hw)) IN
  CASE idx = 0 -> IF Blank(id) THEN Platform ELSE Data(id)
    [] idx = 1 -> IF hw.page = "blank" THEN Data(<<>>) ELSE Data(<<hw.unit, 5>>)
    [] OTHER   -> End

(* hal/none as shipped.                                                    *)
NoneSegment(hw, idx) == Platform

(* A HAL a vendor wrote: any answers, then the end of the list, or the     *)
(* last answer for ever.                                                   *)
PortedSegment(hw, idx) ==
  LET n == Len(hw.answers) IN
  IF idx < n THEN hw.answers[idx + 1]
  ELSE IF hw.endless /\ n > 0 THEN hw.answers[n] ELSE End

-----------------------------------------------------------------------------
Virtual == {"lo", "docker0", "br-0", "veth0", "virbr0"}

(* POSIX: the address of an interface as its file or the list gives it.    *)
Mac(hw, name) ==
  CASE name = "dummy0" -> <<0, 0>>
    [] name = "tun0"   -> <<>>
    [] name = "eth0"   -> <<hw.unit, 11>>
    [] name = "en0"    -> <<hw.unit, 12>>
    [] name = "wlan0"  -> <<hw.unit, 13>>
    [] name \in Virtual -> <<hw.unit, 15>>
    [] OTHER           -> <<hw.unit, 14>>

Up(hw) == {hw.up[i] : i \in DOMAIN hw.up}

Score(name) ==
  CASE name = "eth0"  -> 100
    [] name = "en0"   -> 90
    [] name = "wlan0" -> 50
    [] OTHER          -> 1

(* Mutant: container interfaces are taken for hardware.                    *)
BugCandidates(hw) == {i \in DOMAIN hw.up : ~AllSame(Mac(hw, hw.up[i]), 0)}

Candidates(hw) ==
  {i \in DOMAIN hw.up : hw.up[i] \notin Virtual /\ ~AllSame(Mac(hw, hw.up[i]), 0)}

(* pick_iface(): the best score, the first of the list among equals.       *)
PickIface(hw) ==
  LET c    == Candidates(hw)
      best == CHOOSE i \in c : \A j \in c :
                Score(hw.up[j]) < Score(hw.up[i]) \/ (Score(hw.up[j]) = Score(hw.up[i]) /\ i <= j)
  IN hw.up[best]

(* c->iface after the call: the first choice stays for the whole process.  *)
IfaceAfter(board, hw, iface, idx) ==
  IF board = "linux" /\ idx = 0 /\ iface = "" /\ Candidates(hw) # {} THEN PickIface(hw) ELSE iface

MachineId(hw) ==
  CASE hw.machine \in {"etc", "dbus"} -> Fits(<<hw.unit, 21>>)
    [] hw.machine = "long"            -> Fits([i \in 1 .. SegMax + 1 |-> 21])
    [] OTHER                          -> Platform

(* The Pi's serial, else the board's UUID if it may be read, else nothing. *)
BoardSerial(hw) ==
  CASE hw.serial = "cpuinfo" -> Fits(<<hw.unit, 31>>)
    [] hw.serial = "uuid"    -> Fits(<<hw.unit, 32>>)
    [] OTHER                 -> Fits(<<>>)

LinuxSegment(hw, iface, idx) ==
  LET name == IfaceAfter("linux", hw, iface, 0) IN
  CASE idx = 0 -> IF name \notin Up(hw) \/ Mac(hw, name) = <<>> THEN Platform
                  ELSE Fits(Mac(hw, name))
    [] idx = 1 -> MachineId(hw)
    [] idx = 2 -> BoardSerial(hw)
    [] OTHER   -> End

(* The pinned interface, or the first en* there is, if it has an address.  *)
Wanted(hw, iface) ==
  {i \in DOMAIN hw.up : /\ hw.up[i] \in IF iface = "" THEN {"en0", "en1"} ELSE {iface}
                        /\ ~AllSame(Mac(hw, hw.up[i]), 0)}

FirstOf(w) == CHOOSE i \in w : \A j \in w : i <= j

MacosSegment(hw, iface, idx) ==
  LET w == Wanted(hw, iface) IN
  CASE idx = 0 -> IF w = {} THEN Platform ELSE Fits(Mac(hw, hw.up[FirstOf(w)]))
    [] idx = 1 -> IF hw.serial = "uuid" THEN Fits(<<hw.unit, 32>>) ELSE Platform
    [] OTHER   -> End

(* hal->read_id_segment.                                                   *)
Segment(board, hw, iface, idx) ==
  CASE board = "linux"  -> LinuxSegment(hw, iface, idx)
    [] board = "macos"  -> MacosSegment(hw, iface, idx)
    [] board = "esp32"  -> Esp32Segment(hw, idx)
    [] board = "rp2040" -> Rp2040Segment(hw, idx)
    [] board = "stm32"  -> Stm32Segment(hw, idx)
    [] board = "nxp"    -> NxpSegment(hw, idx)
    [] board = "gate"   -> GateSegment(hw, idx)
    [] board = "ported" -> PortedSegment(hw, idx)
    [] OTHER            -> NoneSegment(hw, idx)
=============================================================================
