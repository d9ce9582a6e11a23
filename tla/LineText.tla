------------------------------ MODULE LineText ------------------------------
(***************************************************************************)
(* A line that vl_line_push() handed up, read as vl_gate.c, vl_activate.c  *)
(* and the bridge read it: a C string for vl_base32_decode().              *)
(***************************************************************************)
EXTENDS Line, Base32

(* A line carries no more bytes than vl_base32_encode() takes: 125 of 512. *)
ASSUME LineFitsAssumption == (5 * MaxLen) \div 8 <= MaxInput \div 2

(* What the receiver of the line reads, up to the first NUL.               *)
Text == [i \in 1 .. StringLength |-> buf[i - 1]]

(* The decoder yields the bytes whose bits the text spells, for every      *)
(* capacity and expected length, or fails when there are none such         *)
(* (core/vl_base32.h:29-42).                                               *)
DecodesTheBits ==
  rc = "OK" => \A capacity, expect \in 0 .. MaxLen :
    LET bytes == Decode(Text, capacity, expect)
    IN IF Decodable(Text, capacity, expect) THEN Spells(Text, bytes) ELSE bytes = Failed

(* bridge/vl_bridge.h:221: folding an accepted text "yields exactly what   *)
(* vl_base32_encode() would emit", so two accepted spellings of a payload  *)
(* are kept as one; with no expected length that would not hold.           *)
OneSpelling ==
  rc = "OK" => \A expect \in 1 .. MaxLen :
    LET bytes == Decode(Text, MaxLen, expect)
    IN bytes # Failed => Canonical(Text, CharsFor(expect)) = Encode(bytes, CharsFor(expect) + 1)
=============================================================================
