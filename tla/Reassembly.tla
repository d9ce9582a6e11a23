----------------------------- MODULE Reassembly -----------------------------
(***************************************************************************)
(* What transport/vl_chunk.h promises, byte by byte and without counters,  *)
(* bitmaps or offsets: a message of `length` bytes is cut every `size`     *)
(* bytes; the first copy of a piece counts and later ones change nothing;  *)
(* the message is handed up only when no byte is missing.                  *)
(***************************************************************************)
EXTENDS Integers

CONSTANTS MaxLen, Bytes

VARIABLES
  size, length,  \* of the message expected; length is 0 when none is
  got,           \* the bytes received so far, by position
  handed         \* what the last request got, by position; nothing if refused

rvars == <<size, length, got, handed>>

Positions == 0 .. length - 1
Piece(i)  == {p \in Positions : p \div size = i}
Nobytes   == [p \in {} |-> 0]

Init ==
  /\ size = 0 /\ length = 0
  /\ got = Nobytes
  /\ handed = Nobytes

(* A new message starts; whatever was collected is forgotten.              *)
Start ==
  /\ size' \in Nat \ {0} /\ length' \in 1 .. MaxLen
  /\ got' = Nobytes
  /\ handed' = Nobytes

Abandon ==
  /\ size' = 0 /\ length' = 0
  /\ got' = Nobytes
  /\ handed' = Nobytes

(* One whole piece is received that was not there.                         *)
Accept(i) ==
  /\ Piece(i) # {}
  /\ Piece(i) \cap DOMAIN got = {}
  /\ \E d \in [Piece(i) -> Bytes] :
       got' = [p \in DOMAIN got \cup Piece(i) |-> IF p \in Piece(i) THEN d[p] ELSE got[p]]
  /\ UNCHANGED <<size, length, handed>>

HandUp ==
  /\ length # 0
  /\ DOMAIN got = Positions
  /\ handed' = got
  /\ UNCHANGED <<size, length, got>>

Refuse ==
  /\ handed' = Nobytes
  /\ UNCHANGED <<size, length, got>>

Next == Start \/ Abandon \/ (\E i \in Positions : Accept(i)) \/ HandUp \/ Refuse

Spec == Init /\ [][Next]_rvars
=============================================================================
