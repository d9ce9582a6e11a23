-------------------------------- MODULE Line --------------------------------
(***************************************************************************)
(* transport/vl_line.c: bytes of a UART or a terminal are pushed one by    *)
(* one into vl_line_t.  Its buffer is MaxLen + 1 cells, so that what an    *)
(* earlier line left behind is still there when the next one is built; the *)
(* caller reads it as a C string.                                          *)
(***************************************************************************)
EXTENDS Integers, Sequences

CONSTANTS
  MaxLen,       \* VL_LINE_MAX_LEN
  Chars,        \* the bytes that may arrive
  NUL,          \* the byte that ends a C string
  Terminators,  \* \n and \r
  Spaces,       \* space, \t, \v and \f
  TooLong       \* a line that does not fit, for the abstract reader

ASSUME MaxLenAssumption == MaxLen \in Nat \ {0}
ASSUME CharsAssumption  ==
  /\ NUL \in Chars
  /\ Terminators \subseteq Chars /\ Spaces \subseteq Chars
  /\ Terminators \cap Spaces = {}
  /\ NUL \notin Terminators \cup Spaces
ASSUME TooLongAssumption == TooLong \notin Seq(Chars)

VARIABLES
  buf, len, ready, overflow,  \* vl_line_t
  rc,                         \* what the last push returned
  input                       \* the call last made

vars == <<buf, len, ready, overflow, rc, input>>

Kept == Chars \ (Terminators \cup Spaces)

(* A zeroed vl_line_t is valid without a reset.                            *)
Init ==
  /\ buf = [i \in 0 .. MaxLen |-> NUL]
  /\ len = 0 /\ ready = FALSE /\ overflow = FALSE
  /\ rc = "NOT_FOUND"
  /\ input = [event |-> <<>>, bit |-> 0]

-----------------------------------------------------------------------------
(* The call that is made: vl_line_push() of the byte in `event`, or         *)
(* vl_line_reset() when it is empty.  The bit tells a call from the same   *)
(* call made again.                                                        *)
Called(event) == input' = [event |-> event, bit |-> 1 - input.bit]

(* vl_line_push() first forgets a line that has been handed up; the rest   *)
(* of it works on what remains.                                            *)
len0 == IF ready THEN 0 ELSE len
buf0 == IF ready THEN [buf EXCEPT ![0] = NUL] ELSE buf

(* End of line.                                                            *)
PushEnd(c) ==
  /\ c \in Terminators
  /\ \/ /\ overflow
        /\ overflow' = FALSE /\ len' = 0 /\ ready' = FALSE
        /\ buf' = buf0
        /\ rc' = "BAD_FORMAT"
     \/ /\ ~overflow /\ len0 = 0
        /\ len' = len0 /\ ready' = FALSE /\ buf' = buf0
        /\ rc' = "NOT_FOUND"
        /\ UNCHANGED overflow
     \/ /\ ~overflow /\ len0 # 0
        /\ len' = len0 /\ ready' = TRUE
        /\ buf' = [buf0 EXCEPT ![len0] = NUL]
        /\ rc' = "OK"
        /\ UNCHANGED overflow

(* White space, and anything while a line too long is discarded.           *)
PushDropped(c) ==
  /\ c \in Spaces \/ (c \in Kept /\ overflow)
  /\ len' = len0 /\ ready' = FALSE /\ buf' = buf0
  /\ rc' = "NOT_FOUND"
  /\ UNCHANGED overflow

(* The character that does not fit: the partial line is dropped now.       *)
PushOverflows(c) ==
  /\ c \in Kept /\ ~overflow /\ len0 >= MaxLen
  /\ overflow' = TRUE
  /\ len' = 0 /\ ready' = FALSE
  /\ buf' = [buf0 EXCEPT ![0] = NUL]
  /\ rc' = "NOT_FOUND"

(* Mutant: one character more than there is room for.                      *)
BugStoreOneMore(c) ==
  /\ c \in Kept /\ ~overflow /\ len0 <= MaxLen
  /\ len' = len0 + 1 /\ ready' = FALSE
  /\ buf' = [buf0 EXCEPT ![len0] = c]
  /\ rc' = "NOT_FOUND"
  /\ UNCHANGED overflow

(* Mutant: the byte that makes the last line be forgotten is lost with it. *)
BugStoreLosesFirst(c) ==
  /\ c \in Kept /\ ~overflow /\ len0 < MaxLen
  /\ len' = (IF ready THEN 0 ELSE len0 + 1) /\ ready' = FALSE
  /\ buf' = IF ready THEN buf0 ELSE [buf0 EXCEPT ![len0] = c]
  /\ rc' = "NOT_FOUND"
  /\ UNCHANGED overflow

PushStore(c) ==
  /\ c \in Kept /\ ~overflow /\ len0 < MaxLen
  /\ len' = len0 + 1 /\ ready' = FALSE
  /\ buf' = [buf0 EXCEPT ![len0] = c]
  /\ rc' = "NOT_FOUND"
  /\ UNCHANGED overflow

(* vl_line_reset(): a timeout, a disconnect, or a caller done with a line. *)
Reset ==
  /\ Called(<<>>)
  /\ len' = 0 /\ ready' = FALSE /\ overflow' = FALSE
  /\ buf' = [buf EXCEPT ![0] = NUL]
  /\ rc' = "NOT_FOUND"

Push(c) ==
  /\ Called(<<c>>)
  /\ PushEnd(c) \/ PushDropped(c) \/ PushOverflows(c) \/ PushStore(c)

Next == (\E c \in Chars : Push(c)) \/ Reset

Spec == Init /\ [][Next]_vars

-----------------------------------------------------------------------------
(* Properties.                                                             *)

(* The fields of vl_line_t: the length never leaves the buffer.            *)
TypeOK ==
  /\ buf \in [0 .. MaxLen -> Kept]
  /\ len \in 0 .. MaxLen
  /\ ready \in BOOLEAN /\ overflow \in BOOLEAN
  /\ rc \in {"OK", "NOT_FOUND", "BAD_FORMAT"}
  /\ input.bit \in {0, 1}

(* The C string the caller reads: up to the first NUL.                     *)
StringLength == CHOOSE n \in 0 .. MaxLen : buf[n] = NUL /\ \A i \in 0 .. n - 1 : buf[i] # NUL

Stored == [i \in 1 .. len |-> buf[i - 1]]

(* vl_line.h:76: "a line is ready: l->buf, NUL-terminated, l->len chars".  *)
ReadyIsWhole == rc = "OK" => StringLength = len

(* A line is ready exactly while the last push handed it up, and one that  *)
(* is being discarded has no length.                                       *)
LineInv ==
  /\ TypeOK
  /\ ready <=> rc = "OK"
  /\ ready => len # 0 /\ ~overflow
  /\ overflow => len = 0

(* The abstract reader is given the same calls.  Of a line too long only   *)
(* that is remembered, and a line that was handed up is no longer the      *)
(* current one.                                                            *)
Reader == INSTANCE LineReader WITH
  line   <- IF overflow THEN TooLong ELSE IF ready THEN <<>> ELSE Stored,
  report <- [rc |-> rc, text |-> IF rc = "OK" THEN Stored ELSE <<>>]

(* The lines handed up are the lines of the stream pushed, character by    *)
(* character: each byte does to the line and to the answer what the reader *)
(* says this very byte does, so that no line is lost, joined with another, *)
(* or contaminated by an earlier one (vl_line.h:13-29).                    *)
ImplementsLineReader == Reader!Spec
=============================================================================
