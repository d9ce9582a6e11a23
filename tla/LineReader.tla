----------------------------- MODULE LineReader -----------------------------
(***************************************************************************)
(* What transport/vl_line.h promises: the bytes between two terminators,   *)
(* white space left out, are a line; an empty one is skipped; one longer   *)
(* than MaxLen is reported once, at its end, and none of it is kept.  A    *)
(* reset abandons the line.  The reader is a function of the calls made:   *)
(* `input` decides what becomes of the line and what is answered.          *)
(***************************************************************************)
EXTENDS Integers, Sequences

CONSTANTS Chars, Terminators, Spaces, MaxLen, TooLong

VARIABLES
  input,   \* the call last made: the byte pushed, or none for a reset, and
           \* a bit that every call flips, so that no call is a stutter
  line,    \* what the current line holds so far, or TooLong
  report   \* what that call brought

lvars == <<input, line, report>>

Report(c, t) == [rc |-> c, text |-> t]
NoLine == Report("NOT_FOUND", <<>>)

Init ==
  /\ input = [event |-> <<>>, bit |-> 0]
  /\ line = <<>>
  /\ report = NoLine

Called(event) == input' = [event |-> event, bit |-> 1 - input.bit]

(* A terminator ends the line and hands it up.                             *)
Terminate(c) ==
  /\ c \in Terminators
  /\ Called(<<c>>)
  /\ line' = <<>>
  /\ report' = CASE line = TooLong -> Report("BAD_FORMAT", <<>>)
                 [] line = <<>>    -> NoLine
                 [] OTHER          -> Report("OK", line)

(* Any other byte than white space is the next character of the line.      *)
Store(c) ==
  /\ c \notin Terminators \cup Spaces
  /\ Called(<<c>>)
  /\ line' = IF line = TooLong \/ Len(line) = MaxLen THEN TooLong ELSE Append(line, c)
  /\ report' = NoLine

Skip(c) ==
  /\ c \in Spaces
  /\ Called(<<c>>)
  /\ report' = NoLine
  /\ UNCHANGED line

Abandon == Called(<<>>) /\ line' = <<>> /\ report' = NoLine

Next ==
  \/ \E c \in Chars : Terminate(c) \/ Store(c) \/ Skip(c)
  \/ Abandon

Spec == Init /\ [][Next]_lvars
=============================================================================
