------------------------------- MODULE MCLine -------------------------------
(* A line of at most four characters, handed to the decoder as vl_gate.c   *)
(* and vl_activate.c hand it to vl_verify().  Four characters carry two    *)
(* bytes and four bits of padding, two carry one byte and two bits.        *)
EXTENDS LineText

(* "o" is a lower-case alias; "G" has a value of 16 and leaves only zero   *)
(* padding; "7" leaves padding that is not zero; "U" is no digit.          *)
MCChars       == {"0", "o", "G", "7", "U", "-", "nul", "sp", "nl", "cr"}
MCTerminators == {"nl", "cr"}
MCSpaces      == {"sp"}
=============================================================================
