------------------------------- MODULE Base32 -------------------------------
(***************************************************************************)
(* core/vl_base32.c: Crockford's base 32, at its real widths (5 bits to a  *)
(* character, 8 to a byte), and the fold with which vecti::License brings  *)
(* an accepted text to its canonical spelling.                             *)
(*                                                                         *)
(* A text is a sequence of characters, a payload a sequence of bytes.  The *)
(* bit buffer is a machine word; only its low 12 bits are ever read, so a  *)
(* word of the model may be narrower than the code's uint32_t.             *)
(***************************************************************************)
EXTENDS Integers, Sequences

CONSTANTS
  WordSize,  \* 2^32: `buffer` counts modulo this
  MaxInput,  \* VL_BASE32_MAX_INPUT
  Failed     \* the -1 that both functions return for every error

Byte == 0 .. 255

ASSUME WordAssumption   == WordSize \in Nat \ {0} /\ WordSize % 4096 = 0
ASSUME InputAssumption  == MaxInput \in Nat
ASSUME FailedAssumption == Failed \notin Seq(Byte)

ENC_ALPHA == <<"0", "1", "2", "3", "4", "5", "6", "7", "8", "9",
               "A", "B", "C", "D", "E", "F", "G", "H", "J", "K",
               "M", "N", "P", "Q", "R", "S", "T", "V", "W", "X", "Y", "Z">>

Digits == <<"0", "1", "2", "3", "4", "5", "6", "7", "8", "9">>

(* Letter values: I and L read as 1, O as 0, U as nothing at all.          *)
A2V == [A |-> 10, B |-> 11, C |-> 12, D |-> 13, E |-> 14, F |-> 15, G |-> 16, H |-> 17, I |-> 1,
        J |-> 18, K |-> 19, L |-> 1, M |-> 20, N |-> 21, O |-> 0, P |-> 22, Q |-> 23, R |-> 24,
        S |-> 25, T |-> 26, U |-> -1, V |-> 27, W |-> 28, X |-> 29, Y |-> 30, Z |-> 31]

Capital == [a |-> "A", b |-> "B", c |-> "C", d |-> "D", e |-> "E", f |-> "F", g |-> "G",
            h |-> "H", i |-> "I", j |-> "J", k |-> "K", l |-> "L", m |-> "M", n |-> "N",
            o |-> "O", p |-> "P", q |-> "Q", r |-> "R", s |-> "S", t |-> "T", u |-> "U",
            v |-> "V", w |-> "W", x |-> "X", y |-> "Y", z |-> "Z"]

Grouping == {"-", "sp", "tab", "cr", "nl"}

Upper(c) == IF c \in DOMAIN Capital THEN Capital[c] ELSE c

(* 0..31, or -1 for a character that is neither in the alphabet nor a      *)
(* grouping one.                                                           *)
Value(c) ==
  CASE \E n \in 1 .. 10 : Digits[n] = c -> CHOOSE v \in 0 .. 9 : Digits[v + 1] = c
    [] Upper(c) \in DOMAIN A2V         -> A2V[Upper(c)]
    [] OTHER                           -> -1

CharsFor(n) == (8 * n + 4) \div 5  \* VL_BASE32_CHARS

Word(x)   == x % WordSize
Letter(v) == ENC_ALPHA[(v % 32) + 1]

(* A loop over a sequence.                                                 *)
Loop(Body(_, _), start, seq) ==
  LET run[n \in 0 .. Len(seq)] == IF n = 0 THEN start ELSE Body(run[n - 1], seq[n])
  IN run[Len(seq)]

-----------------------------------------------------------------------------
(* One byte into the encoder: a character comes out, then a second one if  *)
(* five bits are left.                                                     *)
EncodeByte(e, byte) ==
  LET buffer == Word(e.buffer * 256 + byte)
      bits   == e.bits + 8
      first  == Append(e.out, Letter(buffer \div 2 ^ (bits - 5)))
  IN [buffer |-> buffer,
      bits   |-> bits % 5,
      out    |-> IF bits < 10 THEN first ELSE Append(first, Letter(buffer \div 2 ^ (bits - 10)))]

EncodeStart == [buffer |-> 0, bits |-> 0, out |-> <<>>]

(* What is left over after the last byte is padded with zeros.             *)
Emitted(bytes) ==
  LET e == Loop(EncodeByte, EncodeStart, bytes)
  IN IF e.bits = 0 THEN e.out ELSE Append(e.out, Letter(e.buffer * 2 ^ (5 - e.bits)))

(* The caller's buffer must take the terminating NUL too.                  *)
Encode(bytes, capacity) ==
  IF Len(bytes) > MaxInput \div 2 \/ capacity < CharsFor(Len(bytes)) + 1 THEN Failed
  ELSE Emitted(bytes)

-----------------------------------------------------------------------------
(* One character into the decoder: at most one byte comes out, if there is *)
(* room for it; an error is final.                                         *)
DecodeStart == [buffer |-> 0, bits |-> 0, chars |-> 0, out |-> <<>>, ok |-> TRUE]

(* Mutant: the room is checked after the write.                            *)
BugDecodeOverruns(d, c, capacity) ==
  IF ~d.ok \/ c \in Grouping THEN d
  ELSE IF Value(c) < 0 THEN [d EXCEPT !.ok = FALSE]
  ELSE LET buffer == Word(d.buffer * 32 + Value(c))
           bits   == d.bits + 5
           next   == [d EXCEPT !.buffer = buffer, !.bits = bits, !.chars = d.chars + 1]
       IN IF bits < 8 THEN next
          ELSE IF Len(d.out) > capacity THEN [d EXCEPT !.ok = FALSE]
          ELSE [next EXCEPT !.bits = bits - 8,
                            !.out  = Append(d.out, (buffer \div 2 ^ (bits - 8)) % 256)]

DecodeChar(d, c, capacity) ==
  IF ~d.ok \/ c \in Grouping THEN d
  ELSE IF Value(c) < 0 THEN [d EXCEPT !.ok = FALSE]
  ELSE LET buffer == Word(d.buffer * 32 + Value(c))
           bits   == d.bits + 5
           next   == [d EXCEPT !.buffer = buffer, !.bits = bits, !.chars = d.chars + 1]
       IN IF bits < 8 THEN next
          ELSE IF Len(d.out) >= capacity THEN [d EXCEPT !.ok = FALSE]
          ELSE [next EXCEPT !.bits = bits - 8,
                            !.out  = Append(d.out, (buffer \div 2 ^ (bits - 8)) % 256)]

(* Leftover bits are the encoder's padding and must be zero.               *)
PaddingIsZero(d) == d.buffer % (2 ^ d.bits) = 0

Decode(text, capacity, expect) ==
  LET d == Loop(LAMBDA acc, c : DecodeChar(acc, c, capacity), DecodeStart, text)
  IN IF /\ expect # 0 => capacity >= expect
        /\ Len(text) <= MaxInput
        /\ d.ok
        /\ PaddingIsZero(d)
        /\ expect # 0 => d.chars = CharsFor(expect) /\ Len(d.out) = expect
     THEN d.out
     ELSE Failed

-----------------------------------------------------------------------------
(* Mutant: only the grouping is stripped and the case folded.              *)
BugAliasKept(c) == Upper(c)

(* The fold of one character in vecti::License::_apply().                  *)
FoldChar(c) ==
  CASE Upper(c) \in {"I", "L"} -> "1"
    [] Upper(c) = "O"          -> "0"
    [] OTHER                   -> Upper(c)

(* The spelling _apply() keeps: at most `limit` folded characters.         *)
Canonical(text, limit) ==
  Loop(LAMBDA kept, c : IF c \in Grouping \/ Len(kept) >= limit THEN kept
                        ELSE Append(kept, FoldChar(c)), <<>>, text)

-----------------------------------------------------------------------------
(* What the decoder computes, said without a buffer: the digits a text     *)
(* spells, in base 32, and the bytes, in base 256, are the same number, up *)
(* to the padding.                                                         *)
Spelled(text) ==
  Loop(LAMBDA vals, c : IF c \in Grouping THEN vals ELSE Append(vals, Value(c)), <<>>, text)

Number(base, digits) == Loop(LAMBDA n, v : base * n + v, 0, digits)

Decodable(text, capacity, expect) ==
  LET vals == Spelled(text)
      n    == Len(vals)
  IN /\ \A i \in 1 .. n : vals[i] >= 0
     /\ Len(text) <= MaxInput
     /\ (5 * n) \div 8 <= capacity
     /\ Number(32, vals) % 2 ^ ((5 * n) % 8) = 0
     /\ expect # 0 => n = CharsFor(expect) /\ (5 * n) \div 8 = expect

Spells(text, bytes) ==
  LET vals == Spelled(text)
      n    == Len(vals)
  IN /\ bytes \in Seq(Byte)
     /\ Len(bytes) = (5 * n) \div 8
     /\ Number(32, vals) = Number(256, bytes) * 2 ^ ((5 * n) % 8)
=============================================================================
