----------------------------- MODULE LineProofs -----------------------------
(***************************************************************************)
(* Proofs about Base32 and Line for every line length, set of bytes, text, *)
(* capacity and expected length.  A loop runs over a sequence: what holds  *)
(* along its run is shown in steps from 0.                                 *)
(***************************************************************************)
EXTENDS LineText, SequenceTheorems, WellFoundedInduction, TLAPS

(* What holds of 0 and is passed on holds of every number.                 *)
LEMMA InSteps ==
  ASSUME NEW P, 0 \in P, \A n \in Nat : n \in P => n + 1 \in P
  PROVE  Nat \subseteq P
<1> DEFINE R == {ss \in Nat \X Nat : ss[1] < ss[2]}
           S == {n \in Nat : n \notin P}
<1>1. SUFFICES ASSUME S # {} PROVE FALSE
  OBVIOUS
<1>2. IsWellFoundedOn(R, Nat)
  BY NatLessThanWellFounded DEF OpToRel
<1>3. PICK n \in S : \A m \in S : ~(<<m, n>> \in R)
  BY <1>1, <1>2, WFMin
<1>4. \A m \in S : ~(m < n)
  BY <1>3
<1>5. n # 0 /\ n - 1 \in Nat /\ n - 1 \notin S
  BY <1>4
<1> QED
  BY <1>5

Runs(g, start, a, k) == g[0] = start /\ \A n \in 1 .. k : g[n] = a[<<g[n - 1], n>>]

(* The states a loop runs through, when each step leads from a set of      *)
(* states into it.                                                         *)
LEMMA RunExists ==
  ASSUME NEW S, NEW start \in S, NEW k \in Nat, NEW a \in [S \X (1 .. k) -> S]
  PROVE  \E g \in [0 .. k -> S] : Runs(g, start, a, k)
<1> DEFINE Is(g, j) == /\ g \in [0 .. j -> S] /\ g[0] = start
                       /\ \A n \in 1 .. j : g[n] = a[<<g[n - 1], n>>]
           P        == {j \in Nat : j <= k => \E g : Is(g, j)}
<1>1. 0 \in P
  <2> DEFINE g == [n \in 0 .. 0 |-> start]
  <2>1. Is(g, 0)
    OBVIOUS
  <2> QED
    BY <2>1
<1>2. ASSUME NEW j \in Nat, j \in P PROVE j + 1 \in P
  <2> SUFFICES ASSUME j + 1 <= k PROVE \E f : Is(f, j + 1)
    OBVIOUS
  <2>1. PICK g : Is(g, j)
    BY <1>2
  <2> DEFINE s == a[<<g[j], j + 1>>]
             f == [n \in 0 .. j + 1 |-> IF n <= j THEN g[n] ELSE s]
  <2>2. s \in S
    <3>1. g[j] \in S /\ j + 1 \in 1 .. k
      BY <2>1
    <3> QED
      BY <3>1
  <2> HIDE DEF s
  <2>3. \A n \in 0 .. j : n \in 0 .. j + 1 /\ n <= j /\ g[n] \in S
    BY <2>1
  <2>4. j + 1 \in 0 .. j + 1 /\ ~ j + 1 <= j
    OBVIOUS
  <2>5. f \in [0 .. j + 1 -> S] /\ (\A n \in 0 .. j : f[n] = g[n]) /\ f[j + 1] = s
    BY <2>2, <2>3, <2>4
  <2> HIDE DEF f
  <2>6. f[0] = start
    BY <2>1, <2>5
  <2>7. \A n \in 1 .. j + 1 : f[n] = a[<<f[n - 1], n>>]
    <3> TAKE n \in 1 .. j + 1
    <3>1. n - 1 \in 0 .. j /\ f[n - 1] = g[n - 1]
      BY <2>5
    <3>2. CASE n = j + 1
      <4>1. n - 1 = j
        BY <3>2
      <4> QED
        BY <2>5, <3>1, <3>2, <4>1 DEF s
    <3>3. CASE n # j + 1
      <4>1. n \in 1 .. j /\ n \in 0 .. j
        BY <3>3
      <4> QED
        BY <2>1, <2>5, <3>1, <4>1
    <3> QED
      BY <3>2, <3>3
  <2> QED
    BY <2>5, <2>6, <2>7
<1>3. k \in P
  <2> HIDE DEF P
  <2> QED
    BY <1>1, <1>2, InSteps
<1> QED
  BY <1>3 DEF Runs

LEMMA NumberRuns ==
  ASSUME NEW base \in Nat, NEW s \in Seq(Int)
  PROVE  \E run \in [0 .. Len(s) -> Int] :
           /\ run[0] = 0 /\ \A n \in 1 .. Len(s) : run[n] = base * run[n - 1] + s[n]
           /\ Number(base, s) = run[Len(s)]
<1> DEFINE run[n \in 0 .. Len(s)] == IF n = 0 THEN 0 ELSE base * run[n - 1] + s[n]
           a == [p \in Int \X (1 .. Len(s)) |-> base * p[1] + s[p[2]]]
<1>0. Len(s) \in Nat /\ \A n \in 1 .. Len(s) : s[n] \in Int
  BY LenProperties, ElementOfSeq
<1>1. Number(base, s) = run[Len(s)]
  BY DEF Number, Loop
<1>2. run = CHOOSE g : g = [n \in 0 .. Len(s) |-> IF n = 0 THEN 0 ELSE base * g[n - 1] + s[n]]
  BY DEF run
<1> HIDE DEF run
<1>3. a \in [Int \X (1 .. Len(s)) -> Int]
  BY <1>0
<1>g. PICK g \in [0 .. Len(s) -> Int] : Runs(g, 0, a, Len(s))
  <2> DEFINE k == Len(s)
  <2>1. k \in Nat /\ 0 \in Int /\ a \in [Int \X (1 .. k) -> Int]
    BY <1>0, <1>3
  <2> HIDE DEF a, k
  <2>2. \E g \in [0 .. k -> Int] : Runs(g, 0, a, k)
    BY <2>1, RunExists, Zenon
  <2> QED
    BY <2>2, Zenon DEF k
<1>4. g[0] = 0 /\ \A n \in 1 .. Len(s) : g[n] = a[<<g[n - 1], n>>]
  <2> HIDE DEF a
  <2> QED
    BY ONLY <1>g DEF Runs
<1>5. ASSUME NEW n \in 1 .. Len(s) PROVE g[n] = base * g[n - 1] + s[n]
  <2>0. Len(s) \in Nat
    BY <1>0
  <2>1. n - 1 \in 0 .. Len(s) /\ g[n - 1] \in Int
    <3> HIDE DEF a
    <3> QED
      BY <2>0
  <2>2. a[<<g[n - 1], n>>] = base * g[n - 1] + s[n]
    BY <2>1
  <2> QED
    BY <1>4, <2>2
<1>6. g = [n \in 0 .. Len(s) |-> IF n = 0 THEN 0 ELSE base * g[n - 1] + s[n]]
  BY <1>0, <1>4, <1>5
<1>7. run = [n \in 0 .. Len(s) |-> IF n = 0 THEN 0 ELSE base * run[n - 1] + s[n]]
  BY <1>2, <1>6
<1>8. run[0] = 0 /\ \A n \in 1 .. Len(s) : run[n] = base * run[n - 1] + s[n]
  <2> DEFINE H(n) == base * run[n - 1] + s[n]
  <2>1. run = [n \in 0 .. Len(s) |-> IF n = 0 THEN 0 ELSE H(n)]
    BY <1>7
  <2> HIDE DEF H
  <2>2. run[0] = 0 /\ \A n \in 1 .. Len(s) : run[n] = H(n)
    BY <1>0, <2>1
  <2> QED
    BY <2>2 DEF H
<1> DEFINE P == {n \in Nat : n <= Len(s) => run[n] \in Int}
<1>9. 0 \in P
  BY <1>8
<1>10. ASSUME NEW n \in Nat, n \in P PROVE n + 1 \in P
  <2> SUFFICES ASSUME n + 1 <= Len(s) PROVE run[n + 1] \in Int
    OBVIOUS
  <2>1. n + 1 \in 1 .. Len(s) /\ (n + 1) - 1 = n /\ run[n] \in Int
    BY <1>0, <1>10
  <2>2. run[n + 1] = base * run[n] + s[n + 1]
    BY <1>8, <2>1
  <2> QED
    BY <1>0, <2>1, <2>2
<1>11. \A n \in 0 .. Len(s) : run[n] \in Int
  <2>1. Nat \subseteq P
    <3> HIDE DEF P
    <3> QED
      BY <1>9, <1>10, InSteps
  <2> QED
    BY <1>0, <2>1
<1>12. run \in [0 .. Len(s) -> Int]
  BY <1>7, <1>11
<1> QED
  BY <1>1, <1>8, <1>12

LEMMA Divides ==
  ASSUME NEW a \in Nat, NEW q \in Int, NEW b \in Nat, b > 0, NEW r \in 0 .. b - 1, a = q * b + r
  PROVE  a \div b = q /\ a % b = r
OBVIOUS

LEMMA Quotient ==
  ASSUME NEW a \in Nat, NEW b \in Nat, b > 0
  PROVE  /\ a \div b \in Nat /\ a % b \in 0 .. b - 1
         /\ a = (a \div b) * b + (a % b)
<1>1. /\ a \div b \in Nat
      /\ a = b * (a \div b) + (a % b)
      /\ a % b \in 0 .. b - 1
  OBVIOUS
<1>2. (a \div b) * b = b * (a \div b)
  BY <1>1
<1> QED
  BY <1>1, <1>2

LEMMA WordShifts ==
  ASSUME NEW n \in Nat, NEW v \in Nat, NEW m \in Nat
  PROVE  ((n % WordSize) * m + v) % WordSize = (n * m + v) % WordSize
<1> DEFINE q == n \div WordSize
           r == n % WordSize
           p == (n * m + v) \div WordSize
           s == (n * m + v) % WordSize
<1>1. r \in Nat /\ q \in Nat /\ n = q * WordSize + r /\ WordSize \in Nat /\ WordSize > 0
  BY Quotient, WordAssumption
<1>2. n * m + v \in Nat /\ p \in Nat /\ n * m + v = p * WordSize + s /\ s \in 0 .. WordSize - 1
  BY Quotient, <1>1
<1> HIDE DEF q, r, p, s
<1>3. r * m + v \in Nat
  BY <1>1
<1>4. r * m + v = (p - q * m) * WordSize + s
  <2>1. n * m = (q * m) * WordSize + r * m
    <3>1. n * m = (q * WordSize) * m + r * m
      BY <1>1
    <3>2. (q * WordSize) * m = (q * m) * WordSize
      BY <1>1
    <3> QED
      BY <3>1, <3>2
  <2>2. q * m \in Nat /\ r * m \in Nat /\ n * m \in Nat
    BY <1>1
  <2> DEFINE x == q * m
             y == r * m
             z == n * m
  <2>3. z + v = p * WordSize + s /\ z = x * WordSize + y
    BY <1>2, <2>1
  <2> HIDE DEF x, y, z
  <2>4. y + v = p * WordSize - x * WordSize + s
    BY <1>1, <1>2, <2>2, <2>3 DEF x, y, z
  <2>5. p * WordSize - x * WordSize = (p - x) * WordSize
    BY <1>1, <1>2, <2>2 DEF x
  <2> QED
    BY <2>4, <2>5 DEF x, y
<1>5. (r * m + v) % WordSize = s
  <2> DEFINE a == r * m + v
             c == p - q * m
  <2>1. a \in Nat /\ c \in Int /\ a = c * WordSize + s
    BY <1>1, <1>2, <1>3, <1>4
  <2> HIDE DEF a, c
  <2>2. a % WordSize = s
    <3>1. WordSize \in Nat /\ WordSize > 0 /\ s \in 0 .. WordSize - 1
      BY <1>1, <1>2
    <3> QED
      BY ONLY <2>1, <3>1, Divides
  <2> QED
    BY <2>2 DEF a
<1> QED
  BY <1>5, Zenon DEF r, s

(* The eight bits of a number from bit k on, and the bits below k.         *)
Eight(x, k)    == (x \div 2 ^ k) % 256
LastBits(x, k) == x % 2 ^ k

(* The bits of a word that are read are those of the number it cut off.    *)
LEMMA WordMultiple ==
  ASSUME NEW n \in Nat
  PROVE  Word(n) \in Nat /\ \E x \in Nat : n = x * 4096 + Word(n)
<1> DEFINE q == n \div WordSize
           r == n % WordSize
           w == WordSize \div 4096
           x == q * w
<1>1. /\ WordSize \in Nat /\ WordSize > 0 /\ q \in Nat /\ r \in Nat /\ w \in Nat
      /\ n = q * WordSize + r /\ WordSize = w * 4096
  BY Quotient, WordAssumption
<1> HIDE DEF q, r, w
<1>2. x \in Nat /\ q * WordSize = x * 4096
  BY <1>1
<1> HIDE DEF x
<1>3. n = x * 4096 + r
  BY <1>1, <1>2
<1> QED
  BY <1>1, <1>2, <1>3 DEF r, Word

LEMMA WordBits ==
  ASSUME NEW n \in Nat, NEW k \in 0 .. 4
  PROVE  Eight(Word(n), k) = Eight(n, k)
<1> DEFINE r == Word(n)
<1>1. PICK x \in Nat : r \in Nat /\ n = x * 4096 + r
  BY WordMultiple
<1> HIDE DEF r
<1>2. (r \div 2 ^ k) % 256 = (n \div 2 ^ k) % 256
  <2>1. CASE k = 0
    BY <1>1, <2>1
  <2>2. CASE k = 1
    BY <1>1, <2>2
  <2>3. CASE k = 2
    BY <1>1, <2>3
  <2>4. CASE k = 3
    BY <1>1, <2>4
  <2>5. CASE k = 4
    BY <1>1, <2>5
  <2> QED
    BY <2>1, <2>2, <2>3, <2>4, <2>5
<1> QED
  BY <1>2 DEF Eight, r

LEMMA WordTail ==
  ASSUME NEW n \in Nat, NEW j \in 0 .. 7
  PROVE  LastBits(Word(n), j) = LastBits(n, j)
<1> DEFINE r == Word(n)
<1>1. PICK x \in Nat : r \in Nat /\ n = x * 4096 + r
  BY WordMultiple
<1> HIDE DEF r
<1>2. r % 2 ^ j = n % 2 ^ j
  <2>1. CASE j = 0
    BY <1>1, <2>1
  <2>2. CASE j = 1
    BY <1>1, <2>2
  <2>3. CASE j = 2
    BY <1>1, <2>3
  <2>4. CASE j = 3
    BY <1>1, <2>4
  <2>5. CASE j = 4
    BY <1>1, <2>5
  <2>6. CASE j = 5
    BY <1>1, <2>6
  <2>7. CASE j = 6
    BY <1>1, <2>7
  <2>8. CASE j = 7
    BY <1>1, <2>8
  <2> QED
    BY <2>1, <2>2, <2>3, <2>4, <2>5, <2>6, <2>7, <2>8
<1> QED
  BY <1>2 DEF LastBits, r

(* Number n is number b and k bits more.                                   *)
Within(n, b, k) == n - b * 2 ^ k \in 0 .. 2 ^ k - 1

LEMMA ShortCarry ==
  ASSUME NEW n \in Nat, NEW b \in Nat, NEW v \in 0 .. 31, NEW k \in 0 .. 2,
         Within(n, b, k)
  PROVE  Within(32 * n + v, b, k + 5)
<1> USE DEF Within
<1>1. CASE k = 0
  BY <1>1
<1>2. CASE k = 1
  BY <1>2
<1>3. CASE k = 2
  BY <1>3
<1> QED
  BY <1>1, <1>2, <1>3

Carries(n, b, v, k) ==
  Within(n, b, k) => Within(32 * n + v, 256 * b + Eight(32 * n + v, k - 3), k - 3)

LEMMA LongCarry ==
  ASSUME NEW n \in Nat, NEW b \in Nat, NEW v \in 0 .. 31, NEW k \in 3 .. 7
  PROVE  Carries(n, b, v, k)
<1> USE DEF Within, Eight, Carries
<1>1. CASE k = 3
  BY <1>1
<1>2. CASE k = 4
  BY <1>2
<1>3. CASE k = 5
  BY <1>3
<1>4. CASE k = 6
  BY <1>4
<1>5. CASE k = 7
  BY <1>5
<1> QED
  BY <1>1, <1>2, <1>3, <1>4, <1>5

LEMMA Alphabet ==
  DOMAIN A2V = {"A", "B", "C", "D", "E", "F", "G", "H", "I", "J", "K", "L", "M",
                "N", "O", "P", "Q", "R", "S", "T", "U", "V", "W", "X", "Y", "Z"}
BY DEF A2V

LEMMA DigitValue ==
  ASSUME NEW c, \E n \in 1 .. 10 : Digits[n] = c
  PROVE  Value(c) \in 0 .. 9 /\ Digits[Value(c) + 1] = c
<1>1. PICK n \in 1 .. 10 : Digits[n] = c
  OBVIOUS
<1>2. n - 1 \in 0 .. 9 /\ Digits[(n - 1) + 1] = c
  BY <1>1
<1>3. \E v \in 0 .. 9 : Digits[v + 1] = c
  BY <1>2
<1>4. Value(c) = CHOOSE v \in 0 .. 9 : Digits[v + 1] = c
  <2>1. c \in {"0", "1", "2", "3", "4", "5", "6", "7", "8", "9"}
    BY <1>1 DEF Digits
  <2>2. Upper(c) = c /\ c \notin DOMAIN A2V
    BY <2>1, Alphabet DEF Upper, Capital
  <2> QED
    BY <2>2 DEF Value
<1> DEFINE w == CHOOSE v \in 0 .. 9 : Digits[v + 1] = c
<1>5. w \in 0 .. 9 /\ Digits[w + 1] = c
  BY <1>3
<1> HIDE DEF w
<1>6. Value(c) = w
  BY <1>4 DEF w
<1> QED
  BY <1>5, <1>6

LEMMA ValueRange == \A c : Value(c) \in -1 .. 31
<1> TAKE c
<1>1. CASE \E n \in 1 .. 10 : Digits[n] = c
  BY <1>1, DigitValue
<1>2. CASE ~(\E n \in 1 .. 10 : Digits[n] = c) /\ Upper(c) \in DOMAIN A2V
  <2>1. Value(c) = A2V[Upper(c)]
    BY <1>2 DEF Value
  <2>2. \A u \in DOMAIN A2V : A2V[u] \in -1 .. 31
    BY Alphabet DEF A2V
  <2> QED
    BY <1>2, <2>1, <2>2
<1>3. CASE ~(\E n \in 1 .. 10 : Digits[n] = c) /\ Upper(c) \notin DOMAIN A2V
  <2>1. Value(c) = -1
    BY <1>3 DEF Value
  <2> QED
    BY <2>1
<1> QED
  BY <1>1, <1>2, <1>3

(* The fold is the letter of the value.                                    *)
LEMMA FoldIsLetter ==
  ASSUME NEW c, Value(c) >= 0
  PROVE  FoldChar(c) = Letter(Value(c)) /\ Value(c) \in 0 .. 31
<1>1. CASE \E n \in 1 .. 10 : Digits[n] = c
  <2>1. Value(c) \in 0 .. 9 /\ Digits[Value(c) + 1] = c
    BY <1>1, DigitValue
  <2>2. \A v \in 0 .. 9 : Letter(v) = Digits[v + 1]
    BY DEF Letter, Digits, ENC_ALPHA
  <2>3. c \in {"0", "1", "2", "3", "4", "5", "6", "7", "8", "9"}
    BY <2>1 DEF Digits
  <2>4. FoldChar(c) = c
    BY <2>3 DEF FoldChar, Upper, Capital
  <2> QED
    BY <2>1, <2>2, <2>4
<1>2. CASE ~(\E n \in 1 .. 10 : Digits[n] = c) /\ Upper(c) \in DOMAIN A2V
  <2> DEFINE u == Upper(c)
  <2>1. Value(c) = A2V[u]
    BY <1>2 DEF Value
  <2>2. FoldChar(c) = CASE u \in {"I", "L"} -> "1" [] u = "O" -> "0" [] OTHER -> u
    BY DEF FoldChar
  <2>3. u \in DOMAIN A2V
    BY <1>2
  <2> HIDE DEF u
  <2> QED
    BY <2>1, <2>2, <2>3, Alphabet DEF A2V, Letter, ENC_ALPHA
<1>3. CASE ~(\E n \in 1 .. 10 : Digits[n] = c) /\ Upper(c) \notin DOMAIN A2V
  <2>1. Value(c) = -1
    BY <1>3 DEF Value
  <2> QED
    BY <2>1
<1> QED
  BY <1>1, <1>2, <1>3

-----------------------------------------------------------------------------
(* Digits and numbers.                                                     *)
LEMMA Appended ==
  ASSUME NEW S, NEW s \in Seq(S), NEW x \in S
  PROVE  /\ Append(s, x) \in Seq(S) /\ Len(Append(s, x)) = Len(s) + 1 /\ Len(s) \in Nat
         /\ \A n \in 1 .. Len(s) : Append(s, x)[n] = s[n] /\ s[n] \in S
         /\ Append(s, x)[Len(s) + 1] = x
BY AppendProperties, LenProperties, ElementOfSeq

LEMMA NumberIsInt ==
  ASSUME NEW base \in Nat, NEW s \in Seq(Int)
  PROVE  Number(base, s) \in Int
<1>1. Len(s) \in 0 .. Len(s)
  BY LenProperties
<1> QED
  BY <1>1, NumberRuns

LEMMA NumberOfNone == \A base \in Nat : Number(base, <<>>) = 0
<1> TAKE base \in Nat
<1>1. <<>> \in Seq(Int) /\ Len(<<>>) = 0
  OBVIOUS
<1>2. PICK run \in [0 .. Len(<<>>) -> Int] : run[0] = 0 /\ Number(base, <<>>) = run[Len(<<>>)]
  BY <1>1, NumberRuns, Zenon
<1> QED
  BY <1>1, <1>2, Zenon

LEMMA NumberAppend ==
  ASSUME NEW base \in Nat, NEW s \in Seq(Int), NEW x \in Int
  PROVE  Number(base, Append(s, x)) = base * Number(base, s) + x
<1> DEFINE t == Append(s, x)
           l == Len(s)
<1>1. /\ t \in Seq(Int) /\ Len(t) = l + 1 /\ l \in Nat
      /\ \A n \in 1 .. l : t[n] = s[n]
      /\ t[l + 1] = x
  BY Appended
<1>2. PICK g \in [0 .. l -> Int] :
        /\ g[0] = 0 /\ \A n \in 1 .. l : g[n] = base * g[n - 1] + s[n]
        /\ Number(base, s) = g[l]
  BY NumberRuns
<1> HIDE DEF t, l
<1>3. PICK h \in [0 .. l + 1 -> Int] :
        /\ h[0] = 0 /\ \A n \in 1 .. l + 1 : h[n] = base * h[n - 1] + t[n]
        /\ Number(base, t) = h[l + 1]
  <2>1. \E h \in [0 .. Len(t) -> Int] :
          /\ h[0] = 0 /\ \A n \in 1 .. Len(t) : h[n] = base * h[n - 1] + t[n]
          /\ Number(base, t) = h[Len(t)]
    BY <1>1, NumberRuns
  <2> QED
    BY <1>1, <2>1
<1> DEFINE P == {n \in Nat : n <= l => h[n] = g[n]}
<1>4. 0 \in P
  BY <1>2, <1>3
<1>5. ASSUME NEW n \in Nat, n \in P PROVE n + 1 \in P
  <2> SUFFICES ASSUME n + 1 <= l PROVE h[n + 1] = g[n + 1]
    OBVIOUS
  <2>1. n + 1 \in 1 .. l /\ n + 1 \in 1 .. l + 1 /\ (n + 1) - 1 = n /\ h[n] = g[n]
    BY <1>1, <1>5
  <2>2. h[n + 1] = base * h[n] + t[n + 1] /\ g[n + 1] = base * g[n] + s[n + 1]
    BY <1>2, <1>3, <2>1
  <2> QED
    BY <1>1, <2>1, <2>2
<1>6. h[l] = g[l]
  <2>1. l \in P
    <3> HIDE DEF P
    <3> QED
      BY <1>1, <1>4, <1>5, InSteps
  <2> QED
    BY <1>1, <2>1
<1>7. h[l + 1] = base * h[l] + x
  <2>1. l + 1 \in 1 .. l + 1 /\ (l + 1) - 1 = l
    BY <1>1
  <2> QED
    BY <1>1, <1>3, <2>1
<1> QED
  BY <1>2, <1>3, <1>6, <1>7 DEF t

LEMMA NumberIsNat ==
  ASSUME NEW base \in Nat, NEW s \in Seq(Nat)
  PROVE  Number(base, s) \in Nat
<1>1. s \in Seq(Int) /\ Len(s) \in Nat /\ \A n \in 1 .. Len(s) : s[n] \in Nat
  BY LenProperties, ElementOfSeq
<1>2. PICK g \in [0 .. Len(s) -> Int] :
        /\ g[0] = 0 /\ \A n \in 1 .. Len(s) : g[n] = base * g[n - 1] + s[n]
        /\ Number(base, s) = g[Len(s)]
  BY <1>1, NumberRuns
<1> DEFINE P == {n \in Nat : n <= Len(s) => g[n] \in Nat}
<1>3. 0 \in P
  BY <1>2
<1>4. ASSUME NEW n \in Nat, n \in P PROVE n + 1 \in P
  <2> SUFFICES ASSUME n + 1 <= Len(s) PROVE g[n + 1] \in Nat
    OBVIOUS
  <2>1. n + 1 \in 1 .. Len(s) /\ (n + 1) - 1 = n /\ g[n] \in Nat
    BY <1>1, <1>4
  <2>2. g[n + 1] = base * g[n] + s[n + 1] /\ s[n + 1] \in Nat
    BY <1>1, <1>2, <2>1
  <2>3. base * g[n] \in Nat
    BY <2>1
  <2> QED
    BY <2>2, <2>3
<1>5. Len(s) \in P
  <2> HIDE DEF P
  <2> QED
    BY <1>1, <1>3, <1>4, InSteps
<1> QED
  BY <1>1, <1>2, <1>5

-----------------------------------------------------------------------------
(* What a text spells.                                                     *)
Values == Seq(-1 .. 31)

LEMMA SpelledRuns ==
  ASSUME NEW C, NEW text \in Seq(C)
  PROVE  \E run \in [0 .. Len(text) -> Values] :
           /\ run[0] = <<>>
           /\ \A n \in 1 .. Len(text) : run[n] = IF text[n] \in Grouping THEN run[n - 1] ELSE Append(run[n - 1], Value(text[n]))
           /\ Spelled(text) = run[Len(text)]
<1> DEFINE run[n \in 0 .. Len(text)] == IF n = 0 THEN <<>> ELSE IF text[n] \in Grouping THEN run[n - 1] ELSE Append(run[n - 1], Value(text[n]))
           Body(x, n) == IF text[n] \in Grouping THEN x ELSE Append(x, Value(text[n]))
           a == [p \in Values \X (1 .. Len(text)) |-> Body(p[1], p[2])]
           k == Len(text)
<1>0. k \in Nat /\ <<>> \in Values
  BY LenProperties DEF Values
<1>1. Spelled(text) = run[Len(text)]
  BY DEF Spelled, Loop
<1>2. run = CHOOSE g : g = [n \in 0 .. k |-> IF n = 0 THEN <<>> ELSE Body(g[n - 1], n)]
  BY DEF run
<1>3. \A x \in Values : \A n \in 1 .. k : Body(x, n) \in Values
  BY ValueRange DEF Values
<1> HIDE DEF run, Body, k
<1>4. a \in [Values \X (1 .. k) -> Values]
  BY <1>3 DEF k
<1>5. \A x \in Values : \A n \in 1 .. k : a[<<x, n>>] = Body(x, n)
  BY DEF k
<1> HIDE DEF a
<1>6. PICK g \in [0 .. k -> Values] : Runs(g, <<>>, a, k)
  BY <1>0, <1>4, RunExists, Zenon
<1>7. ASSUME NEW n \in 1 .. k PROVE g[n] = Body(g[n - 1], n)
  <2>1. n - 1 \in 0 .. k /\ g[n - 1] \in Values
    BY <1>0
  <2> QED
    BY <1>5, <1>6, <2>1 DEF Runs
<1>8. g = [n \in 0 .. k |-> IF n = 0 THEN <<>> ELSE Body(g[n - 1], n)]
  <2>1. g[0] = <<>>
    BY <1>6 DEF Runs
  <2> QED
    BY <1>0, <1>7, <2>1
<1>9. run = [n \in 0 .. k |-> IF n = 0 THEN <<>> ELSE Body(run[n - 1], n)]
  BY <1>2, <1>8
<1>10. run[0] = <<>> /\ \A n \in 1 .. k : run[n] = Body(run[n - 1], n)
  BY <1>0, <1>9
<1> DEFINE P == {n \in Nat : n <= k => run[n] \in Values}
<1>11. 0 \in P
  BY <1>0, <1>10
<1>12. ASSUME NEW n \in Nat, n \in P PROVE n + 1 \in P
  <2> SUFFICES ASSUME n + 1 <= k PROVE run[n + 1] \in Values
    OBVIOUS
  <2>1. n + 1 \in 1 .. k /\ (n + 1) - 1 = n /\ run[n] \in Values
    BY <1>0, <1>12
  <2>2. run[n + 1] = Body(run[n], n + 1)
    BY <1>10, <2>1
  <2> QED
    BY <1>3, <2>1, <2>2
<1>13. \A n \in 0 .. k : run[n] \in Values
  <2>1. Nat \subseteq P
    <3> HIDE DEF P
    <3> QED
      BY <1>11, <1>12, InSteps
  <2> QED
    BY <1>0, <2>1
<1>14. run \in [0 .. k -> Values]
  BY <1>9, <1>13
<1>15. \A n \in 1 .. k : run[n] = IF text[n] \in Grouping THEN run[n - 1] ELSE Append(run[n - 1], Value(text[n]))
  BY <1>10, Zenon DEF Body
<1> QED
  BY <1>1, <1>10, <1>14, <1>15, Zenon DEF k

-----------------------------------------------------------------------------
(* The decoder.                                                            *)
Decoding == [buffer : Nat, bits : 0 .. 7, chars : Nat, out : Seq(Byte), ok : BOOLEAN]

(* The byte that a character completes.                                    *)
Taken(d, c) == Word(d.buffer * 32 + Value(c))
Filled(d, c) == Eight(Taken(d, c), d.bits - 3)

LEMMA WordIsNat == \A x \in Nat : Word(x) \in Nat
<1> TAKE x \in Nat
<1>1. WordSize \in Nat /\ WordSize > 0
  BY WordAssumption
<1> QED
  BY <1>1, Quotient DEF Word

(* What one character does to the decoder, case by case.                   *)
Refused(d)    == [d EXCEPT !.ok = FALSE]
Fed(d, c)     == [d EXCEPT !.buffer = Taken(d, c), !.bits = d.bits + 5, !.chars = d.chars + 1]
Drained(d, c) == [Fed(d, c) EXCEPT !.bits = d.bits - 3, !.out = Append(d.out, Filled(d, c))]

LEMMA DecodeCases ==
  ASSUME NEW d, d.bits \in 0 .. 7, Len(d.out) \in Nat, NEW c, NEW capacity \in Nat
  PROVE  /\ (~d.ok \/ c \in Grouping) => DecodeChar(d, c, capacity) = d
         /\ (d.ok /\ c \notin Grouping /\ Value(c) < 0) => DecodeChar(d, c, capacity) = Refused(d)
         /\ (d.ok /\ c \notin Grouping /\ Value(c) >= 0 /\ d.bits < 3) => DecodeChar(d, c, capacity) = Fed(d, c)
         /\ (d.ok /\ c \notin Grouping /\ Value(c) >= 0 /\ d.bits >= 3 /\ Len(d.out) >= capacity)
              => DecodeChar(d, c, capacity) = Refused(d)
         /\ (d.ok /\ c \notin Grouping /\ Value(c) >= 0 /\ d.bits >= 3 /\ Len(d.out) < capacity)
              => DecodeChar(d, c, capacity) = Drained(d, c)
<1> DEFINE bits == d.bits + 5
           byte == (Taken(d, c) \div 2 ^ (bits - 8)) % 256
           neg  == Value(c) < 0
           full == Len(d.out) >= capacity
           less == bits < 8
<1>1. DecodeChar(d, c, capacity) =
        IF ~d.ok \/ c \in Grouping THEN d
        ELSE IF neg THEN Refused(d)
        ELSE IF less THEN Fed(d, c)
        ELSE IF full THEN Refused(d)
        ELSE [Fed(d, c) EXCEPT !.bits = bits - 8, !.out = Append(d.out, byte)]
  BY DEF DecodeChar, Refused, Fed, Taken
<1>2. bits - 8 = d.bits - 3 /\ (less <=> d.bits < 3) /\ (~less <=> d.bits >= 3)
  OBVIOUS
<1>3. byte = Filled(d, c)
  BY <1>2 DEF Filled, Eight
<1>4. (neg <=> Value(c) < 0) /\ (~neg <=> Value(c) >= 0)
  <2> DEFINE v == Value(c)
  <2>1. v \in -1 .. 31
    BY ValueRange
  <2> HIDE DEF v
  <2>2. (v < 0 <=> v < 0) /\ (~(v < 0) <=> v >= 0)
    BY <2>1
  <2> QED
    BY <2>2, Zenon DEF v
<1>5. (full <=> Len(d.out) >= capacity) /\ (~full <=> Len(d.out) < capacity)
  OBVIOUS
<1> HIDE DEF bits, byte, neg, full, less
<1> DEFINE full2 == [Fed(d, c) EXCEPT !.bits = bits - 8, !.out = Append(d.out, byte)]
           e == DecodeChar(d, c, capacity)
<1>6. full2 = Drained(d, c)
  BY <1>2, <1>3 DEF Drained
<1> HIDE DEF full2, e
<1>7. e = IF ~d.ok \/ c \in Grouping THEN d ELSE IF neg THEN Refused(d)
          ELSE IF less THEN Fed(d, c) ELSE IF full THEN Refused(d) ELSE full2
  BY <1>1 DEF e, full2
<1>8. /\ (~d.ok \/ c \in Grouping) => e = d
      /\ (d.ok /\ c \notin Grouping /\ neg) => e = Refused(d)
      /\ (d.ok /\ c \notin Grouping /\ ~neg /\ less) => e = Fed(d, c)
      /\ (d.ok /\ c \notin Grouping /\ ~neg /\ ~less /\ full) => e = Refused(d)
      /\ (d.ok /\ c \notin Grouping /\ ~neg /\ ~less /\ ~full) => e = full2
  BY <1>7
<1> QED
  BY <1>2, <1>4, <1>5, <1>6, <1>8, Zenon DEF e

Quintets == Seq(0 .. 31)

LEMMA DecodeFields ==
  ASSUME NEW d \in Decoding, NEW c
  PROVE  /\ Refused(d) \in Decoding /\ ~Refused(d).ok
         /\ Value(c) >= 0 => Taken(d, c) \in Nat
         /\ (Value(c) >= 0 /\ d.bits < 3) =>
              /\ Fed(d, c) \in Decoding
              /\ Fed(d, c).buffer = Taken(d, c) /\ Fed(d, c).bits = d.bits + 5
              /\ Fed(d, c).chars = d.chars + 1 /\ Fed(d, c).out = d.out /\ Fed(d, c).ok = d.ok
         /\ (Value(c) >= 0 /\ d.bits >= 3) =>
              /\ Drained(d, c) \in Decoding /\ Filled(d, c) \in Byte
              /\ Drained(d, c).buffer = Taken(d, c) /\ Drained(d, c).bits = d.bits - 3
              /\ Drained(d, c).chars = d.chars + 1
              /\ Drained(d, c).out = Append(d.out, Filled(d, c)) /\ Drained(d, c).ok = d.ok
<1>1. Refused(d) \in Decoding /\ ~Refused(d).ok
  BY DEF Refused, Decoding
<1>2. ASSUME Value(c) >= 0 PROVE Taken(d, c) \in Nat
  <2> DEFINE v == Value(c)
             b == d.buffer
  <2>1. v \in 0 .. 31 /\ b \in Nat
    BY <1>2, FoldIsLetter DEF Decoding
  <2> HIDE DEF v, b
  <2>2. b * 32 + v \in Nat
    BY <2>1
  <2> QED
    BY <2>2, WordIsNat, Zenon DEF Taken, v, b
<1>3. ASSUME Value(c) >= 0, d.bits < 3
      PROVE  /\ Fed(d, c) \in Decoding
             /\ Fed(d, c).buffer = Taken(d, c) /\ Fed(d, c).bits = d.bits + 5
             /\ Fed(d, c).chars = d.chars + 1 /\ Fed(d, c).out = d.out /\ Fed(d, c).ok = d.ok
  <2>1. Taken(d, c) \in Nat /\ d.bits + 5 \in 0 .. 7 /\ d.chars + 1 \in Nat
    BY <1>2, <1>3 DEF Decoding
  <2> QED
    BY <2>1 DEF Fed, Decoding
<1>4. ASSUME Value(c) >= 0, d.bits >= 3
      PROVE  /\ Drained(d, c) \in Decoding /\ Filled(d, c) \in Byte
             /\ Drained(d, c).buffer = Taken(d, c) /\ Drained(d, c).bits = d.bits - 3
             /\ Drained(d, c).chars = d.chars + 1
             /\ Drained(d, c).out = Append(d.out, Filled(d, c)) /\ Drained(d, c).ok = d.ok
  <2>1. Taken(d, c) \in Nat /\ d.bits - 3 \in 0 .. 4 /\ d.bits - 3 \in 0 .. 7 /\ d.chars + 1 \in Nat
    BY <1>2, <1>4 DEF Decoding
  <2>2. Filled(d, c) \in Byte
    <3> DEFINE t == Taken(d, c)
               k == d.bits - 3
    <3>1. t \in Nat /\ k \in 0 .. 4
      BY <2>1
    <3> HIDE DEF t, k
    <3>2. (t \div 2 ^ k) % 256 \in 0 .. 255
      <4>1. CASE k = 0
        BY <3>1, <4>1
      <4>2. CASE k = 1
        BY <3>1, <4>2
      <4>3. CASE k = 2
        BY <3>1, <4>3
      <4>4. CASE k = 3
        BY <3>1, <4>4
      <4>5. CASE k = 4
        BY <3>1, <4>5
      <4> QED
        BY <3>1, <4>1, <4>2, <4>3, <4>4, <4>5
    <3> QED
      BY <3>2 DEF Filled, Eight, Byte, t, k
  <2>3. Append(d.out, Filled(d, c)) \in Seq(Byte)
    BY <2>2 DEF Decoding
  <2> DEFINE o == Append(d.out, Filled(d, c))
  <2> HIDE DEF o
  <2>4. Drained(d, c) = [Fed(d, c) EXCEPT !.bits = d.bits - 3, !.out = o]
    BY DEF Drained, o
  <2>5. /\ Drained(d, c) \in Decoding
        /\ Drained(d, c).buffer = Taken(d, c) /\ Drained(d, c).bits = d.bits - 3
        /\ Drained(d, c).chars = d.chars + 1
        /\ Drained(d, c).out = o /\ Drained(d, c).ok = d.ok
    <3>1. o \in Seq(Byte)
      BY <2>3 DEF o
    <3> QED
      BY <2>1, <2>4, <3>1 DEF Fed, Decoding
  <2> QED
    BY <2>2, <2>5 DEF o
<1> QED
  BY <1>1, <1>2, <1>3, <1>4

LEMMA Eighths ==
  ASSUME NEW n \in Nat
  PROVE  /\ (5 * n) \div 8 \in Nat /\ (5 * n) % 8 \in 0 .. 7
         /\ (5 * n) % 8 < 3 => /\ (5 * (n + 1)) \div 8 = (5 * n) \div 8
                               /\ (5 * (n + 1)) % 8 = ((5 * n) % 8) + 5
         /\ (5 * n) % 8 >= 3 => /\ (5 * (n + 1)) \div 8 = ((5 * n) \div 8) + 1
                                /\ (5 * (n + 1)) % 8 = ((5 * n) % 8) - 3
         /\ (5 * (n + 1)) \div 8 >= (5 * n) \div 8
OBVIOUS

LEMMA QuintetAppended ==
  ASSUME NEW vals \in Values, NEW v \in -1 .. 31
  PROVE  /\ Append(vals, v) \in Values /\ Len(Append(vals, v)) = Len(vals) + 1 /\ Len(vals) \in Nat
         /\ Append(vals, v) \in Quintets <=> vals \in Quintets /\ v >= 0
<1> DEFINE w == Append(vals, v)
           l == Len(vals)
<1>1. /\ w \in Values /\ Len(w) = l + 1 /\ l \in Nat
      /\ \A n \in 1 .. l : w[n] = vals[n] /\ vals[n] \in -1 .. 31
      /\ w[l + 1] = v
  <2> DEFINE S == -1 .. 31
  <2>1. vals \in Seq(S) /\ v \in S
    BY DEF Values
  <2> HIDE DEF S
  <2>2. /\ w \in Seq(S) /\ Len(w) = l + 1 /\ l \in Nat
        /\ \A n \in 1 .. l : w[n] = vals[n] /\ vals[n] \in S
        /\ w[l + 1] = v
    BY <2>1, Appended
  <2> QED
    BY <2>2 DEF Values, S
<1>2. ASSUME vals \in Quintets, v >= 0 PROVE w \in Quintets
  BY <1>2 DEF Quintets
<1>3. ASSUME w \in Quintets PROVE vals \in Quintets /\ v >= 0
  <2> HIDE DEF w
  <2>1. \A n \in 1 .. l + 1 : w[n] \in 0 .. 31
    BY <1>1, <1>3, ElementOfSeq DEF Quintets
  <2>2. l + 1 \in 1 .. l + 1 /\ \A n \in 1 .. l : n \in 1 .. l + 1
    <3>1. l \in Nat
      BY <1>1
    <3> HIDE DEF l
    <3> QED
      BY ONLY <3>1
  <2>3. v >= 0 /\ \A n \in 1 .. l : vals[n] \in 0 .. 31
    <3>1. w[l + 1] \in 0 .. 31 /\ \A n \in 1 .. l : w[n] \in 0 .. 31
      <4> HIDE DEF l
      <4> QED
        BY ONLY <2>1, <2>2
    <3>2. w[l + 1] = v /\ \A n \in 1 .. l : w[n] = vals[n]
      BY <1>1
    <3> HIDE DEF l
    <3> QED
      BY ONLY <3>1, <3>2
  <2>4. vals \in Seq(0 .. 31)
    <3>1. DOMAIN vals = 1 .. l /\ vals = [n \in DOMAIN vals |-> vals[n]]
      <4> DEFINE S == -1 .. 31
      <4>1. vals \in Seq(S)
        BY DEF Values
      <4> HIDE DEF S
      <4> QED
        BY ONLY <4>1, LenProperties
    <3>2. vals \in [1 .. l -> 0 .. 31]
      <4> HIDE DEF l
      <4> QED
        BY ONLY <2>3, <3>1
    <3> QED
      BY <1>1, <3>2, SeqDef
  <2> QED
    BY <2>3, <2>4 DEF Quintets
<1> QED
  BY <1>1, <1>2, <1>3

LEMMA SpelledLength ==
  ASSUME NEW C, NEW text \in Seq(C)
  PROVE  Len(Spelled(text)) \in Nat /\ Len(Spelled(text)) <= Len(text)
<1> DEFINE l == Len(text)
<1>0. l \in Nat
  BY LenProperties
<1>1. PICK vs \in [0 .. l -> Values] :
        /\ vs[0] = <<>>
        /\ \A n \in 1 .. l : vs[n] = IF text[n] \in Grouping THEN vs[n - 1] ELSE Append(vs[n - 1], Value(text[n]))
        /\ Spelled(text) = vs[l]
  BY SpelledRuns, Zenon
<1> DEFINE P == {n \in Nat : n <= l => Len(vs[n]) \in Nat /\ Len(vs[n]) <= n}
<1> HIDE DEF l
<1>2. 0 \in P
  BY <1>1
<1>3. ASSUME NEW n \in Nat, n \in P PROVE n + 1 \in P
  <2> SUFFICES ASSUME n + 1 <= l PROVE Len(vs[n + 1]) \in Nat /\ Len(vs[n + 1]) <= n + 1
    OBVIOUS
  <2> DEFINE vals == vs[n]
             v == Value(text[n + 1])
  <2>1. n + 1 \in 1 .. l /\ (n + 1) - 1 = n /\ vals \in Values /\ Len(vals) \in Nat /\ Len(vals) <= n
    BY <1>0, <1>3
  <2>2. vs[n + 1] = vals \/ vs[n + 1] = Append(vals, v)
    BY <1>1, <2>1
  <2>3. v \in -1 .. 31
    BY ValueRange
  <2> HIDE DEF vals, v
  <2>4. Len(Append(vals, v)) = Len(vals) + 1
    BY <2>1, <2>3, QuintetAppended
  <2> QED
    BY <2>1, <2>2, <2>4
<1>4. l \in P
  <2> HIDE DEF P
  <2> QED
    BY <1>0, <1>2, <1>3, InSteps
<1>5. Len(vs[l]) \in Nat /\ Len(vs[l]) <= l
  BY <1>0, <1>4
<1> QED
  BY <1>1, <1>5 DEF l

(* The decoder has the bytes that the characters read so far complete, and *)
(* the bits left over; or it never will.                                   *)
Decoded(d, vals, capacity) ==
  /\ vals \in Quintets
  /\ d.chars = Len(vals)
  /\ Len(d.out) = (5 * Len(vals)) \div 8
  /\ d.bits = (5 * Len(vals)) % 8
  /\ Len(d.out) <= capacity
  /\ d.buffer = Word(Number(32, vals))
  /\ Within(Number(32, vals), Number(256, d.out), d.bits)

Hopeless(vals, capacity) == vals \notin Quintets \/ (5 * Len(vals)) \div 8 > capacity

Accounted(d, vals, capacity) ==
  IF d.ok THEN Decoded(d, vals, capacity) ELSE Hopeless(vals, capacity)

Numbered(vals, out) == Number(32, vals) \in Nat /\ Number(256, out) \in Nat

LEMMA DigitNumbers ==
  ASSUME NEW vals \in Quintets, NEW out \in Seq(Byte)
  PROVE  /\ Numbered(vals, out)
         /\ vals \in Seq(Nat) /\ vals \in Seq(Int) /\ out \in Seq(Nat) /\ out \in Seq(Int)
<1>1. vals \in Seq(Nat) /\ vals \in Seq(Int) /\ out \in Seq(Nat) /\ out \in Seq(Int)
  <2>1. 0 .. 31 \subseteq Nat /\ 0 .. 31 \subseteq Int /\ 0 .. 255 \subseteq Nat /\ 0 .. 255 \subseteq Int
    OBVIOUS
  <2>2. vals \in Seq(Nat) /\ vals \in Seq(Int)
    <3> DEFINE S == 0 .. 31
    <3>1. vals \in Seq(S) /\ S \subseteq Nat /\ S \subseteq Int
      BY DEF Quintets
    <3> HIDE DEF S
    <3> QED
      BY ONLY <3>1, SeqMonotonic
  <2>3. out \in Seq(Nat) /\ out \in Seq(Int)
    <3> DEFINE S == 0 .. 255
    <3>1. out \in Seq(S) /\ S \subseteq Nat /\ S \subseteq Int
      BY DEF Byte
    <3> HIDE DEF S
    <3> QED
      BY ONLY <3>1, SeqMonotonic
  <2> QED
    BY <2>2, <2>3
<1>2. Number(32, vals) \in Nat
  <2>1. 32 \in Nat
    OBVIOUS
  <2> QED
    BY ONLY <1>1, <2>1, NumberIsNat
<1>3. Number(256, out) \in Nat
  <2>1. 256 \in Nat
    OBVIOUS
  <2> QED
    BY ONLY <1>1, <2>1, NumberIsNat
<1> QED
  BY <1>1, <1>2, <1>3 DEF Numbered

LEMMA QuintetNumber ==
  ASSUME NEW vals \in Quintets, NEW v \in 0 .. 31
  PROVE  Number(32, Append(vals, v)) = 32 * Number(32, vals) + v /\ Number(32, vals) \in Nat
<1>1. \A S, T : S \subseteq T => Seq(S) \subseteq Seq(T)
  BY SeqMonotonic
<1>2. 0 .. 31 \subseteq Nat /\ Nat \subseteq Int /\ v \in Int
  OBVIOUS
<1>3. vals \in Seq(Nat) /\ vals \in Seq(Int)
  BY <1>1, <1>2, Zenon DEF Quintets
<1> QED
  BY <1>2, <1>3, NumberAppend, NumberIsNat

LEMMA ByteNumber ==
  ASSUME NEW out \in Seq(Byte), NEW byte \in Byte
  PROVE  Number(256, Append(out, byte)) = 256 * Number(256, out) + byte
<1>1. \A S, T : S \subseteq T => Seq(S) \subseteq Seq(T)
  BY SeqMonotonic
<1>2. Byte \subseteq Int /\ byte \in Int
  BY DEF Byte
<1>3. out \in Seq(Int)
  BY <1>1, <1>2, Zenon
<1> QED
  BY <1>2, <1>3, NumberAppend

LEMMA WordQuintet ==
  ASSUME NEW n \in Nat, NEW v \in 0 .. 31
  PROVE  Word(Word(n) * 32 + v) = Word(32 * n + v)
<1> DEFINE f == 32
<1>1. f \in Nat /\ v \in Nat
  OBVIOUS
<1> HIDE DEF f
<1>2. ((n % WordSize) * f + v) % WordSize = (n * f + v) % WordSize
  BY ONLY <1>1, n \in Nat, WordShifts
<1>3. n * 32 + v = 32 * n + v
  OBVIOUS
<1> QED
  BY <1>2, <1>3 DEF Word, f

LEMMA DecodeAccounts ==
  ASSUME NEW capacity \in Nat, NEW d \in Decoding, NEW vals \in Values, NEW c,
         Accounted(d, vals, capacity), c \notin Grouping
  PROVE  /\ DecodeChar(d, c, capacity) \in Decoding
         /\ Accounted(DecodeChar(d, c, capacity), Append(vals, Value(c)), capacity)
<1> DEFINE v == Value(c)
           w == Append(vals, v)
           l == Len(vals)
           e == DecodeChar(d, c, capacity)
<1>0. /\ d.bits \in 0 .. 7 /\ Len(d.out) \in Nat /\ v \in -1 .. 31
      /\ w \in Values /\ Len(w) = l + 1 /\ l \in Nat
      /\ w \in Quintets <=> vals \in Quintets /\ v >= 0
  BY ValueRange, QuintetAppended, LenProperties DEF Decoding
<1>1. CASE ~d.ok
  <2>1. e = d
    BY <1>0, <1>1, DecodeCases
  <2>2. Hopeless(vals, capacity)
    BY <1>1 DEF Accounted
  <2>3. Hopeless(w, capacity)
    <3> HIDE DEF w
    <3>1. CASE vals \notin Quintets
      BY <1>0, <3>1 DEF Hopeless
    <3>2. CASE (5 * l) \div 8 > capacity
      <4>1. (5 * (l + 1)) \div 8 > capacity
        BY <1>0, <3>2, Eighths
      <4> QED
        BY <1>0, <4>1 DEF Hopeless
    <3> QED
      BY <2>2, <3>1, <3>2 DEF Hopeless
  <2> QED
    BY <1>1, <2>1, <2>3 DEF Accounted
<1>2. CASE d.ok /\ v < 0
  <2>1. e = Refused(d)
    BY <1>0, <1>2, DecodeCases
  <2>2. Hopeless(w, capacity)
    <3>1. w \notin Quintets
      <4> HIDE DEF w, v
      <4> QED
        BY <1>0, <1>2
    <3> QED
      BY <3>1 DEF Hopeless
  <2> QED
    BY <2>1, <2>2, DecodeFields DEF Accounted
<1>3. CASE d.ok /\ v >= 0
  <2>0. Decoded(d, vals, capacity) /\ v \in 0 .. 31
    BY <1>0, <1>3 DEF Accounted
  <2> DEFINE n == Number(32, vals)
             b == Number(256, d.out)
  <2>1. /\ n \in Nat /\ b \in Nat /\ Number(32, w) = 32 * n + v /\ w \in Quintets
        /\ \A byte \in Byte : Number(256, Append(d.out, byte)) = 256 * b + byte
        /\ Word(Word(n) * 32 + v) = Word(Number(32, w))
    <3> DEFINE o == d.out
    <3>1. vals \in Quintets /\ o \in Seq(Byte)
      BY <2>0 DEF Decoded, Decoding
    <3> HIDE DEF v, o
    <3>2. n \in Nat /\ Number(256, o) \in Nat
      BY <3>1, DigitNumbers DEF Numbered
    <3>3. Number(32, w) = 32 * n + v
      BY <2>0, <3>1, QuintetNumber
    <3>4. w \in Quintets
      BY <1>0, <1>3, <3>1
    <3>5. \A byte \in Byte : Number(256, Append(o, byte)) = 256 * Number(256, o) + byte
      BY <3>1, ByteNumber
    <3>6. Word(Word(n) * 32 + v) = Word(32 * n + v)
      BY <2>0, <3>2, WordQuintet
    <3> QED
      BY <3>2, <3>3, <3>4, <3>5, <3>6 DEF o
  <2>2. /\ d.chars = l /\ Len(d.out) = (5 * l) \div 8 /\ d.bits = (5 * l) % 8
        /\ Len(d.out) <= capacity /\ d.buffer = Word(n)
        /\ Within(n, b, d.bits)
    BY <2>0 DEF Decoded
  <2>3. Taken(d, c) = Word(Number(32, w))
    BY <2>1, <2>2 DEF Taken
  <2>4. CASE d.bits < 3
    <3>1. e = Fed(d, c)
      BY <1>0, <1>3, <2>4, DecodeCases
    <3>2. /\ e \in Decoding /\ e.buffer = Taken(d, c) /\ e.bits = d.bits + 5
          /\ e.chars = d.chars + 1 /\ e.out = d.out /\ e.ok
      BY <1>3, <2>4, <3>1, DecodeFields
    <3>3. /\ (5 * (l + 1)) \div 8 = (5 * l) \div 8
          /\ (5 * (l + 1)) % 8 = d.bits + 5
      BY <1>0, <2>2, <2>4, Eighths
    <3>4. Within(32 * n + v, b, d.bits + 5)
      <4> DEFINE k == d.bits
      <4>0. k \in 0 .. 2
        BY <1>0, <2>4
      <4>1. /\ n \in Nat /\ b \in Nat /\ v \in 0 .. 31 /\ k \in 0 .. 2
            /\ Within(n, b, k)
        BY <2>0, <2>1, <2>2, <4>0
      <4> HIDE DEF n, b, v, k
      <4>2. Within(32 * n + v, b, k + 5)
        BY ONLY <4>1, ShortCarry, Zenon
      <4> QED
        BY <4>2 DEF k
    <3>5. Decoded(e, w, capacity)
      <4> HIDE DEF e, w, n, b, v
      <4>1. e.chars = Len(w) /\ Len(e.out) = (5 * Len(w)) \div 8 /\ e.bits = (5 * Len(w)) % 8
            /\ Len(e.out) <= capacity /\ e.buffer = Word(Number(32, w))
        BY <1>0, <2>2, <2>3, <3>2, <3>3
      <4>2. Within(Number(32, w), Number(256, e.out), e.bits)
        BY <2>1, <3>2, <3>4 DEF b
      <4> QED
        BY <2>1, <4>1, <4>2 DEF Decoded
    <3> QED
      BY <3>2, <3>5 DEF Accounted
  <2>5. CASE d.bits >= 3 /\ Len(d.out) >= capacity
    <3>1. e = Refused(d)
      BY <1>0, <1>3, <2>5, DecodeCases
    <3>2. (5 * Len(w)) \div 8 > capacity
      <4>1. (5 * (l + 1)) \div 8 = ((5 * l) \div 8) + 1
        BY <1>0, <2>2, <2>5, Eighths
      <4> HIDE DEF w
      <4>2. (5 * l) \div 8 \in Nat /\ (5 * l) \div 8 >= capacity
        BY <1>0, <2>2, <2>5
      <4> QED
        BY <1>0, <4>1, <4>2
    <3> QED
      BY <3>1, <3>2, DecodeFields DEF Accounted, Hopeless
  <2>6. CASE d.bits >= 3 /\ Len(d.out) < capacity
    <3>1. e = Drained(d, c)
      BY <1>0, <1>3, <2>6, DecodeCases
    <3>2. /\ e \in Decoding /\ Filled(d, c) \in Byte
          /\ e.buffer = Taken(d, c) /\ e.bits = d.bits - 3
          /\ e.chars = d.chars + 1 /\ e.out = Append(d.out, Filled(d, c)) /\ e.ok
      BY <1>3, <2>6, <3>1, DecodeFields
    <3>3. /\ (5 * (l + 1)) \div 8 = ((5 * l) \div 8) + 1
          /\ (5 * (l + 1)) % 8 = d.bits - 3
      BY <1>0, <2>2, <2>6, Eighths
    <3>4. Len(e.out) = Len(d.out) + 1 /\ Number(256, e.out) = 256 * b + Filled(d, c)
      BY <2>1, <3>2 DEF Decoding
    <3>5. Filled(d, c) = Eight(32 * n + v, d.bits - 3)
      <4> DEFINE k == d.bits - 3
                 x == 32 * n + v
      <4>1. x \in Nat /\ k \in 0 .. 4
        <5> HIDE DEF n, b, v, w
        <5> QED
          BY <1>0, <2>0, <2>1, <2>6
      <4>2. Taken(d, c) = Word(x)
        BY <2>1, <2>3
      <4> HIDE DEF k, x
      <4>3. Eight(Word(x), k) = Eight(x, k)
        BY ONLY <4>1, WordBits, Zenon
      <4> QED
        BY <4>2, <4>3 DEF Filled, k, x
    <3>6. Within(32 * n + v, 256 * b + Filled(d, c), d.bits - 3)
      <4>1. d.bits \in 3 .. 7
        BY <1>0, <2>6
      <4> DEFINE k == d.bits
                 byte == Filled(d, c)
      <4>2. /\ n \in Nat /\ b \in Nat /\ v \in 0 .. 31 /\ k \in 3 .. 7 /\ byte \in 0 .. 255
            /\ Within(n, b, k) /\ byte = Eight(32 * n + v, k - 3)
        BY <2>0, <2>1, <2>2, <3>2, <3>5, <4>1 DEF Byte
      <4> HIDE DEF n, b, v, k, byte
      <4>3. Carries(n, b, v, k)
        BY ONLY <4>2, LongCarry, Zenon
      <4>4. Within(32 * n + v, 256 * b + byte, k - 3)
        BY ONLY <4>2, <4>3 DEF Carries
      <4> QED
        BY <4>4 DEF k, byte
    <3>7. Decoded(e, w, capacity)
      <4> HIDE DEF e, w, n, b, v
      <4>1. e.chars = Len(w) /\ Len(e.out) = (5 * Len(w)) \div 8 /\ e.bits = (5 * Len(w)) % 8
            /\ Len(e.out) <= capacity /\ e.buffer = Word(Number(32, w))
        BY <1>0, <2>2, <2>3, <2>6, <3>2, <3>3, <3>4
      <4>2. Within(Number(32, w), Number(256, e.out), e.bits)
        BY <2>1, <3>2, <3>4, <3>6
      <4> QED
        BY <2>1, <4>1, <4>2 DEF Decoded
    <3> QED
      BY <3>2, <3>7 DEF Accounted
  <2> QED
    BY <1>0, <2>4, <2>5, <2>6
<1>4. v < 0 \/ v >= 0
  <2> HIDE DEF v
  <2> QED
    BY <1>0
<1> QED
  BY <1>1, <1>2, <1>3, <1>4

LEMMA DecodingKept ==
  ASSUME NEW d \in Decoding, NEW c, NEW capacity \in Nat
  PROVE  DecodeChar(d, c, capacity) \in Decoding
<1>1. d.bits \in 0 .. 7 /\ Len(d.out) \in Nat
  BY LenProperties DEF Decoding
<1>2. Refused(d) \in Decoding
  BY DecodeFields
<1>3. CASE ~d.ok \/ c \in Grouping
  BY <1>1, <1>3, DecodeCases
<1>4. CASE d.ok /\ c \notin Grouping
  <2> DEFINE v == Value(c)
  <2>1. v \in -1 .. 31
    BY ValueRange
  <2> HIDE DEF v
  <2>2. v < 0 \/ v >= 0
    BY <2>1
  <2>3. \/ v < 0
        \/ v >= 0 /\ d.bits < 3
        \/ v >= 0 /\ d.bits >= 3 /\ Len(d.out) >= capacity
        \/ v >= 0 /\ d.bits >= 3 /\ Len(d.out) < capacity
    BY <1>1, <2>2
  <2>4. CASE v < 0
    BY <1>1, <1>2, <1>4, <2>4, DecodeCases DEF v
  <2>5. CASE v >= 0 /\ d.bits < 3
    BY <1>1, <1>4, <2>5, DecodeCases, DecodeFields DEF v
  <2>6. CASE v >= 0 /\ d.bits >= 3 /\ Len(d.out) >= capacity
    BY <1>1, <1>2, <1>4, <2>6, DecodeCases DEF v
  <2>7. CASE v >= 0 /\ d.bits >= 3 /\ Len(d.out) < capacity
    BY <1>1, <1>4, <2>7, DecodeCases, DecodeFields DEF v
  <2> QED
    BY <2>3, <2>4, <2>5, <2>6, <2>7
<1> QED
  BY <1>3, <1>4

(* What vl_base32_decode() returns, once the loop has ended.               *)
Outcome(d, text, capacity, expect) ==
  IF /\ expect # 0 => capacity >= expect
     /\ Len(text) <= MaxInput
     /\ d.ok
     /\ PaddingIsZero(d)
     /\ expect # 0 => d.chars = CharsFor(expect) /\ Len(d.out) = expect
  THEN d.out
  ELSE Failed

LEMMA DecodeRuns ==
  ASSUME NEW C, NEW text \in Seq(C), NEW capacity \in Nat
  PROVE  \E run \in [0 .. Len(text) -> Decoding] :
           /\ run[0] = DecodeStart
           /\ \A n \in 1 .. Len(text) : run[n] = DecodeChar(run[n - 1], text[n], capacity)
           /\ \A expect : Decode(text, capacity, expect) = Outcome(run[Len(text)], text, capacity, expect)
<1> DEFINE run[n \in 0 .. Len(text)] == IF n = 0 THEN DecodeStart ELSE DecodeChar(run[n - 1], text[n], capacity)
           Body(x, n) == DecodeChar(x, text[n], capacity)
           a == [p \in Decoding \X (1 .. Len(text)) |-> Body(p[1], p[2])]
           k == Len(text)
<1>0. k \in Nat /\ DecodeStart \in Decoding
  BY LenProperties DEF DecodeStart, Decoding
<1>1. \A expect : Decode(text, capacity, expect) = Outcome(run[Len(text)], text, capacity, expect)
  BY DEF Decode, Loop, Outcome
<1>2. run = CHOOSE g : g = [n \in 0 .. k |-> IF n = 0 THEN DecodeStart ELSE Body(g[n - 1], n)]
  BY DEF run
<1>3. \A x \in Decoding : \A n \in 1 .. k : Body(x, n) \in Decoding
  BY DecodingKept
<1> HIDE DEF run, Body, k
<1>4. a \in [Decoding \X (1 .. k) -> Decoding]
  BY <1>3 DEF k
<1>5. \A x \in Decoding : \A n \in 1 .. k : a[<<x, n>>] = Body(x, n)
  BY DEF k
<1> HIDE DEF a
<1>6. PICK g \in [0 .. k -> Decoding] : Runs(g, DecodeStart, a, k)
  BY <1>0, <1>4, RunExists, Zenon
<1>7. ASSUME NEW n \in 1 .. k PROVE g[n] = Body(g[n - 1], n)
  <2>1. n - 1 \in 0 .. k /\ g[n - 1] \in Decoding
    BY <1>0
  <2> QED
    BY <1>5, <1>6, <2>1 DEF Runs
<1>8. g = [n \in 0 .. k |-> IF n = 0 THEN DecodeStart ELSE Body(g[n - 1], n)]
  <2>1. g[0] = DecodeStart
    BY <1>6 DEF Runs
  <2> QED
    BY <1>0, <1>7, <2>1
<1>9. run = [n \in 0 .. k |-> IF n = 0 THEN DecodeStart ELSE Body(run[n - 1], n)]
  BY <1>2, <1>8
<1>10. run[0] = DecodeStart /\ \A n \in 1 .. k : run[n] = Body(run[n - 1], n)
  BY <1>0, <1>9
<1> DEFINE P == {n \in Nat : n <= k => run[n] \in Decoding}
<1>11. 0 \in P
  BY <1>0, <1>10
<1>12. ASSUME NEW n \in Nat, n \in P PROVE n + 1 \in P
  <2> SUFFICES ASSUME n + 1 <= k PROVE run[n + 1] \in Decoding
    OBVIOUS
  <2>1. n + 1 \in 1 .. k /\ (n + 1) - 1 = n /\ run[n] \in Decoding
    BY <1>0, <1>12
  <2>2. run[n + 1] = Body(run[n], n + 1)
    BY <1>10, <2>1
  <2> QED
    BY <1>3, <2>1, <2>2
<1>13. \A n \in 0 .. k : run[n] \in Decoding
  <2>1. Nat \subseteq P
    <3> HIDE DEF P
    <3> QED
      BY <1>11, <1>12, InSteps
  <2> QED
    BY <1>0, <2>1
<1>14. run \in [0 .. k -> Decoding]
  BY <1>9, <1>13
<1>15. \A n \in 1 .. k : run[n] = DecodeChar(run[n - 1], text[n], capacity)
  BY <1>10, Zenon DEF Body
<1> QED
  BY <1>1, <1>10, <1>14, <1>15, Zenon DEF k

LEMMA QuintetsAre ==
  ASSUME NEW vals \in Values
  PROVE  vals \in Quintets <=> \A i \in 1 .. Len(vals) : vals[i] >= 0
<1> DEFINE l == Len(vals)
<1>1. l \in Nat /\ vals \in [1 .. l -> -1 .. 31]
  BY LenProperties DEF Values
<1>2. ASSUME vals \in Quintets, NEW i \in 1 .. l PROVE vals[i] >= 0
  <2> DEFINE S == 0 .. 31
  <2>1. vals \in Seq(S)
    BY <1>2 DEF Quintets
  <2> HIDE DEF S
  <2> DEFINE x == vals[i]
  <2>2. x \in S
    BY <2>1, ElementOfSeq
  <2> HIDE DEF x
  <2>3. x >= 0
    BY ONLY <2>2 DEF S
  <2> QED
    BY <2>3 DEF x
<1>3. ASSUME \A i \in 1 .. l : vals[i] >= 0 PROVE vals \in Quintets
  <2> HIDE DEF l
  <2>1. \A i \in 1 .. l : vals[i] \in 0 .. 31
    <3> TAKE i \in 1 .. l
    <3>1. vals[i] \in -1 .. 31 /\ vals[i] >= 0
      BY <1>1, <1>3 DEF l
    <3> QED
      BY <3>1
  <2>2. vals \in [1 .. l -> 0 .. 31]
    BY <1>1, <2>1
  <2> DEFINE S == 0 .. 31
  <2>3. vals \in [1 .. l -> S] /\ l \in Nat
    BY <1>1, <2>2
  <2> HIDE DEF S
  <2>4. vals \in Seq(S)
    BY ONLY <2>3, SeqDef
  <2> QED
    BY <2>4 DEF Quintets, S
<1> QED
  BY <1>2, <1>3

(* The decoder and the text it has read, in step.                          *)
LEMMA DecodeSpells ==
  ASSUME NEW C, NEW text \in Seq(C), NEW capacity \in Nat
  PROVE  \E d \in Decoding :
           /\ Accounted(d, Spelled(text), capacity) /\ Spelled(text) \in Values
           /\ \A expect : Decode(text, capacity, expect) = Outcome(d, text, capacity, expect)
<1> DEFINE l == Len(text)
<1>0. l \in Nat
  BY LenProperties
<1>1. PICK ds \in [0 .. l -> Decoding] :
        /\ ds[0] = DecodeStart
        /\ \A n \in 1 .. l : ds[n] = DecodeChar(ds[n - 1], text[n], capacity)
        /\ \A expect : Decode(text, capacity, expect) = Outcome(ds[l], text, capacity, expect)
  BY DecodeRuns, Zenon
<1>2. PICK vs \in [0 .. l -> Values] :
        /\ vs[0] = <<>>
        /\ \A n \in 1 .. l : vs[n] = IF text[n] \in Grouping THEN vs[n - 1] ELSE Append(vs[n - 1], Value(text[n]))
        /\ Spelled(text) = vs[l]
  BY SpelledRuns, Zenon
<1> DEFINE P == {n \in Nat : n <= l => Accounted(ds[n], vs[n], capacity)}
<1> HIDE DEF l
<1>3. 0 \in P
  <2>1. Accounted(DecodeStart, <<>>, capacity)
    <3>1. Number(32, <<>>) = 0 /\ Number(256, <<>>) = 0
      BY NumberOfNone
    <3>2. Word(0) = 0
      <4>1. WordSize \in Nat /\ WordSize > 0
        BY WordAssumption
      <4> QED
        BY <4>1 DEF Word
    <3>3. <<>> \in Quintets /\ Len(<<>>) = 0
      BY DEF Quintets
    <3>4. Within(0, 0, 0)
      BY DEF Within
    <3>5. (5 * 0) \div 8 = 0 /\ (5 * 0) % 8 = 0 /\ 0 <= capacity
      OBVIOUS
    <3>6. /\ DecodeStart.ok /\ DecodeStart.out = <<>> /\ DecodeStart.chars = 0
          /\ DecodeStart.bits = 0 /\ DecodeStart.buffer = 0
      BY DEF DecodeStart
    <3>7. Decoded(DecodeStart, <<>>, capacity)
      BY <3>1, <3>2, <3>3, <3>4, <3>5, <3>6 DEF Decoded
    <3> QED
      BY <3>6, <3>7 DEF Accounted
  <2> QED
    BY <1>1, <1>2, <2>1
<1>4. ASSUME NEW n \in Nat, n \in P PROVE n + 1 \in P
  <2> SUFFICES ASSUME n + 1 <= l PROVE Accounted(ds[n + 1], vs[n + 1], capacity)
    OBVIOUS
  <2>1. n \in 0 .. l /\ n + 1 \in 1 .. l /\ (n + 1) - 1 = n /\ Accounted(ds[n], vs[n], capacity)
    BY <1>0, <1>4
  <2>2. ds[n] \in Decoding /\ vs[n] \in Values
    BY <2>1
  <2> DEFINE c == text[n + 1]
  <2>3. ds[n + 1] = DecodeChar(ds[n], c, capacity)
    BY <1>1, <2>1
  <2>4. vs[n + 1] = IF c \in Grouping THEN vs[n] ELSE Append(vs[n], Value(c))
    BY <1>2, <2>1
  <2> HIDE DEF c
  <2>5. CASE c \in Grouping
    <3>1. ds[n].bits \in 0 .. 7 /\ Len(ds[n].out) \in Nat
      BY <2>2, LenProperties DEF Decoding
    <3>2. ds[n + 1] = ds[n]
      BY <2>3, <2>5, <3>1, DecodeCases
    <3> QED
      BY <2>1, <2>4, <2>5, <3>2, Zenon
  <2>6. CASE c \notin Grouping
    BY <2>1, <2>2, <2>3, <2>4, <2>6, DecodeAccounts
  <2> QED
    BY <2>5, <2>6
<1>5. Accounted(ds[l], vs[l], capacity)
  <2>1. l \in P
    <3> HIDE DEF P
    <3> QED
      BY <1>0, <1>3, <1>4, InSteps
  <2> QED
    BY <1>0, <2>1
<1>6. l \in 0 .. l
  BY <1>0
<1>7. ds[l] \in Decoding /\ vs[l] \in Values
  BY <1>6
<1> QED
  BY <1>1, <1>2, <1>5, <1>7, Zenon

(* Bits that are zero are those that the bytes do not have.                *)
Clean(n, b, k) ==
  /\ (n % 2 ^ k = 0) <=> (n = b * 2 ^ k)
  /\ Word(n) % 2 ^ k = n % 2 ^ k

LEMMA NothingLeft ==
  ASSUME NEW n \in Nat, NEW b \in Nat, NEW k \in 0 .. 7, Within(n, b, k)
  PROVE  Clean(n, b, k)
<1>1. (n % 2 ^ k = 0) <=> (n = b * 2 ^ k)
  <2> USE DEF Within
  <2>1. CASE k = 0
    BY <2>1
  <2>2. CASE k = 1
    BY <2>2
  <2>3. CASE k = 2
    BY <2>3
  <2>4. CASE k = 3
    BY <2>4
  <2>5. CASE k = 4
    BY <2>5
  <2>6. CASE k = 5
    BY <2>6
  <2>7. CASE k = 6
    BY <2>7
  <2>8. CASE k = 7
    BY <2>8
  <2> QED
    BY <2>1, <2>2, <2>3, <2>4, <2>5, <2>6, <2>7, <2>8
<1>2. Word(n) % 2 ^ k = n % 2 ^ k
  <2>1. LastBits(Word(n), k) = LastBits(n, k)
    BY WordTail, Zenon
  <2> QED
    BY <2>1 DEF LastBits
<1> QED
  BY <1>1, <1>2 DEF Clean

(* The decoder yields what the text spells, for every text, capacity and   *)
(* expected length, or fails.                                              *)
LEMMA DecodeIsRight ==
  ASSUME NEW C, NEW text \in Seq(C), NEW capacity \in Nat, NEW expect \in Nat
  PROVE  /\ Decodable(text, capacity, expect) => Spells(text, Decode(text, capacity, expect))
         /\ ~Decodable(text, capacity, expect) => Decode(text, capacity, expect) = Failed
<1> DEFINE vals == Spelled(text)
           l == Len(vals)
<1>1. PICK d \in Decoding :
        /\ Accounted(d, vals, capacity) /\ vals \in Values
        /\ Decode(text, capacity, expect) = Outcome(d, text, capacity, expect)
  BY DecodeSpells, Zenon
<1> HIDE DEF vals
<1>2. l \in Nat /\ (vals \in Quintets <=> \A i \in 1 .. l : vals[i] >= 0)
  BY <1>1, QuintetsAre, LenProperties DEF Values
<1>3. CASE ~d.ok
  <2>1. Outcome(d, text, capacity, expect) = Failed
    BY <1>3, Zenon DEF Outcome
  <2>2. Hopeless(vals, capacity)
    BY <1>1, <1>3 DEF Accounted
  <2>3. ~Decodable(text, capacity, expect)
    <3>1. (5 * l) \div 8 \in Nat
      BY <1>2
    <3> QED
      BY <1>2, <2>2, <3>1 DEF Decodable, Hopeless, vals
  <2> QED
    BY <1>1, <2>1, <2>3
<1>4. CASE d.ok
  <2> DEFINE n == Number(32, vals)
             b == Number(256, d.out)
             k == d.bits
  <2>1. /\ vals \in Quintets /\ d.chars = l /\ Len(d.out) = (5 * l) \div 8 /\ k = (5 * l) % 8
        /\ Len(d.out) <= capacity /\ d.buffer = Word(n) /\ Within(n, b, k)
    BY <1>1, <1>4 DEF Accounted, Decoded
  <2>2. d.out \in Seq(Byte) /\ k \in 0 .. 7
    BY DEF Decoding
  <2>3. n \in Nat /\ b \in Nat
    <3> DEFINE o == d.out
    <3>2. o \in Seq(Byte)
      BY <2>2
    <3> HIDE DEF o
    <3>3. vals \in Quintets
      BY <2>1
    <3>4. Numbered(vals, o)
      BY ONLY <3>2, <3>3, DigitNumbers
    <3> QED
      BY <3>4 DEF Numbered, o
  <2> DEFINE clean == n % 2 ^ k = 0
  <2>4. (PaddingIsZero(d) <=> clean) /\ (clean <=> n = b * 2 ^ k)
    <3> HIDE DEF n, b, k
    <3>1. Within(n, b, k) /\ n \in Nat /\ b \in Nat /\ k \in 0 .. 7
      BY <2>1, <2>2, <2>3
    <3>2. Clean(n, b, k)
      BY ONLY <3>1, NothingLeft, Zenon
    <3> QED
      BY <2>1, <3>2 DEF PaddingIsZero, Clean, k
  <2>5. Decodable(text, capacity, expect) <=>
          /\ Len(text) <= MaxInput
          /\ clean
          /\ expect # 0 => l = CharsFor(expect) /\ (5 * l) \div 8 = expect
    <3>1. /\ \A i \in 1 .. l : vals[i] >= 0
          /\ (5 * l) \div 8 <= capacity
      BY <1>2, <2>1
    <3>2. clean <=> Number(32, vals) % 2 ^ ((5 * l) % 8) = 0
      BY <2>1
    <3> HIDE DEF clean
    <3> QED
      BY <3>1, <3>2, Zenon DEF Decodable, vals
  <2>6. (expect # 0 /\ (5 * l) \div 8 = expect) => capacity >= expect
    BY <1>2, <2>1
  <2> HIDE DEF clean
  <2>7. Outcome(d, text, capacity, expect) =
          IF Decodable(text, capacity, expect) THEN d.out ELSE Failed
    <3>1. (d.chars = CharsFor(expect) /\ Len(d.out) = expect)
            <=> (l = CharsFor(expect) /\ (5 * l) \div 8 = expect)
      BY <2>1
    <3>2. Outcome(d, text, capacity, expect) =
            IF /\ expect # 0 => capacity >= expect
               /\ Len(text) <= MaxInput
               /\ clean
               /\ expect # 0 => l = CharsFor(expect) /\ (5 * l) \div 8 = expect
            THEN d.out ELSE Failed
      BY <1>4, <2>4, <3>1, Zenon DEF Outcome
    <3> QED
      BY <2>5, <2>6, <3>2, Zenon
  <2>8. Decodable(text, capacity, expect) => Spells(text, d.out)
    <3> SUFFICES ASSUME clean PROVE Spells(text, d.out)
      BY <2>5
    <3> QED
      BY <2>1, <2>2, <2>4, Zenon DEF Spells, vals
  <2> QED
    BY <1>1, <2>7, <2>8
<1> QED
  BY <1>3, <1>4

-----------------------------------------------------------------------------
(* The encoder.                                                            *)
LEMMA WordDigit ==
  ASSUME NEW n \in Nat, NEW k \in 0 .. 7
  PROVE  ((n % WordSize) \div 2 ^ k) % 32 = (n \div 2 ^ k) % 32
<1> DEFINE q == n \div WordSize
           r == n % WordSize
           w == WordSize \div 4096
           x == q * w
<1>1. /\ WordSize \in Nat /\ WordSize > 0 /\ q \in Nat /\ r \in Nat /\ w \in Nat
      /\ n = q * WordSize + r /\ WordSize = w * 4096
  BY Quotient, WordAssumption
<1> HIDE DEF q, r, w
<1>2. x \in Nat /\ q * WordSize = x * 4096
  BY <1>1
<1> HIDE DEF x
<1>3. n = x * 4096 + r
  BY <1>1, <1>2
<1>4. (r \div 2 ^ k) % 32 = (n \div 2 ^ k) % 32
  <2>1. CASE k = 0
    BY <1>1, <1>2, <1>3, <2>1
  <2>2. CASE k = 1
    BY <1>1, <1>2, <1>3, <2>2
  <2>3. CASE k = 2
    BY <1>1, <1>2, <1>3, <2>3
  <2>4. CASE k = 3
    BY <1>1, <1>2, <1>3, <2>4
  <2>5. CASE k = 4
    BY <1>1, <1>2, <1>3, <2>5
  <2>6. CASE k = 5
    BY <1>1, <1>2, <1>3, <2>6
  <2>7. CASE k = 6
    BY <1>1, <1>2, <1>3, <2>7
  <2>8. CASE k = 7
    BY <1>1, <1>2, <1>3, <2>8
  <2> QED
    BY <2>1, <2>2, <2>3, <2>4, <2>5, <2>6, <2>7, <2>8
<1> QED
  BY <1>4 DEF r

(* The five bits of a number from bit k on.                                *)
Five(x, k) == (x \div 2 ^ k) % 32

(* One character leaves three bits more than there were, two leave two     *)
(* fewer.                                                                  *)
One(n, b, byte, k, v) ==
  (Within(n, b, k) /\ v = Five(256 * n + byte, k + 3)) => Within(256 * n + byte, 32 * b + v, k + 3)

Two(n, b, byte, k, v, w) ==
  (Within(n, b, k) /\ v = Five(256 * n + byte, k + 3) /\ w = Five(256 * n + byte, k - 2))
    => Within(256 * n + byte, 32 * (32 * b + v) + w, k - 2)

LEMMA OneLetter ==
  ASSUME NEW n \in Nat, NEW b \in Nat, NEW byte \in 0 .. 255, NEW k \in 0 .. 1, NEW v \in 0 .. 31
  PROVE  One(n, b, byte, k, v)
<1> SUFFICES ASSUME Within(n, b, k), v = Five(256 * n + byte, k + 3)
             PROVE  Within(256 * n + byte, 32 * b + v, k + 3)
  BY DEF One
<1> USE DEF Within, Five
<1>1. CASE k = 0
  <2> DEFINE m == 256 * (n - 1 * b) + byte
             q == m \div 8
  <2>1. m \in 0 .. 255 /\ 256 * n + byte = 256 * b + m
    BY <1>1
  <2> HIDE DEF m
  <2>2. q \in 0 .. 31 /\ m - 8 * q \in 0 .. 7 /\ (256 * n + byte) \div 8 = 32 * b + q
    BY <2>1
  <2> HIDE DEF q
  <2>3. v = q
    BY <1>1, <2>2
  <2> QED
    BY <1>1, <2>1, <2>2, <2>3
<1>2. CASE k = 1
  <2> DEFINE m == 256 * (n - 2 * b) + byte
             q == m \div 16
  <2>1. m \in 0 .. 511 /\ 256 * n + byte = 512 * b + m
    BY <1>2
  <2> HIDE DEF m
  <2>2. q \in 0 .. 31 /\ m - 16 * q \in 0 .. 15 /\ (256 * n + byte) \div 16 = 32 * b + q
    BY <2>1
  <2> HIDE DEF q
  <2>3. v = q
    BY <1>2, <2>2
  <2> QED
    BY <1>2, <2>1, <2>2, <2>3
<1> QED
  BY <1>1, <1>2

LEMMA TwoLetters ==
  ASSUME NEW n \in Nat, NEW b \in Nat, NEW byte \in 0 .. 255, NEW k \in 2 .. 4,
         NEW v \in 0 .. 31, NEW w \in 0 .. 31
  PROVE  Two(n, b, byte, k, v, w)
<1> SUFFICES ASSUME Within(n, b, k), v = Five(256 * n + byte, k + 3), w = Five(256 * n + byte, k - 2)
             PROVE  Within(256 * n + byte, 32 * (32 * b + v) + w, k - 2)
  BY DEF Two
<1> USE DEF Within, Five
<1>1. CASE k = 2
  <2> DEFINE m == 256 * (n - 4 * b) + byte
             q == m \div 32
             p == m \div 1
  <2>1. m \in 0 .. 1023 /\ 256 * n + byte = 1024 * b + m
    BY <1>1
  <2> HIDE DEF m
  <2>2. q \in 0 .. 31 /\ p \in Nat /\ p = 32 * q + (p % 32) /\ p % 32 \in 0 .. 31
        /\ m - 1 * p \in 0 .. 0
    BY <2>1
  <2>3. (256 * n + byte) \div 32 = 32 * b + q /\ (256 * n + byte) \div 1 = 1024 * b + p
    BY <2>1
  <2> HIDE DEF q, p
  <2>4. (32 * b + q) % 32 = q /\ (1024 * b + p) % 32 = p % 32
    BY <2>2
  <2>5. v = q /\ w = p % 32
    BY <1>1, <2>3, <2>4
  <2> QED
    BY <1>1, <2>1, <2>2, <2>5
<1>2. CASE k = 3
  <2> DEFINE m == 256 * (n - 8 * b) + byte
             q == m \div 64
             p == m \div 2
  <2>1. m \in 0 .. 2047 /\ 256 * n + byte = 2048 * b + m
    BY <1>2
  <2> HIDE DEF m
  <2>2. q \in 0 .. 31 /\ p \in Nat /\ p = 32 * q + (p % 32) /\ p % 32 \in 0 .. 31
        /\ m - 2 * p \in 0 .. 1
    BY <2>1
  <2>3. (256 * n + byte) \div 64 = 32 * b + q /\ (256 * n + byte) \div 2 = 1024 * b + p
    BY <2>1
  <2> HIDE DEF q, p
  <2>4. (32 * b + q) % 32 = q /\ (1024 * b + p) % 32 = p % 32
    BY <2>2
  <2>5. v = q /\ w = p % 32
    BY <1>2, <2>3, <2>4
  <2> QED
    BY <1>2, <2>1, <2>2, <2>5
<1>3. CASE k = 4
  <2> DEFINE m == 256 * (n - 16 * b) + byte
             q == m \div 128
             p == m \div 4
  <2>1. m \in 0 .. 4095 /\ 256 * n + byte = 4096 * b + m
    BY <1>3
  <2> HIDE DEF m
  <2>2. q \in 0 .. 31 /\ p \in Nat /\ p = 32 * q + (p % 32) /\ p % 32 \in 0 .. 31
        /\ m - 4 * p \in 0 .. 3
    <3>1. p \in 0 .. 1023 /\ m - 4 * p \in 0 .. 3
      BY <2>1
    <3>2. q = p \div 32
      BY <2>1
    <3> HIDE DEF q, p
    <3> QED
      BY <3>1, <3>2
  <2>3. (256 * n + byte) \div 128 = 32 * b + q /\ (256 * n + byte) \div 4 = 1024 * b + p
    BY <2>1
  <2> HIDE DEF q, p
  <2>4. (32 * b + q) % 32 = q /\ (1024 * b + p) % 32 = p % 32
    BY <2>2
  <2>5. v = q /\ w = p % 32
    BY <1>3, <2>3, <2>4
  <2> QED
    BY <1>3, <2>1, <2>2, <2>5
<1> QED
  BY <1>1, <1>2, <1>3

(* The last character carries the bits that are left, and zeros.           *)
LEMMA LastLetter ==
  ASSUME NEW n \in Nat, NEW b \in Nat, NEW k \in 1 .. 4,
         Within(n, b, k)
  PROVE  LET v == (Word(n) * 2 ^ (5 - k)) % 32
         IN  v \in 0 .. 31 /\ 32 * b + v = n * 2 ^ (5 - k)
<1> DEFINE r == Word(n)
<1>1. r \in Nat
  BY WordIsNat
<1>2. r % 32 = n % 32
  <2>1. 5 \in 0 .. 7 /\ 2 ^ 5 = 32
    OBVIOUS
  <2>2. LastBits(Word(n), 5) = LastBits(n, 5)
    BY <2>1, WordTail
  <2> QED
    BY <2>1, <2>2 DEF LastBits
<1> HIDE DEF r
<1>3. (r * 2 ^ (5 - k)) % 32 \in 0 .. 31 /\ 32 * b + ((r * 2 ^ (5 - k)) % 32) = n * 2 ^ (5 - k)
  <2> USE DEF Within
  <2>1. CASE k = 1
    BY <1>1, <1>2, <2>1
  <2>2. CASE k = 2
    BY <1>1, <1>2, <2>2
  <2>3. CASE k = 3
    BY <1>1, <1>2, <2>3
  <2>4. CASE k = 4
    BY <1>1, <1>2, <2>4
  <2> QED
    BY <2>1, <2>2, <2>3, <2>4
<1> QED
  BY <1>3 DEF r

LettersOf(digits) == [i \in 1 .. Len(digits) |-> Letter(digits[i])]

AlphaSet == {Letter(v) : v \in 0 .. 31}

LEMMA LetterOf ==
  /\ \A v \in 0 .. 31 : Letter(v) \in AlphaSet
  /\ \A x \in Nat : Letter(x) = Letter(x % 32) /\ Letter(x) \in AlphaSet /\ x % 32 \in 0 .. 31
<1>1. \A v \in 0 .. 31 : Letter(v) \in AlphaSet
  BY DEF AlphaSet
<1>2. ASSUME NEW x \in Nat PROVE Letter(x) = Letter(x % 32) /\ x % 32 \in 0 .. 31
  <2>1. (x % 32) % 32 = x % 32 /\ x % 32 \in 0 .. 31
    OBVIOUS
  <2> QED
    BY <2>1, Zenon DEF Letter
<1> QED
  BY <1>1, <1>2

LEMMA LettersAppend ==
  ASSUME NEW digits \in Quintets, NEW v \in 0 .. 31
  PROVE  /\ LettersOf(Append(digits, v)) = Append(LettersOf(digits), Letter(v))
         /\ LettersOf(digits) \in Seq(AlphaSet) /\ Len(LettersOf(digits)) = Len(digits)
         /\ Append(digits, v) \in Quintets /\ Len(Append(digits, v)) = Len(digits) + 1
<1> DEFINE w == Append(digits, v)
           l == Len(digits)
           s == LettersOf(digits)
           S == 0 .. 31
<1>1. /\ w \in Quintets /\ Len(w) = l + 1 /\ l \in Nat
      /\ \A n \in 1 .. l : w[n] = digits[n] /\ digits[n] \in S
      /\ w[l + 1] = v
  <2>1. digits \in Seq(S) /\ v \in S
    BY DEF Quintets
  <2> HIDE DEF S
  <2>2. /\ w \in Seq(S) /\ Len(w) = l + 1 /\ l \in Nat
        /\ \A n \in 1 .. l : w[n] = digits[n] /\ digits[n] \in S
        /\ w[l + 1] = v
    BY <2>1, Appended
  <2> QED
    BY <2>2 DEF Quintets, S
<1>2. s \in Seq(AlphaSet) /\ Len(s) = l
  <2> HIDE DEF l
  <2>1. s = [i \in 1 .. l |-> Letter(digits[i])]
    BY DEF LettersOf, l
  <2>2. \A i \in 1 .. l : Letter(digits[i]) \in AlphaSet
    BY <1>1, LetterOf, Zenon DEF S
  <2> HIDE DEF s
  <2>3. s \in [1 .. l -> AlphaSet]
    BY <2>1, <2>2, Zenon
  <2> QED
    BY <1>1, <2>3
<1>3. LettersOf(w) = Append(s, Letter(v))
  <2> DEFINE t == Append(s, Letter(v))
  <2>1. Letter(v) \in AlphaSet
    BY LetterOf
  <2>2. /\ t \in Seq(AlphaSet) /\ Len(t) = l + 1
        /\ \A n \in 1 .. l : t[n] = s[n]
        /\ t[l + 1] = Letter(v)
    <3> HIDE DEF s, l
    <3> QED
      BY <1>2, <2>1, Appended
  <2>3. \A n \in 1 .. l : s[n] = Letter(digits[n])
    BY DEF LettersOf
  <2> HIDE DEF t, s, w
  <2>4. \A n \in 1 .. l + 1 : t[n] = Letter(w[n])
    <3> HIDE DEF l
    <3> TAKE n \in 1 .. l + 1
    <3>1. CASE n = l + 1
      BY <1>1, <2>2, <3>1
    <3>2. CASE n # l + 1
      <4>1. n \in 1 .. l
        BY <1>1, <3>2
      <4> QED
        BY <1>1, <2>2, <2>3, <4>1
    <3> QED
      BY <3>1, <3>2
  <2>5. t = [n \in 1 .. l + 1 |-> Letter(w[n])]
    <3> HIDE DEF l
    <3>1. t = [n \in 1 .. l + 1 |-> t[n]]
      BY <2>2
    <3> QED
      BY <2>4, <3>1
  <2> QED
    BY <1>1, <2>5 DEF LettersOf, t
<1> QED
  BY <1>1, <1>2, <1>3

LEMMA Shifted ==
  ASSUME NEW x \in Nat, NEW k \in 0 .. 7
  PROVE  x \div 2 ^ k \in Nat
<1>1. CASE k = 0
  BY <1>1
<1>2. CASE k = 1
  BY <1>2
<1>3. CASE k = 2
  BY <1>3
<1>4. CASE k = 3
  BY <1>4
<1>5. CASE k = 4
  BY <1>5
<1>6. CASE k = 5
  BY <1>6
<1>7. CASE k = 6
  BY <1>7
<1>8. CASE k = 7
  BY <1>8
<1> QED
  BY <1>1, <1>2, <1>3, <1>4, <1>5, <1>6, <1>7, <1>8

Encoding == [buffer : Nat, bits : 0 .. 4, out : Seq(AlphaSet)]

(* The buffer, and a character of it.                                      *)
Widened(e, byte) == Word(e.buffer * 256 + byte)
Drawn(e, byte, k) == Letter(Widened(e, byte) \div 2 ^ k)

LEMMA EncodeFields ==
  ASSUME NEW e \in Encoding, NEW byte \in Byte
  PROVE  /\ EncodeByte(e, byte) \in Encoding /\ e.bits \in 0 .. 4
         /\ EncodeByte(e, byte).buffer = Widened(e, byte)
         /\ e.bits < 2 => /\ EncodeByte(e, byte).bits = e.bits + 3
                          /\ EncodeByte(e, byte).out = Append(e.out, Drawn(e, byte, e.bits + 3))
         /\ e.bits >= 2 => /\ EncodeByte(e, byte).bits = e.bits - 2
                           /\ EncodeByte(e, byte).out = Append(Append(e.out, Drawn(e, byte, e.bits + 3)),
                                                               Drawn(e, byte, e.bits - 2))
<1> DEFINE bits == e.bits + 8
           first == Append(e.out, Drawn(e, byte, bits - 5))
           second == Append(first, Drawn(e, byte, bits - 10))
           less == bits < 10
           left == bits % 5
           out == IF less THEN first ELSE second
           buffer == Widened(e, byte)
<1>1. e.bits \in 0 .. 4 /\ e.buffer \in Nat /\ e.out \in Seq(AlphaSet) /\ byte \in Nat
  BY DEF Encoding, Byte
<1>2. buffer \in Nat
  <2>1. e.buffer * 256 + byte \in Nat
    BY <1>1
  <2> QED
    BY <2>1, WordIsNat DEF Widened
<1>3. bits - 5 = e.bits + 3 /\ (less <=> e.bits < 2) /\ (~less <=> e.bits >= 2)
      /\ (less => left = e.bits + 3) /\ (~less => left = e.bits - 2 /\ bits - 10 = e.bits - 2)
      /\ left \in 0 .. 4
  BY <1>1
<1>4. first \in Seq(AlphaSet) /\ (~less => second \in Seq(AlphaSet))
  <2>1. ASSUME NEW k \in 0 .. 7 PROVE Drawn(e, byte, k) \in AlphaSet
    BY <1>2, Shifted, LetterOf DEF Drawn
  <2>2. bits - 5 \in 0 .. 7 /\ (~less => bits - 10 \in 0 .. 7)
    BY <1>1
  <2>3. first \in Seq(AlphaSet)
    BY <1>1, <2>1, <2>2
  <2> HIDE DEF first, less
  <2>4. ~less => second \in Seq(AlphaSet)
    BY <2>1, <2>2, <2>3
  <2> QED
    BY <2>3, <2>4
<1>5. EncodeByte(e, byte) = [buffer |-> buffer, bits |-> left, out |-> out]
  BY DEF EncodeByte, Widened, Drawn
<1> HIDE DEF first, second, less, left, buffer
<1>6. out \in Seq(AlphaSet)
  BY <1>4
<1> HIDE DEF out
<1>7. /\ EncodeByte(e, byte) \in Encoding
      /\ EncodeByte(e, byte).buffer = buffer /\ EncodeByte(e, byte).bits = left
      /\ EncodeByte(e, byte).out = out
  BY <1>2, <1>3, <1>5, <1>6 DEF Encoding
<1> DEFINE E == EncodeByte(e, byte)
<1>8. E \in Encoding /\ E.buffer = buffer /\ E.bits = left /\ E.out = out
  BY <1>7
<1> HIDE DEF E
<1>9. ASSUME e.bits < 2 PROVE E.bits = e.bits + 3 /\ E.out = Append(e.out, Drawn(e, byte, e.bits + 3))
  <2>1. less /\ left = e.bits + 3 /\ out = first
    BY <1>3, <1>9 DEF out
  <2> QED
    BY <1>3, <1>8, <2>1 DEF first
<1>10. ASSUME e.bits >= 2 PROVE E.bits = e.bits - 2
                                /\ E.out = Append(Append(e.out, Drawn(e, byte, e.bits + 3)),
                                                  Drawn(e, byte, e.bits - 2))
  <2>1. ~less /\ left = e.bits - 2 /\ bits - 10 = e.bits - 2
    BY <1>3, <1>10
  <2>2. out = second
    BY <2>1 DEF out
  <2> QED
    BY <1>3, <1>8, <2>1, <2>2 DEF first, second
<1> QED
  BY <1>1, <1>8, <1>9, <1>10 DEF E, buffer

(* The encoder has spelled the whole characters of the bytes so far, whose *)
(* number is n.                                                            *)
Encoded(e, digits, n, m) ==
  /\ e.out = LettersOf(digits)
  /\ 5 * Len(digits) + e.bits = 8 * m
  /\ e.buffer = Word(n)
  /\ Within(n, Number(32, digits), e.bits)

LEMMA WordByte ==
  ASSUME NEW n \in Nat, NEW byte \in Nat
  PROVE  Word(Word(n) * 256 + byte) = Word(256 * n + byte) /\ 256 * n + byte \in Nat
<1> DEFINE f == 256
<1>1. f \in Nat
  OBVIOUS
<1> HIDE DEF f
<1>2. ((n % WordSize) * f + byte) % WordSize = (n * f + byte) % WordSize
  BY ONLY <1>1, n \in Nat, byte \in Nat, WordShifts
<1>3. n * 256 + byte = 256 * n + byte
  OBVIOUS
<1> QED
  BY <1>2, <1>3 DEF Word, f

LEMMA Drawing ==
  ASSUME NEW e \in Encoding, NEW byte \in Byte, NEW n \in Nat, e.buffer = Word(n), NEW k \in 0 .. 7
  PROVE  /\ Five(256 * n + byte, k) \in 0 .. 31
         /\ Drawn(e, byte, k) = Letter(Five(256 * n + byte, k))
<1> DEFINE x == 256 * n + byte
<1>1. x \in Nat
  BY DEF Byte
<1>2. Widened(e, byte) = Word(x)
  <2>1. byte \in Nat
    BY DEF Byte
  <2> QED
    BY <2>1, WordByte DEF Widened
<1> HIDE DEF x
<1> DEFINE u == Word(x) \div 2 ^ k
           z == x \div 2 ^ k
<1>3. u \in Nat /\ z \in Nat
  BY <1>1, WordIsNat, Shifted
<1>4. u % 32 = z % 32
  BY <1>1, WordDigit, Zenon DEF Word
<1>5. Drawn(e, byte, k) = Letter(u)
  BY <1>2 DEF Drawn
<1> HIDE DEF u, z
<1>6. Letter(u) = Letter(u % 32) /\ u % 32 \in 0 .. 31
  BY <1>3, LetterOf
<1> QED
  BY <1>4, <1>5, <1>6 DEF z, x, Five

LEMMA EncodeStep ==
  ASSUME NEW e \in Encoding, NEW byte \in Byte, NEW n \in Nat, NEW m \in Nat,
         NEW digits \in Quintets, Encoded(e, digits, n, m)
  PROVE  \E more \in Quintets : Encoded(EncodeByte(e, byte), more, 256 * n + byte, m + 1)
<1> DEFINE N == 256 * n + byte
           E == EncodeByte(e, byte)
           k == e.bits
           b == Number(32, digits)
           l == Len(digits)
<1>1. /\ e.out = LettersOf(digits) /\ 5 * l + k = 8 * m /\ e.buffer = Word(n)
      /\ Within(n, b, k)
  BY DEF Encoded
<1>2. /\ k \in 0 .. 4 /\ byte \in 0 .. 255 /\ N \in Nat
      /\ E.buffer = Word(N)
  <2>1. byte \in Nat /\ 256 \in Nat /\ byte \in 0 .. 255
    BY DEF Byte
  <2>2. Word(Word(n) * 256 + byte) = Word(N) /\ N \in Nat
    BY <2>1, WordByte
  <2>4. E.buffer = Widened(e, byte) /\ k \in 0 .. 4
    BY EncodeFields
  <2> QED
    BY <1>1, <2>1, <2>2, <2>4 DEF Widened
<1>3. b \in Nat /\ l \in Nat
  <2>1. <<>> \in Seq(Byte)
    OBVIOUS
  <2>2. Numbered(digits, <<>>)
    BY ONLY <2>1, DigitNumbers, Zenon
  <2>3. l \in Nat
    BY LenProperties DEF Quintets
  <2> QED
    BY <2>2, <2>3 DEF Numbered
<1> DEFINE v == Five(N, k + 3)
           one == Append(digits, v)
<1>4. v \in 0 .. 31 /\ Drawn(e, byte, k + 3) = Letter(v)
  <2> DEFINE j == k + 3
  <2>1. j \in 0 .. 7
    BY <1>2
  <2> HIDE DEF j, k
  <2>2. Five(N, j) \in 0 .. 31 /\ Drawn(e, byte, j) = Letter(Five(N, j))
    <3>1. e.buffer = Word(n)
      BY <1>1
    <3> QED
      BY ONLY <2>1, <3>1, Drawing, e \in Encoding, byte \in Byte, n \in Nat DEF N
  <2> QED
    BY <2>2 DEF j
<1> HIDE DEF v
<1>5. /\ one \in Quintets /\ Len(one) = l + 1 /\ Number(32, one) = 32 * b + v
      /\ LettersOf(one) = Append(e.out, Drawn(e, byte, k + 3))
  <2>1. <<>> \in Seq(Byte)
    OBVIOUS
  <2>2. one \in Quintets /\ Len(one) = l + 1 /\ LettersOf(one) = Append(LettersOf(digits), Letter(v))
    BY <1>4, LettersAppend
  <2>3. Number(32, one) = 32 * b + v
    <3>1. v \in 0 .. 31
      BY <1>4
    <3> QED
      BY <3>1, QuintetNumber DEF one
  <2> QED
    BY <1>1, <1>4, <2>2, <2>3
<1> HIDE DEF one
<1>6. CASE k < 2
  <2>1. E.bits = k + 3 /\ E.out = LettersOf(one)
    BY <1>5, <1>6, EncodeFields
  <2>2. Within(N, 32 * b + v, k + 3)
    <3>1. k \in 0 .. 1
      BY <1>2, <1>6
    <3>2. /\ n \in Nat /\ b \in Nat /\ byte \in 0 .. 255 /\ v \in 0 .. 31
          /\ Within(n, b, k) /\ v = Five(256 * n + byte, k + 3)
      BY <1>1, <1>2, <1>3, <1>4 DEF v
    <3> HIDE DEF k, b
    <3>3. One(n, b, byte, k, v)
      BY ONLY <3>1, <3>2, OneLetter
    <3> QED
      BY ONLY <3>2, <3>3, Zenon DEF One, N
  <2> HIDE DEF E, N, k, b, l
  <2>3. 5 * Len(one) + E.bits = 8 * (m + 1)
    <3>1. l \in Nat /\ m \in Nat /\ k \in 0 .. 4 /\ 5 * l + k = 8 * m
      BY <1>1, <1>2, <1>3
    <3>2. Len(one) = l + 1 /\ E.bits = k + 3
      BY <1>5, <2>1
    <3> QED
      BY ONLY <3>1, <3>2
  <2>4. Encoded(E, one, N, m + 1)
    BY <1>2, <1>5, <2>1, <2>2, <2>3 DEF Encoded
  <2> QED
    BY <1>5, <2>4 DEF E, N
<1>7. CASE k >= 2
  <2> DEFINE w == Five(N, k - 2)
             two == Append(one, w)
  <2>1. w \in 0 .. 31 /\ Drawn(e, byte, k - 2) = Letter(w)
    <3> DEFINE j == k - 2
    <3>1. j \in 0 .. 7
      BY <1>2, <1>7
    <3> HIDE DEF j, k
    <3>2. Five(N, j) \in 0 .. 31 /\ Drawn(e, byte, j) = Letter(Five(N, j))
      <4>1. e.buffer = Word(n)
        BY <1>1
      <4> QED
        BY ONLY <3>1, <4>1, Drawing, e \in Encoding, byte \in Byte, n \in Nat DEF N
    <3> QED
      BY <3>2 DEF j
  <2> HIDE DEF w
  <2>2. two \in Quintets /\ Len(two) = l + 2 /\ Number(32, two) = 32 * (32 * b + v) + w
    <3>1. <<>> \in Seq(Byte)
      OBVIOUS
    <3>2. two \in Quintets /\ Len(two) = Len(one) + 1
      BY <1>5, <2>1, LettersAppend
    <3>3. Number(32, two) = 32 * Number(32, one) + w
      <4>1. w \in 0 .. 31 /\ one \in Quintets
        BY <1>5, <2>1
      <4> QED
        BY <4>1, QuintetNumber DEF two
    <3> QED
      BY <1>3, <1>5, <3>2, <3>3
  <2>3. E.bits = k - 2 /\ E.out = LettersOf(two)
    <3>1. LettersOf(two) = Append(LettersOf(one), Letter(w))
      BY <1>5, <2>1, LettersAppend
    <3> QED
      BY <1>5, <1>7, <2>1, <3>1, EncodeFields
  <2> HIDE DEF two
  <2>4. Within(N, 32 * (32 * b + v) + w, k - 2)
    <3>1. k \in 2 .. 4
      BY <1>2, <1>7
    <3>2. /\ n \in Nat /\ b \in Nat /\ byte \in 0 .. 255 /\ v \in 0 .. 31 /\ w \in 0 .. 31
          /\ Within(n, b, k)
          /\ v = Five(256 * n + byte, k + 3) /\ w = Five(256 * n + byte, k - 2)
      BY <1>1, <1>2, <1>3, <1>4, <2>1 DEF v, w
    <3> HIDE DEF k, b
    <3>3. Two(n, b, byte, k, v, w)
      BY ONLY <3>1, <3>2, TwoLetters
    <3> QED
      BY ONLY <3>2, <3>3, Zenon DEF Two, N
  <2> HIDE DEF E, N, k, b, l
  <2>5. 5 * Len(two) + E.bits = 8 * (m + 1)
    <3>1. l \in Nat /\ m \in Nat /\ k \in 0 .. 4 /\ 5 * l + k = 8 * m
      BY <1>1, <1>2, <1>3
    <3>2. Len(two) = l + 2 /\ E.bits = k - 2
      BY <2>2, <2>3
    <3> QED
      BY ONLY <3>1, <3>2
  <2>6. Encoded(E, two, N, m + 1)
    BY <1>2, <2>2, <2>3, <2>4, <2>5 DEF Encoded
  <2> QED
    BY <2>2, <2>6 DEF E, N
<1> QED
  BY <1>2, <1>6, <1>7

(* What vl_base32_encode() returns, once the loop has ended.               *)
Ended(e) ==
  IF e.bits = 0 THEN e.out ELSE Append(e.out, Letter(e.buffer * 2 ^ (5 - e.bits)))

LEMMA EncodeRuns ==
  ASSUME NEW bytes \in Seq(Byte)
  PROVE  \E run \in [0 .. Len(bytes) -> Encoding] :
           /\ run[0] = EncodeStart
           /\ \A n \in 1 .. Len(bytes) : run[n] = EncodeByte(run[n - 1], bytes[n])
           /\ Emitted(bytes) = Ended(run[Len(bytes)])
<1> DEFINE run[n \in 0 .. Len(bytes)] == IF n = 0 THEN EncodeStart ELSE EncodeByte(run[n - 1], bytes[n])
           Body(x, n) == EncodeByte(x, bytes[n])
           a == [p \in Encoding \X (1 .. Len(bytes)) |-> Body(p[1], p[2])]
           k == Len(bytes)
<1>0. k \in Nat /\ EncodeStart \in Encoding
  BY LenProperties DEF EncodeStart, Encoding
<1>1. Emitted(bytes) = Ended(run[Len(bytes)])
  BY DEF Emitted, Loop, Ended
<1>2. run = CHOOSE g : g = [n \in 0 .. k |-> IF n = 0 THEN EncodeStart ELSE Body(g[n - 1], n)]
  BY DEF run
<1>3. \A x \in Encoding : \A n \in 1 .. k : Body(x, n) \in Encoding
  BY EncodeFields, ElementOfSeq
<1> HIDE DEF run, Body, k
<1>4. a \in [Encoding \X (1 .. k) -> Encoding]
  BY <1>3 DEF k
<1>5. \A x \in Encoding : \A n \in 1 .. k : a[<<x, n>>] = Body(x, n)
  BY DEF k
<1> HIDE DEF a
<1>6. PICK g \in [0 .. k -> Encoding] : Runs(g, EncodeStart, a, k)
  BY <1>0, <1>4, RunExists, Zenon
<1>7. ASSUME NEW n \in 1 .. k PROVE g[n] = Body(g[n - 1], n)
  <2>1. n - 1 \in 0 .. k /\ g[n - 1] \in Encoding
    BY <1>0
  <2> QED
    BY <1>5, <1>6, <2>1 DEF Runs
<1>8. g = [n \in 0 .. k |-> IF n = 0 THEN EncodeStart ELSE Body(g[n - 1], n)]
  <2>1. g[0] = EncodeStart
    BY <1>6 DEF Runs
  <2> QED
    BY <1>0, <1>7, <2>1
<1>9. run = [n \in 0 .. k |-> IF n = 0 THEN EncodeStart ELSE Body(run[n - 1], n)]
  BY <1>2, <1>8
<1>10. run[0] = EncodeStart /\ \A n \in 1 .. k : run[n] = Body(run[n - 1], n)
  BY <1>0, <1>9
<1> DEFINE P == {n \in Nat : n <= k => run[n] \in Encoding}
<1>11. 0 \in P
  BY <1>0, <1>10
<1>12. ASSUME NEW n \in Nat, n \in P PROVE n + 1 \in P
  <2> SUFFICES ASSUME n + 1 <= k PROVE run[n + 1] \in Encoding
    OBVIOUS
  <2>1. n + 1 \in 1 .. k /\ (n + 1) - 1 = n /\ run[n] \in Encoding
    BY <1>0, <1>12
  <2>2. run[n + 1] = Body(run[n], n + 1)
    BY <1>10, <2>1
  <2> QED
    BY <1>3, <2>1, <2>2
<1>13. \A n \in 0 .. k : run[n] \in Encoding
  <2>1. Nat \subseteq P
    <3> HIDE DEF P
    <3> QED
      BY <1>11, <1>12, InSteps
  <2> QED
    BY <1>0, <2>1
<1>14. run \in [0 .. k -> Encoding]
  BY <1>9, <1>13
<1>15. \A n \in 1 .. k : run[n] = EncodeByte(run[n - 1], bytes[n])
  BY <1>10, Zenon DEF Body
<1> QED
  BY <1>1, <1>10, <1>14, <1>15, Zenon DEF k

(* Digits beyond the last one that was read do not count.                  *)
LEMMA EncodeSpells ==
  ASSUME NEW bytes \in Seq(Byte)
  PROVE  \E e \in Encoding : \E digits \in Quintets :
           /\ Encoded(e, digits, Number(256, bytes), Len(bytes))
           /\ Emitted(bytes) = Ended(e)
<1> DEFINE l == Len(bytes)
<1>0. l \in Nat /\ bytes \in Seq(Int) /\ \A n \in 1 .. l : bytes[n] \in Byte
  <2>1. Byte \subseteq Int
    BY DEF Byte
  <2> QED
    BY <2>1, SeqMonotonic, LenProperties, ElementOfSeq
<1>1. PICK es \in [0 .. l -> Encoding] :
        /\ es[0] = EncodeStart
        /\ \A n \in 1 .. l : es[n] = EncodeByte(es[n - 1], bytes[n])
        /\ Emitted(bytes) = Ended(es[l])
  BY EncodeRuns, Zenon
<1>2. PICK ns \in [0 .. l -> Int] :
        /\ ns[0] = 0
        /\ \A n \in 1 .. l : ns[n] = 256 * ns[n - 1] + bytes[n]
        /\ Number(256, bytes) = ns[l]
  <2> DEFINE f == 256
  <2>1. f \in Nat
    OBVIOUS
  <2> HIDE DEF f
  <2>2. \E ns \in [0 .. l -> Int] :
           /\ ns[0] = 0 /\ \A n \in 1 .. l : ns[n] = f * ns[n - 1] + bytes[n]
           /\ Number(f, bytes) = ns[l]
    BY <1>0, <2>1, NumberRuns, Zenon
  <2> QED
    BY <2>2, Zenon DEF f
<1> DEFINE Fits(n) == ns[n] \in Nat /\ \E digits \in Quintets : Encoded(es[n], digits, ns[n], n)
           P == {n \in Nat : n <= l => Fits(n)}
<1> HIDE DEF l
<1>3. 0 \in P
  <2>1. Encoded(EncodeStart, <<>>, 0, 0)
    <3>1. Number(32, <<>>) = 0
      BY NumberOfNone
    <3>2. Word(0) = 0
      <4>1. WordSize \in Nat /\ WordSize > 0
        BY WordAssumption
      <4> QED
        BY <4>1 DEF Word
    <3>3. LettersOf(<<>>) = <<>> /\ Len(<<>>) = 0
      BY DEF LettersOf
    <3>4. Within(0, 0, 0)
      BY DEF Within
    <3>5. EncodeStart.out = <<>> /\ EncodeStart.bits = 0 /\ EncodeStart.buffer = 0
      BY DEF EncodeStart
    <3>6. 5 * 0 + 0 = 8 * 0
      OBVIOUS
    <3> QED
      BY <3>1, <3>2, <3>3, <3>4, <3>5, <3>6 DEF Encoded
  <2>2. <<>> \in Quintets
    BY DEF Quintets
  <2>3. Fits(0)
    BY <1>1, <1>2, <2>1, <2>2
  <2> HIDE DEF Fits
  <2> QED
    BY <2>3
<1>4. ASSUME NEW n \in Nat, n \in P PROVE n + 1 \in P
  <2> SUFFICES ASSUME n + 1 <= l PROVE Fits(n + 1)
    OBVIOUS
  <2>1. n \in 0 .. l /\ n + 1 \in 1 .. l /\ (n + 1) - 1 = n /\ Fits(n)
    BY <1>0, <1>4
  <2>2. PICK digits \in Quintets : Encoded(es[n], digits, ns[n], n)
    BY <2>1
  <2> DEFINE byte == bytes[n + 1]
             e == es[n]
             x == ns[n]
  <2>3. e \in Encoding /\ x \in Nat /\ byte \in Byte /\ Encoded(e, digits, x, n)
    BY <1>0, <2>1, <2>2
  <2>4. es[n + 1] = EncodeByte(e, byte) /\ ns[n + 1] = 256 * x + byte
    BY <1>1, <1>2, <2>1
  <2> HIDE DEF byte, e, x
  <2>5. \E more \in Quintets : Encoded(EncodeByte(e, byte), more, 256 * x + byte, n + 1)
    BY <2>3, EncodeStep
  <2>6. 256 * x + byte \in Nat
    BY <2>3 DEF Byte
  <2> QED
    BY <2>4, <2>5, <2>6
<1>5. Fits(l)
  <2>1. l \in P
    <3> HIDE DEF P
    <3> QED
      BY <1>0, <1>3, <1>4, InSteps
  <2> HIDE DEF Fits
  <2> QED
    BY <1>0, <2>1
<1>6. es[l] \in Encoding
  BY <1>0
<1>7. PICK digits \in Quintets : Encoded(es[l], digits, ns[l], l)
  BY <1>5, Zenon
<1>8. Encoded(es[l], digits, Number(256, bytes), Len(bytes))
  BY <1>2, <1>7, Zenon DEF l
<1>9. Emitted(bytes) = Ended(es[l])
  BY <1>1, Zenon
<1> QED
  BY <1>6, <1>7, <1>8, <1>9, Zenon

(* The bits that are left over fill one more letter.                       *)
LEMMA OneLetterMore ==
  ASSUME NEW l \in Nat, NEW m \in Nat, NEW k \in 1 .. 4, 5 * l + k = 8 * m
  PROVE  CharsFor(m) = l + 1 /\ (5 * (l + 1)) % 8 = 5 - k
<1>1. CharsFor(m) = (5 * l + k + 4) \div 5
  BY DEF CharsFor
<1>2. (5 * l + k + 4) \div 5 = l + 1
  BY SMT
<1>3. 5 * (l + 1) = 8 * m + (5 - k) /\ 5 - k \in 1 .. 4
  OBVIOUS
<1>4. \A r \in 1 .. 4 : (8 * m + r) % 8 = r
  BY SMT
<1> QED
  BY <1>1, <1>2, <1>3, <1>4

(* The characters are those of the number of the bytes, with as many zero  *)
(* bits behind it as the last of them has to spare.                        *)
LEMMA EncodeIsRight ==
  ASSUME NEW bytes \in Seq(Byte)
  PROVE  \E digits \in Quintets :
           /\ Emitted(bytes) = LettersOf(digits)
           /\ Len(digits) = CharsFor(Len(bytes))
           /\ Number(32, digits) = Number(256, bytes) * 2 ^ ((5 * Len(digits)) % 8)
<1>1. PICK e \in Encoding, digits \in Quintets :
        /\ Encoded(e, digits, Number(256, bytes), Len(bytes))
        /\ Emitted(bytes) = Ended(e)
  BY EncodeSpells, Zenon
<1> DEFINE n == Number(256, bytes)
           b == Number(32, digits)
           k == e.bits
           m == Len(bytes)
           l == Len(digits)
<1>2. /\ e.out = LettersOf(digits) /\ 5 * l + k = 8 * m /\ e.buffer = Word(n)
      /\ Within(n, b, k)
  BY <1>1 DEF Encoded
<1>3. n \in Nat /\ b \in Nat /\ k \in 0 .. 4 /\ m \in Nat /\ l \in Nat
  <2>1. Numbered(digits, bytes)
    BY DigitNumbers, Zenon
  <2>2. m \in Nat /\ l \in Nat
    BY LenProperties DEF Quintets
  <2> QED
    BY <2>1, <2>2 DEF Numbered, Encoding
<1>5. CASE k = 0
  <2>1. Emitted(bytes) = LettersOf(digits)
    BY <1>1, <1>2, <1>5 DEF Ended
  <2>2. l = CharsFor(m) /\ (5 * l) % 8 = 0
    <3> HIDE DEF l, m, k
    <3> QED
      BY <1>2, <1>3, <1>5 DEF CharsFor
  <2>3. b = n * 2 ^ 0
    <3> HIDE DEF b, n
    <3> QED
      BY <1>2, <1>3, <1>5 DEF Within
  <2> QED
    BY <2>1, <2>2, <2>3
<1>6. CASE k # 0
  <2> DEFINE v == (Word(n) * 2 ^ (5 - k)) % 32
             one == Append(digits, v)
  <2>0. k \in 1 .. 4
    BY <1>3, <1>6
  <2>1. v \in 0 .. 31 /\ 32 * b + v = n * 2 ^ (5 - k)
    <3> HIDE DEF n, b, k
    <3> QED
      BY <1>2, <1>3, <2>0, LastLetter
  <2>2. Emitted(bytes) = Append(LettersOf(digits), Letter(v))
    <3>1. Emitted(bytes) = Append(LettersOf(digits), Letter(e.buffer * 2 ^ (5 - k)))
      BY <1>1, <1>2, <1>6, Zenon DEF Ended
    <3>2. e.buffer * 2 ^ (5 - k) \in Nat
      <4> DEFINE x == e.buffer
      <4>1. x \in Nat
        BY DEF Encoding
      <4> HIDE DEF x, k
      <4>2. x * 2 ^ (5 - k) \in Nat
        <5>1. CASE k = 1
          BY <4>1, <5>1
        <5>2. CASE k = 2
          BY <4>1, <5>2
        <5>3. CASE k = 3
          BY <4>1, <5>3
        <5>4. CASE k = 4
          BY <4>1, <5>4
        <5> QED
          BY <2>0, <5>1, <5>2, <5>3, <5>4
      <4> QED
        BY <4>2 DEF x
    <3>3. Letter(e.buffer * 2 ^ (5 - k)) = Letter((e.buffer * 2 ^ (5 - k)) % 32)
      BY <3>2, LetterOf, Zenon
    <3> QED
      BY <1>2, <3>1, <3>3
  <2> HIDE DEF v
  <2>3. /\ one \in Quintets /\ Len(one) = l + 1 /\ Number(32, one) = 32 * b + v
        /\ Emitted(bytes) = LettersOf(one)
    BY <2>1, <2>2, LettersAppend, QuintetNumber
  <2> HIDE DEF one
  <2>4. Len(one) = CharsFor(m) /\ (5 * Len(one)) % 8 = 5 - k
    <3> HIDE DEF l, m, k
    <3>1. CharsFor(m) = l + 1 /\ (5 * (l + 1)) % 8 = 5 - k
      BY <1>2, <1>3, <2>0, OneLetterMore
    <3> QED
      BY <2>3, <3>1
  <2>5. Number(32, one) = n * 2 ^ (5 - k)
    <3> HIDE DEF n, b, k
    <3> QED
      BY <2>1, <2>3
  <2> QED
    BY <2>3, <2>4, <2>5
<1> QED
  BY <1>5, <1>6

-----------------------------------------------------------------------------
(* One spelling.                                                           *)

(* Digits are known by their number.                                       *)
LEMMA NumberIsUnique ==
  ASSUME NEW s \in Quintets, NEW t \in Quintets,
         Len(s) = Len(t), Number(32, s) = Number(32, t)
  PROVE  s = t
<1> DEFINE l == Len(s)
           S == 0 .. 31
<1>0. /\ l \in Nat /\ l = Len(t) /\ s \in [1 .. l -> S] /\ t \in [1 .. l -> S]
      /\ s \in Seq(Int) /\ t \in Seq(Int)
  <2>1. s \in Seq(S) /\ t \in Seq(S) /\ S \subseteq Int
    BY DEF Quintets
  <2> HIDE DEF S
  <2> QED
    BY <2>1, LenProperties, SeqMonotonic
<1> DEFINE Is(u, g) == /\ g[0] = 0 /\ \A n \in 1 .. l : g[n] = 32 * g[n - 1] + u[n]
                       /\ Number(32, u) = g[l]
<1>1. ASSUME NEW u \in Seq(Int), Len(u) = l PROVE \E g \in [0 .. l -> Int] : Is(u, g)
  <2> DEFINE f == 32
  <2>1. f \in Nat
    OBVIOUS
  <2> HIDE DEF f
  <2>2. \E g \in [0 .. Len(u) -> Int] :
           /\ g[0] = 0 /\ \A n \in 1 .. Len(u) : g[n] = f * g[n - 1] + u[n]
           /\ Number(f, u) = g[Len(u)]
    BY <2>1, NumberRuns, Zenon
  <2> QED
    BY <1>1, <2>2, Zenon DEF f
<1> HIDE DEF l
<1>2. PICK g \in [0 .. l -> Int] : Is(s, g)
  BY <1>0, <1>1, Zenon DEF l
<1>3. PICK h \in [0 .. l -> Int] : Is(t, h)
  BY <1>0, <1>1, Zenon DEF l
<1>4. ASSUME NEW n \in 1 .. l, g[n] = h[n] PROVE g[n - 1] = h[n - 1] /\ s[n] = t[n]
  <2> DEFINE a == g[n - 1]
             b == h[n - 1]
             x == s[n]
             y == t[n]
  <2>1. a \in Int /\ b \in Int /\ x \in 0 .. 31 /\ y \in 0 .. 31
    <3>1. n - 1 \in 0 .. l
      BY <1>0
    <3> QED
      BY <1>0, <3>1
  <2>2. 32 * a + x = 32 * b + y
    BY <1>2, <1>3, <1>4
  <2> HIDE DEF a, b, x, y
  <2>3. a = b /\ x = y
    BY <2>1, <2>2
  <2> QED
    BY <2>3 DEF a, b, x, y
<1> DEFINE P == {j \in Nat : j <= l => g[l - j] = h[l - j]}
<1>5. 0 \in P
  <2>1. g[l] = h[l] /\ l - 0 = l
    BY <1>0, <1>2, <1>3
  <2> QED
    BY <2>1
<1>6. ASSUME NEW j \in Nat, j \in P PROVE j + 1 \in P
  <2> SUFFICES ASSUME j + 1 <= l PROVE g[l - (j + 1)] = h[l - (j + 1)]
    OBVIOUS
  <2>1. l - j \in 1 .. l /\ (l - j) - 1 = l - (j + 1) /\ g[l - j] = h[l - j]
    BY <1>0, <1>6
  <2> QED
    BY <1>4, <2>1
<1>7. Nat \subseteq P
  <2> HIDE DEF P
  <2> QED
    BY <1>5, <1>6, InSteps
<1>8. \A n \in 1 .. l : s[n] = t[n]
  <2> TAKE n \in 1 .. l
  <2>1. l - n \in Nat /\ l - n <= l /\ l - (l - n) = n
    BY <1>0
  <2>2. g[n] = h[n]
    BY <1>7, <2>1
  <2> QED
    BY <1>4, <2>2
<1> HIDE DEF S
<1> QED
  BY <1>0, <1>8

Folds(text) == Seq({FoldChar(text[n]) : n \in 1 .. Len(text)})

LEMMA CanonicalRuns ==
  ASSUME NEW C, NEW text \in Seq(C), NEW limit \in Nat
  PROVE  \E run \in [0 .. Len(text) -> Folds(text)] :
           /\ run[0] = <<>>
           /\ \A n \in 1 .. Len(text) : run[n] = IF text[n] \in Grouping \/ Len(run[n - 1]) >= limit THEN run[n - 1] ELSE Append(run[n - 1], FoldChar(text[n]))
           /\ Canonical(text, limit) = run[Len(text)]
<1> DEFINE run[n \in 0 .. Len(text)] == IF n = 0 THEN <<>> ELSE IF text[n] \in Grouping \/ Len(run[n - 1]) >= limit THEN run[n - 1] ELSE Append(run[n - 1], FoldChar(text[n]))
           Body(x, n) == IF text[n] \in Grouping \/ Len(x) >= limit THEN x ELSE Append(x, FoldChar(text[n]))
           a == [p \in Folds(text) \X (1 .. Len(text)) |-> Body(p[1], p[2])]
           k == Len(text)
<1>0. k \in Nat /\ <<>> \in Folds(text)
  BY LenProperties DEF Folds
<1>1. Canonical(text, limit) = run[Len(text)]
  BY DEF Canonical, Loop
<1>2. run = CHOOSE g : g = [n \in 0 .. k |-> IF n = 0 THEN <<>> ELSE Body(g[n - 1], n)]
  BY DEF run
<1>3. \A x \in Folds(text) : \A n \in 1 .. k : Body(x, n) \in Folds(text)
  BY DEF Folds
<1> HIDE DEF run, Body, k
<1>4. a \in [Folds(text) \X (1 .. k) -> Folds(text)]
  BY <1>3 DEF k
<1>5. \A x \in Folds(text) : \A n \in 1 .. k : a[<<x, n>>] = Body(x, n)
  BY DEF k
<1> HIDE DEF a
<1>6. PICK g \in [0 .. k -> Folds(text)] : Runs(g, <<>>, a, k)
  BY <1>0, <1>4, RunExists, Zenon
<1>7. ASSUME NEW n \in 1 .. k PROVE g[n] = Body(g[n - 1], n)
  <2>1. n - 1 \in 0 .. k /\ g[n - 1] \in Folds(text)
    BY <1>0
  <2> QED
    BY <1>5, <1>6, <2>1 DEF Runs
<1>8. g = [n \in 0 .. k |-> IF n = 0 THEN <<>> ELSE Body(g[n - 1], n)]
  <2>1. g[0] = <<>>
    BY <1>6 DEF Runs
  <2> QED
    BY <1>0, <1>7, <2>1
<1>9. run = [n \in 0 .. k |-> IF n = 0 THEN <<>> ELSE Body(run[n - 1], n)]
  BY <1>2, <1>8
<1>10. run[0] = <<>> /\ \A n \in 1 .. k : run[n] = Body(run[n - 1], n)
  BY <1>0, <1>9
<1> DEFINE P == {n \in Nat : n <= k => run[n] \in Folds(text)}
<1>11. 0 \in P
  BY <1>0, <1>10
<1>12. ASSUME NEW n \in Nat, n \in P PROVE n + 1 \in P
  <2> SUFFICES ASSUME n + 1 <= k PROVE run[n + 1] \in Folds(text)
    OBVIOUS
  <2>1. n + 1 \in 1 .. k /\ (n + 1) - 1 = n /\ run[n] \in Folds(text)
    BY <1>0, <1>12
  <2>2. run[n + 1] = Body(run[n], n + 1)
    BY <1>10, <2>1
  <2> QED
    BY <1>3, <2>1, <2>2
<1>13. \A n \in 0 .. k : run[n] \in Folds(text)
  <2>1. Nat \subseteq P
    <3> HIDE DEF P
    <3> QED
      BY <1>11, <1>12, InSteps
  <2> QED
    BY <1>0, <2>1
<1>14. run \in [0 .. k -> Folds(text)]
  BY <1>9, <1>13
<1>15. \A n \in 1 .. k : run[n] = IF text[n] \in Grouping \/ Len(run[n - 1]) >= limit THEN run[n - 1] ELSE Append(run[n - 1], FoldChar(text[n]))
  BY <1>10, Zenon DEF Body
<1> QED
  BY <1>1, <1>10, <1>14, <1>15, Zenon DEF k

(* What _apply() keeps of a text without a foreign character, that is not  *)
(* too long.                                                               *)
LEMMA CanonicalIs ==
  ASSUME NEW C, NEW text \in Seq(C), NEW limit \in Nat,
         Spelled(text) \in Quintets, Len(Spelled(text)) <= limit
  PROVE  Canonical(text, limit) = LettersOf(Spelled(text))
<1> DEFINE l == Len(text)
<1>0. l \in Nat
  BY LenProperties
<1>1. PICK ks \in [0 .. l -> Folds(text)] :
        /\ ks[0] = <<>>
        /\ \A n \in 1 .. l : ks[n] = IF text[n] \in Grouping \/ Len(ks[n - 1]) >= limit THEN ks[n - 1] ELSE Append(ks[n - 1], FoldChar(text[n]))
        /\ Canonical(text, limit) = ks[l]
  BY CanonicalRuns, Zenon
<1>2. PICK vs \in [0 .. l -> Values] :
        /\ vs[0] = <<>>
        /\ \A n \in 1 .. l : vs[n] = IF text[n] \in Grouping THEN vs[n - 1] ELSE Append(vs[n - 1], Value(text[n]))
        /\ Spelled(text) = vs[l]
  BY SpelledRuns, Zenon
<1> DEFINE Agree(n) == (vs[n] \in Quintets /\ Len(vs[n]) <= limit) => ks[n] = LettersOf(vs[n])
           P == {n \in Nat : n <= l => Agree(n)}
<1> HIDE DEF l
<1>3. 0 \in P
  <2>1. LettersOf(<<>>) = <<>>
    BY DEF LettersOf
  <2>2. Agree(0)
    BY <1>1, <1>2, <2>1
  <2> HIDE DEF Agree
  <2> QED
    BY <2>2
<1>4. ASSUME NEW n \in Nat, n \in P PROVE n + 1 \in P
  <2> SUFFICES ASSUME n + 1 <= l PROVE Agree(n + 1)
    OBVIOUS
  <2>1. n \in 0 .. l /\ n + 1 \in 1 .. l /\ (n + 1) - 1 = n /\ Agree(n)
    BY <1>0, <1>4
  <2> DEFINE c == text[n + 1]
             vals == vs[n]
             kept == ks[n]
  <2>2. /\ vals \in Values
        /\ (vals \in Quintets /\ Len(vals) <= limit) => kept = LettersOf(vals)
    BY <2>1
  <2>3. /\ ks[n + 1] = IF c \in Grouping \/ Len(kept) >= limit THEN kept ELSE Append(kept, FoldChar(c))
        /\ vs[n + 1] = IF c \in Grouping THEN vals ELSE Append(vals, Value(c))
    BY <1>1, <1>2, <2>1
  <2> HIDE DEF c, vals, kept
  <2>4. CASE c \in Grouping
    <3>1. ks[n + 1] = kept /\ vs[n + 1] = vals
      BY <2>3, <2>4
    <3> QED
      BY <2>2, <3>1
  <2>5. CASE c \notin Grouping
    <3> DEFINE v == Value(c)
               w == Append(vals, v)
    <3>0. v \in -1 .. 31
      BY ValueRange
    <3>1. vs[n + 1] = w
      BY <2>3, <2>5
    <3>2. SUFFICES ASSUME w \in Quintets, Len(w) <= limit PROVE ks[n + 1] = LettersOf(w)
      BY <3>1
    <3> HIDE DEF v
    <3>3. vals \in Quintets /\ v >= 0 /\ Len(w) = Len(vals) + 1 /\ Len(vals) \in Nat
      <4>1. vals \in Values
        BY <2>2
      <4>2. /\ Len(w) = Len(vals) + 1 /\ Len(vals) \in Nat
            /\ w \in Quintets <=> (vals \in Quintets /\ v >= 0)
        BY ONLY <3>0, <4>1, QuintetAppended DEF w
      <4> QED
        BY <3>2, <4>2, Zenon
    <3>4. v \in 0 .. 31
      BY <3>0, <3>3
    <3>5. /\ LettersOf(w) = Append(LettersOf(vals), Letter(v))
          /\ Len(LettersOf(vals)) = Len(vals)
      BY <3>3, <3>4, LettersAppend
    <3>6. FoldChar(c) = Letter(v)
      <4>1. Value(c) >= 0
        BY <3>3 DEF v
      <4> QED
        BY <4>1, FoldIsLetter DEF v
    <3> HIDE DEF w
    <3>7. Len(vals) <= limit /\ ~(Len(vals) >= limit)
      BY <3>2, <3>3
    <3>8. kept = LettersOf(vals)
      <4>1. vals \in Quintets /\ Len(vals) <= limit
        BY <3>3, <3>7
      <4> QED
        BY <2>2, <4>1, Zenon
    <3> QED
      BY <2>3, <2>5, <3>5, <3>6, <3>7, <3>8
  <2> QED
    BY <2>4, <2>5
<1>5. Agree(l)
  <2>1. l \in P
    <3> HIDE DEF P
    <3> QED
      BY <1>0, <1>3, <1>4, InSteps
  <2> HIDE DEF Agree
  <2> QED
    BY <1>0, <2>1
<1> QED
  BY <1>1, <1>2, <1>5

(* Whatever way it was written, a text that is accepted is kept as the     *)
(* encoder would have written it.                                          *)
LEMMA SpelledOnce ==
  ASSUME NEW C, NEW text \in Seq(C), NEW capacity \in Nat, NEW expect \in Nat \ {0},
         expect <= MaxInput \div 2, Decode(text, capacity, expect) # Failed
  PROVE  Canonical(text, CharsFor(expect)) = Encode(Decode(text, capacity, expect), CharsFor(expect) + 1)
<1> DEFINE vals == Spelled(text)
           l == Len(vals)
           bytes == Decode(text, capacity, expect)
<1>1. Decodable(text, capacity, expect) /\ Spells(text, bytes)
  BY DecodeIsRight
<1>2. vals \in Values
  <2>1. 0 \in Nat
    OBVIOUS
  <2> QED
    BY <2>1, DecodeSpells, Zenon
<1> HIDE DEF bytes
<1>3. /\ \A i \in 1 .. l : vals[i] >= 0
      /\ l = CharsFor(expect) /\ (5 * l) \div 8 = expect
      /\ bytes \in Seq(Byte) /\ Len(bytes) = (5 * l) \div 8
      /\ Number(32, vals) = Number(256, bytes) * 2 ^ ((5 * l) % 8)
  BY <1>1 DEF Decodable, Spells
<1> HIDE DEF vals
<1>4. vals \in Quintets
  BY <1>2, <1>3, QuintetsAre
<1>5. PICK digits \in Quintets :
        /\ Emitted(bytes) = LettersOf(digits)
        /\ Len(digits) = CharsFor(Len(bytes))
        /\ Number(32, digits) = Number(256, bytes) * 2 ^ ((5 * Len(digits)) % 8)
  BY <1>3, EncodeIsRight, Zenon
<1>6. Len(digits) = l /\ Number(32, digits) = Number(32, vals)
  BY <1>3, <1>5
<1>7. digits = vals
  BY <1>4, <1>6, NumberIsUnique
<1>8. Canonical(text, CharsFor(expect)) = LettersOf(vals)
  <2>1. l \in Nat /\ l <= l
    BY <1>2, LenProperties DEF Values
  <2>2. CharsFor(expect) \in Nat /\ Len(vals) <= CharsFor(expect)
    BY <1>3, <2>1
  <2> QED
    BY <1>4, <2>2, CanonicalIs DEF vals
<1>9. Encode(bytes, CharsFor(expect) + 1) = Emitted(bytes)
  <2>1. Len(bytes) = expect /\ CharsFor(expect) \in Nat
    BY <1>3 DEF CharsFor
  <2>2. ~(Len(bytes) > MaxInput \div 2) /\ ~(CharsFor(expect) + 1 < CharsFor(Len(bytes)) + 1)
    BY <2>1, InputAssumption
  <2> QED
    BY <2>2 DEF Encode
<1> QED
  BY <1>5, <1>7, <1>8, <1>9 DEF bytes

-----------------------------------------------------------------------------
(* The line.                                                               *)
USE MaxLenAssumption, CharsAssumption, TooLongAssumption

LEMMA LineInvStep ==
  ASSUME LineInv, [Next]_vars
  PROVE  LineInv'
<1>b. (input.bit \in {0, 1})'
  BY DEF LineInv, TypeOK, Next, Push, Called, Reset, vars
<1> USE DEF LineInv, TypeOK
<1>0. /\ len0 \in 0 .. MaxLen /\ buf0 \in [0 .. MaxLen -> Kept] /\ NUL \in Kept
      /\ overflow => len0 = 0
  BY DEF len0, buf0, Kept
<1>1. ASSUME NEW c \in Chars, PushEnd(c) PROVE LineInv'
  <2>1. buf' \in [0 .. MaxLen -> Kept]
    BY <1>0, <1>1 DEF PushEnd
  <2>2. len' \in 0 .. MaxLen
    BY <1>0, <1>1 DEF PushEnd
  <2>3. \/ rc' = "BAD_FORMAT" /\ ~ready' /\ ~overflow'
        \/ rc' = "NOT_FOUND" /\ ~ready' /\ ~overflow'
        \/ rc' = "OK" /\ ready' /\ ~overflow' /\ len' # 0
    BY <1>1 DEF PushEnd
  <2>4. ready' \in BOOLEAN /\ overflow' \in BOOLEAN
    BY <1>1 DEF PushEnd
  <2> QED
    BY <1>b, <2>1, <2>2, <2>3, <2>4
<1>2. ASSUME NEW c \in Chars, PushDropped(c) PROVE LineInv'
  BY <1>0, <1>2, <1>b DEF PushDropped
<1>3. ASSUME NEW c \in Chars, PushOverflows(c) PROVE LineInv'
  <2>1. buf' \in [0 .. MaxLen -> Kept]
    BY <1>0, <1>3 DEF PushOverflows
  <2>2. len' = 0 /\ ~ready' /\ ready' \in BOOLEAN /\ rc' = "NOT_FOUND" /\ overflow' = TRUE
    BY <1>3 DEF PushOverflows
  <2> QED
    BY <1>b, <2>1, <2>2
<1>4. ASSUME NEW c \in Chars, PushStore(c) PROVE LineInv'
  <2>1. buf' \in [0 .. MaxLen -> Kept]
    BY <1>0, <1>4 DEF PushStore
  <2>2. len' \in 0 .. MaxLen
    BY <1>0, <1>4 DEF PushStore
  <2>3. ~ready' /\ ready' \in BOOLEAN /\ rc' = "NOT_FOUND" /\ ~overflow' /\ overflow' \in BOOLEAN
    BY <1>4 DEF PushStore
  <2> QED
    BY <1>b, <2>1, <2>2, <2>3
<1>5. CASE Reset
  BY <1>0, <1>5, <1>b DEF Reset
<1>6. CASE UNCHANGED vars
  BY <1>6 DEF vars
<1> QED
  <2>1. (\E c \in Chars : PushEnd(c) \/ PushDropped(c) \/ PushOverflows(c) \/ PushStore(c))
          \/ Reset \/ UNCHANGED vars
    BY DEF Next, Push
  <2> QED
    BY <1>1, <1>2, <1>3, <1>4, <1>5, <1>6, <2>1

LEMMA LineInvariant == Spec => []LineInv
<1>1. Init => LineInv
  BY DEF Init, LineInv, TypeOK, Kept
<1> QED
  BY <1>1, LineInvStep, PTL DEF Spec

(* The length never leaves the buffer, whatever bytes arrive.              *)
THEOREM LineTypeCorrect == Spec => []TypeOK
  BY LineInvariant, PTL DEF LineInv

-----------------------------------------------------------------------------
(* What the buffer holds, as a sequence.                                   *)
LEMMA StoredSeq ==
  ASSUME TypeOK
  PROVE  Stored \in Seq(Chars) /\ Len(Stored) = len /\ (len = 0 => Stored = <<>>)
  BY DEF TypeOK, Stored, Kept

(* Each byte pushed is a step of the reader.                               *)
LEMMA ReaderStep ==
  ASSUME LineInv, [Next]_vars
  PROVE  [Reader!Next]_(Reader!lvars)
<1> DEFINE cur == IF overflow THEN TooLong ELSE IF ready THEN <<>> ELSE Stored
           rep == [rc |-> rc, text |-> IF rc = "OK" THEN Stored ELSE <<>>]
<1> USE DEF Reader!NoLine, Reader!Report
<1>0. /\ LineInv' /\ TypeOK /\ TypeOK'
      /\ Stored \in Seq(Chars) /\ Len(Stored) = len /\ (len = 0 => Stored = <<>>)
      /\ Stored' \in Seq(Chars) /\ Len(Stored)' = len' /\ (len' = 0 => Stored' = <<>>)
  <2>1. TypeOK /\ TypeOK' /\ LineInv'
    BY LineInvStep DEF LineInv
  <2>2. Stored' \in Seq(Chars) /\ Len(Stored)' = len' /\ (len' = 0 => Stored' = <<>>)
    BY <2>1, CharsAssumption DEF TypeOK, Stored, Kept
  <2> QED
    BY <2>1, <2>2, StoredSeq
<1>k. ASSUME NEW c \in Chars, PushOverflows(c) \/ PushStore(c)
      PROVE  c \in Chars \ (Terminators \cup Spaces)
  BY <1>k DEF PushOverflows, PushStore, Kept
<1>1. ASSUME NEW c \in Chars, Called(<<c>>), PushEnd(c) PROVE Reader!Terminate(c)
  <2>1. CASE rc' = "BAD_FORMAT"
    BY <1>0, <1>1, <2>1 DEF PushEnd, LineInv, len0, Called, Reader!Called, Reader!Terminate
  <2>2. CASE rc' = "NOT_FOUND"
    BY <1>0, <1>1, <2>2 DEF PushEnd, LineInv, len0, Called, Reader!Called, Reader!Terminate
  <2>3. CASE rc' = "OK"
    <3>1. ~overflow /\ ~ready /\ len # 0 /\ len' = len /\ buf' = [buf EXCEPT ![len] = NUL]
          /\ ready' /\ ~overflow'
      BY <1>1, <2>3 DEF PushEnd, LineInv, len0, buf0
    <3>2. Stored' = Stored
      BY <1>0, <3>1 DEF Stored, LineInv, TypeOK
    <3>3. Stored # TooLong /\ Stored # <<>>
      BY <1>0, <3>1
    <3> QED
      BY <1>1, <2>3, <3>1, <3>2, <3>3 DEF PushEnd, Called, Reader!Called, Reader!Terminate
  <2> QED
    BY <1>1, <2>1, <2>2, <2>3 DEF PushEnd
<1>2. ASSUME NEW c \in Chars, Called(<<c>>), PushDropped(c)
      PROVE  Reader!Skip(c) \/ Reader!Store(c)
  <2>1. rc' = "NOT_FOUND" /\ ~ready' /\ overflow' = overflow
    BY <1>2 DEF PushDropped
  <2>2. cur' = cur
    <3>1. CASE ready
      <4>1. len' = 0 /\ ~overflow
        BY <1>2, <3>1 DEF PushDropped, LineInv, len0
      <4> QED
        BY <1>0, <2>1, <3>1, <4>1
    <3>2. CASE ~ready
      <4>1. len' = len /\ buf' = buf
        BY <1>2, <3>2 DEF PushDropped, len0, buf0
      <4> QED
        BY <2>1, <3>2, <4>1 DEF Stored
    <3> QED
      BY <3>1, <3>2
  <2>3. CASE c \in Spaces
    BY <1>2, <2>1, <2>2, <2>3 DEF Called, Reader!Called, Reader!Skip
  <2>4. CASE c \in Kept /\ overflow
    BY <1>2, <2>1, <2>2, <2>4 DEF Kept, Called, Reader!Called, Reader!Store
  <2> QED
    BY <1>2, <2>3, <2>4 DEF PushDropped
<1>3. ASSUME NEW c \in Chars, Called(<<c>>), PushOverflows(c) PROVE Reader!Store(c)
  <2>1. ~overflow /\ ~ready /\ len = MaxLen /\ overflow' /\ rc' = "NOT_FOUND"
    BY <1>3 DEF PushOverflows, LineInv, TypeOK, len0
  <2> QED
    BY <1>0, <1>3, <2>1, <1>k DEF Called, Reader!Called, Reader!Store
<1>4. ASSUME NEW c \in Chars, Called(<<c>>), PushStore(c) PROVE Reader!Store(c)
  <2>1. ~overflow /\ ~overflow' /\ ~ready' /\ rc' = "NOT_FOUND" /\ len0 < MaxLen
        /\ len' = len0 + 1 /\ buf' = [buf0 EXCEPT ![len0] = c]
    BY <1>4 DEF PushStore
  <2>2. cur = [i \in 1 .. len0 |-> buf0[i - 1]] /\ cur \in Seq(Chars) /\ Len(cur) = len0
    <3>1. CASE ready
      BY <2>1, <3>1 DEF len0
    <3>2. CASE ~ready
      BY <1>0, <2>1, <3>2 DEF len0, buf0, Stored
    <3> QED
      BY <3>1, <3>2
  <2>3. len0 \in Nat /\ buf0 \in [0 .. MaxLen -> Chars]
    BY DEF len0, buf0, LineInv, TypeOK, Kept
  <2>4. Stored' = Append(cur, c)
    <3>1. Stored' = [i \in 1 .. len0 + 1 |-> buf'[i - 1]]
      BY <2>1 DEF Stored
    <3>2. \A i \in 1 .. len0 : buf'[i - 1] = cur[i]
      BY <2>1, <2>2, <2>3
    <3>3. buf'[len0] = c
      BY <2>1, <2>3
    <3> HIDE DEF cur
    <3> QED
      BY <2>2, <2>3, <3>1, <3>2, <3>3
  <2>5. cur # TooLong /\ Len(cur) # MaxLen
    BY <2>1, <2>2, <2>3
  <2> QED
    BY <1>4, <1>k, <2>1, <2>4, <2>5 DEF Called, Reader!Called, Reader!Store
<1>5. CASE Reset
  <2>1. ~overflow' /\ ~ready' /\ len' = 0 /\ rc' = "NOT_FOUND"
    BY <1>5 DEF Reset
  <2> QED
    BY <1>0, <1>5, <2>1 DEF Reset, Called, Reader!Called, Reader!Next, Reader!Abandon
<1>6. CASE UNCHANGED vars
  BY <1>6 DEF vars, Reader!lvars, Stored
<1> QED
  <2>1. \/ \E c \in Chars :
             /\ Called(<<c>>)
             /\ PushEnd(c) \/ PushDropped(c) \/ PushOverflows(c) \/ PushStore(c)
        \/ Reset
        \/ UNCHANGED vars
    BY DEF Next, Push
  <2> QED
    BY <1>1, <1>2, <1>3, <1>4, <1>5, <1>6, <2>1 DEF Reader!Next

(* For every line length and stream: each byte does to the line, and to    *)
(* what is answered, what the abstract reader says that byte does.  So the *)
(* lines handed up are those of the stream, and one too long is reported   *)
(* once.                                                                   *)
THEOREM LineImplementation == Spec => ImplementsLineReader
<1>1. Init => Reader!Init
  BY DEF Init, Reader!Init, Reader!NoLine, Reader!Report, Stored
<1>2. LineInv /\ [Next]_vars => [Reader!Next]_(Reader!lvars)
  BY ReaderStep
<1> QED
  BY <1>1, <1>2, LineInvariant, PTL DEF Spec, ImplementsLineReader, Reader!Spec

-----------------------------------------------------------------------------
(* The line as a text.                                                     *)
LineEnds == rc = "OK" => buf[len] = NUL

LEMMA LineEndsAlways == Spec => [](LineInv /\ LineEnds)
<1>1. Init => LineEnds
  BY DEF Init, LineEnds
<1>2. ASSUME LineInv, LineEnds, [Next]_vars PROVE LineEnds'
  <2>1. ASSUME NEW c \in Chars, PushEnd(c) PROVE LineEnds'
    <3> SUFFICES ASSUME rc' = "OK" PROVE buf'[len'] = NUL
      BY DEF LineEnds
    <3>1. buf' = [buf0 EXCEPT ![len0] = NUL] /\ len' = len0
      BY <2>1 DEF PushEnd
    <3>2. len \in 0 .. MaxLen /\ buf \in [0 .. MaxLen -> Kept] /\ NUL \in Kept
      BY <1>2 DEF Kept, LineInv, TypeOK
    <3>3. len0 \in 0 .. MaxLen
      BY <3>2 DEF len0
    <3>4. buf0 \in [0 .. MaxLen -> Kept]
      BY <3>2 DEF buf0
    <3> QED
      BY <3>1, <3>3, <3>4
  <2>2. ASSUME NEW c \in Chars, PushDropped(c) \/ PushOverflows(c) \/ PushStore(c) PROVE LineEnds'
    BY <2>2 DEF PushDropped, PushOverflows, PushStore, LineEnds
  <2>3. CASE Reset
    BY <2>3 DEF Reset, LineEnds
  <2>4. CASE UNCHANGED vars
    BY <1>2, <2>4 DEF vars, LineEnds
  <2> QED
    BY <1>2, <2>1, <2>2, <2>3, <2>4 DEF Next, Push
<1> QED
  BY <1>1, <1>2, LineInvariant, PTL DEF Spec

LEMMA TextIsRead ==
  ASSUME LineInv, LineEnds, rc = "OK"
  PROVE  Text \in Seq(Chars) /\ Len(Text) \in 0 .. MaxLen
<1> DEFINE Ends(n) == buf[n] = NUL /\ \A i \in 0 .. n - 1 : buf[i] # NUL
           Q == {n \in Nat : \A i \in 0 .. n : i <= len => buf[i] # NUL}
<1>1. /\ len \in 0 .. MaxLen /\ MaxLen \in Nat /\ buf[len] = NUL
      /\ \A n \in 0 .. MaxLen : buf[n] \in Chars
  BY DEF LineInv, TypeOK, LineEnds, Kept
<1>2. \E n \in 0 .. MaxLen : Ends(n)
  <2> SUFFICES ASSUME \A n \in 0 .. MaxLen : ~Ends(n) PROVE FALSE
    OBVIOUS
  <2>1. 0 \in Q
    <3>1. buf[0] # NUL
      BY <1>1
    <3> QED
      BY <3>1
  <2>2. ASSUME NEW n \in Nat, n \in Q PROVE n + 1 \in Q
    <3> SUFFICES ASSUME NEW i \in 0 .. n + 1, i <= len PROVE buf[i] # NUL
      OBVIOUS
    <3>1. CASE i <= n
      BY <2>2, <3>1
    <3>2. CASE i = n + 1
      <4>1. i \in 0 .. MaxLen /\ \A j \in 0 .. i - 1 : j \in 0 .. n /\ j <= len
        BY <1>1, <3>2
      <4>2. \A j \in 0 .. i - 1 : buf[j] # NUL
        BY <2>2, <4>1
      <4> QED
        BY <4>1, <4>2
    <3> QED
      BY <3>1, <3>2
  <2>3. len \in Q
    <3> HIDE DEF Q
    <3> QED
      BY <1>1, <2>1, <2>2, InSteps
  <2> QED
    BY <1>1, <2>3
<1>3. StringLength \in 0 .. MaxLen
  BY <1>2 DEF StringLength
<1>4. \A i \in 1 .. StringLength : buf[i - 1] \in Chars
  BY <1>1, <1>3
<1> HIDE DEF Ends, Q
<1> DEFINE k == StringLength
<1>5. Text = [i \in 1 .. k |-> buf[i - 1]] /\ k \in Nat
  BY <1>3 DEF Text
<1> HIDE DEF k
<1>6. Text \in [1 .. k -> Chars]
  BY <1>4, <1>5 DEF k
<1>7. Text \in Seq(Chars) /\ Len(Text) = k
  BY <1>5, <1>6
<1> QED
  BY <1>3, <1>7 DEF k

(* Whatever bytes arrive on the line, and whatever capacity and length are *)
(* asked for: the decoder yields the bytes whose bits the line spells, or  *)
(* fails when there are none such.                                         *)
THEOREM DecodesTheBitsAlways == Spec => []DecodesTheBits
<1>1. LineInv /\ LineEnds => DecodesTheBits
  <2> SUFFICES ASSUME LineInv, LineEnds, rc = "OK", NEW capacity \in 0 .. MaxLen, NEW expect \in 0 .. MaxLen
               PROVE  /\ Decodable(Text, capacity, expect) => Spells(Text, Decode(Text, capacity, expect))
                      /\ ~Decodable(Text, capacity, expect) => Decode(Text, capacity, expect) = Failed
    BY DEF DecodesTheBits
  <2>1. Text \in Seq(Chars) /\ capacity \in Nat /\ expect \in Nat
    BY TextIsRead
  <2> QED
    BY <2>1, DecodeIsRight
<1> QED
  BY <1>1, LineEndsAlways, PTL

(* Whatever bytes arrive on the line: a text that is accepted with an      *)
(* expected length is kept as the encoder spells its payload.              *)
THEOREM OneSpellingAlways == Spec => []OneSpelling
<1>1. LineInv /\ LineEnds => OneSpelling
  <2> SUFFICES ASSUME LineInv, LineEnds, rc = "OK", NEW expect \in 1 .. MaxLen,
                      Decode(Text, MaxLen, expect) # Failed
               PROVE  Canonical(Text, CharsFor(expect)) = Encode(Decode(Text, MaxLen, expect), CharsFor(expect) + 1)
    BY DEF OneSpelling
  <2>1. Text \in Seq(Chars) /\ Len(Text) \in 0 .. MaxLen /\ MaxLen \in Nat /\ expect \in Nat \ {0}
    BY TextIsRead
  <2> DEFINE l == Len(Spelled(Text))
  <2>2. l \in Nat /\ l <= Len(Text)
    BY <2>1, SpelledLength
  <2>3. Decodable(Text, MaxLen, expect)
    BY <2>1, DecodeIsRight
  <2>4. (5 * l) \div 8 = expect
    <3>1. expect # 0
      BY <2>1
    <3> QED
      BY <2>3, <3>1, Zenon DEF Decodable
  <2> HIDE DEF l
  <2>5. expect <= MaxInput \div 2
    BY <2>1, <2>2, <2>4, LineFitsAssumption, InputAssumption
  <2> QED
    BY <2>1, <2>5, SpelledOnce
<1> QED
  BY <1>1, LineEndsAlways, PTL
=============================================================================
