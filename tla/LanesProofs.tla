---------------------------- MODULE LanesProofs ----------------------------
(***************************************************************************)
(* Proofs about bytes, lanes and nonces, for every base and every length   *)
(* of a lane: a number and its bytes are the same thing, the batch path of *)
(* the workers hashes the message pow.py hashes, words are compared as the *)
(* numbers they are, and no two batches share a nonce.                     *)
(*                                                                         *)
(* Induction over digits goes by the least number that fails.              *)
(***************************************************************************)
EXTENDS Lanes, SequenceTheorems, FiniteSetTheorems, TLAPS

LEMMA Least ==
  ASSUME NEW T, T \subseteq Nat, T # {}
  PROVE  \E m \in T : \A n \in T : m <= n
<1> DEFINE R == OpToRel(<, Nat)
<1>1. IsWellFoundedOn(R, Nat)
  BY NatLessThanWellFounded
<1> HIDE DEF R
<1>2. \E x \in T : \A y \in T : ~(<<y, x>> \in R)
  BY <1>1, WFMin
<1>3. ASSUME NEW x \in T, NEW y \in T, ~(<<y, x>> \in R)
      PROVE  x <= y
  BY <1>3 DEF R, OpToRel
<1> QED BY <1>2, <1>3

LEMMA Induction ==
  ASSUME NEW P, 0 \in P, \A n \in Nat : n \in P => n + 1 \in P
  PROVE  Nat \subseteq P
<1> DEFINE T == Nat \ P
<1>1. SUFFICES ASSUME T # {} PROVE FALSE
  OBVIOUS
<1>2. PICK m \in T : \A n \in T : m <= n
  BY <1>1, Least
<1>3. m # 0 /\ m - 1 \in Nat /\ m - 1 \notin T
  BY <1>2
<1> QED BY <1>3

-----------------------------------------------------------------------------
(* Quotients and remainders.                                               *)
LEMMA Division ==
  ASSUME NEW b \in Nat \ {0}, NEW a \in Nat
  PROVE  /\ a \div b \in Nat /\ a % b \in 0 .. b - 1
         /\ a = (a \div b) * b + (a % b)
<1>1. /\ a \div b \in Nat /\ a % b \in 0 .. b - 1
      /\ a = (b * (a \div b)) + (a % b)
  OBVIOUS
<1> QED BY <1>1

LEMMA Products ==
  ASSUME NEW a \in Nat, NEW b \in Nat
  PROVE  a * b \in Nat /\ a * b = b * a
  OBVIOUS

LEMMA Apart ==
  ASSUME NEW b \in Nat \ {0}, NEW p \in Nat, NEW q \in Nat, p < q
  PROVE  p * b + b <= q * b /\ p * b \in Nat /\ q * b \in Nat
<1>1. PICK d \in Nat : q = p + 1 + d
  <2>1. q - p - 1 \in Nat /\ q = p + 1 + (q - p - 1)
    OBVIOUS
  <2> QED BY <2>1
<1>2. q * b = p * b + b + d * b /\ d * b \in Nat /\ p * b \in Nat
  BY <1>1
<1> QED BY <1>2

(* A number of two digits, and what its digits are.                        *)
LEMMA TwoDigits ==
  ASSUME NEW b \in Nat \ {0}, NEW q \in Nat, NEW r \in 0 .. b - 1
  PROVE  /\ q * b + r \in Nat
         /\ (q * b + r) \div b = q
         /\ (q * b + r) % b = r
<1> DEFINE a == q * b + r
           p == a \div b
           s == a % b
<1>1. a \in Nat
  BY Products
<1>2. p \in Nat /\ s \in 0 .. b - 1 /\ q * b + r = p * b + s
  BY <1>1, Division
<1>3. q * b \in Nat /\ p * b \in Nat
  BY <1>2, Products
<1> HIDE DEF p, s, a
<1>4. ~(p < q)
  BY <1>2, <1>3, Apart
<1>5. ~(q < p)
  BY <1>2, <1>3, Apart
<1>6. p = q
  BY <1>2, <1>4, <1>5
<1>7. s = r
  BY <1>2, <1>3, <1>6
<1> QED BY <1>1, <1>6, <1>7 DEF p, s, a

LEMMA DigitsCompare ==
  ASSUME NEW b \in Nat \ {0}, NEW p \in Nat, NEW q \in Nat,
         NEW r \in 0 .. b - 1, NEW s \in 0 .. b - 1
  PROVE  /\ p * b + r < q * b + s <=> p < q \/ (p = q /\ r < s)
         /\ p * b + r = q * b + s <=> p = q /\ r = s
<1>1. p * b \in Nat /\ q * b \in Nat
  BY Products
<1>2. p < q => p * b + b <= q * b
  BY Apart
<1>3. q < p => q * b + b <= p * b
  BY Apart
<1>4. CASE p < q
  BY <1>1, <1>2, <1>4
<1>5. CASE q < p
  BY <1>1, <1>3, <1>5
<1>6. CASE p = q
  BY <1>1, <1>6
<1> QED BY <1>4, <1>5, <1>6

(* Two digits stay below the square of their base, so to say.              *)
LEMMA DigitsBound ==
  ASSUME NEW b \in Nat \ {0}, NEW c \in Nat \ {0},
         NEW q \in 0 .. c - 1, NEW r \in 0 .. b - 1
  PROVE  q * b + r \in 0 .. c * b - 1
<1>1. q * b + b <= c * b /\ q * b \in Nat /\ c * b \in Nat
  BY Apart
<1> QED BY <1>1

(* Shifting twice, and cutting what was shifted.                           *)
LEMMA ShiftTwice ==
  ASSUME NEW b \in Nat \ {0}, NEW c \in Nat \ {0}, NEW a \in Nat
  PROVE  /\ (a \div b) \div c = a \div (c * b)
         /\ ((a \div b) % c) * b + (a % b) = a % (c * b)
         /\ c * b \in Nat \ {0}
<1> DEFINE n == a \div b
           r == a % b
           q == n \div c
           s == n % c
<1>1. n \in Nat /\ r \in 0 .. b - 1 /\ a = n * b + r
  BY Division
<1>2. q \in Nat /\ s \in 0 .. c - 1 /\ n = q * c + s
  BY <1>1, Division
<1> HIDE DEF n, r, q, s
<1>3. s * b + r \in 0 .. c * b - 1
  BY <1>1, <1>2, DigitsBound
<1>4. a = q * (c * b) + (s * b + r)
  <2>1. (q * c + s) * b + r = q * (c * b) + (s * b + r)
    BY <1>1, <1>2
  <2> QED BY <1>1, <1>2, <2>1
<1>5. c * b \in Nat \ {0}
  BY <1>3, Products
<1>6. a \div (c * b) = q /\ a % (c * b) = s * b + r
  <2> DEFINE d == c * b
             t == s * b + r
  <2>1. d \in Nat \ {0} /\ t \in 0 .. d - 1 /\ a = q * d + t
    BY <1>3, <1>4, <1>5
  <2> HIDE DEF d, t
  <2>2. a \div d = q /\ a % d = t
    BY <1>2, <2>1, TwoDigits
  <2> QED BY <2>2 DEF d, t
<1> QED BY <1>5, <1>6 DEF n, r, q, s

-----------------------------------------------------------------------------
(* Powers.                                                                 *)
LEMMA PowerFacts ==
  /\ Power[0] = 1
  /\ \A n \in Nat : Power[n + 1] = Base * Power[n]
<1> DEFINE Part(f, n) == f = [k \in 0 .. n |-> IF k = 0 THEN 1 ELSE Base * f[k - 1]]
           P == {n \in Nat : \E f : Part(f, n)}
           Q == {n \in Nat : \A f, g : \A m \in Nat :
                               Part(f, n) /\ Part(g, n + m) => f[n] = g[n]}
<1>1. 0 \in P
  <2>1. Part([k \in 0 .. 0 |-> 1], 0)
    OBVIOUS
  <2> QED BY <2>1
<1>2. ASSUME NEW n \in Nat, n \in P PROVE n + 1 \in P
  <2>1. PICK f : Part(f, n)
    BY <1>2
  <2> DEFINE g == [k \in 0 .. n + 1 |-> IF k = n + 1 THEN Base * f[n] ELSE f[k]]
             h == [k \in 0 .. n + 1 |-> IF k = 0 THEN 1 ELSE Base * g[k - 1]]
  <2>2. ASSUME NEW k \in 0 .. n + 1 PROVE g[k] = IF k = 0 THEN 1 ELSE Base * g[k - 1]
    <3>1. CASE k = n + 1
      BY <3>1
    <3>2. CASE k # n + 1
      BY <2>1, <3>2
    <3> QED BY <3>1, <3>2
  <2>3. g = h
    BY <2>2
  <2> HIDE DEF g
  <2>4. n + 1 \in Nat /\ Part(g, n + 1)
    BY <2>3
  <2> QED BY <2>4
<1>3. Nat \subseteq P
  <2> HIDE DEF P
  <2> QED BY <1>1, <1>2, Induction
<1>4. 0 \in Q
  OBVIOUS
<1>5. ASSUME NEW n \in Nat, n \in Q PROVE n + 1 \in Q
  <2> SUFFICES ASSUME NEW f, NEW g, NEW m \in Nat, Part(f, n + 1), Part(g, n + 1 + m)
               PROVE  f[n + 1] = g[n + 1]
    OBVIOUS
  <2> DEFINE e == [k \in 0 .. n |-> f[k]]
  <2>1. Part(e, n)
    <3>1. e = [k \in 0 .. n |-> IF k = 0 THEN 1 ELSE Base * e[k - 1]]
      OBVIOUS
    <3> QED BY <3>1
  <2>2. Part(g, n + (m + 1))
    <3>1. n + 1 + m = n + (m + 1)
      OBVIOUS
    <3> QED BY <3>1
  <2>3. e[n] = g[n]
    <3> HIDE DEF Part, e
    <3>1. m + 1 \in Nat
      OBVIOUS
    <3> QED BY <1>5, <2>1, <2>2, <3>1
  <2> QED BY <2>3
<1>6. Nat \subseteq Q
  <2> HIDE DEF Q
  <2> QED BY <1>4, <1>5, Induction
<1> DEFINE F == [n \in Nat |-> (CHOOSE f : Part(f, n))[n]]
<1>7. ASSUME NEW n \in Nat PROVE Part(CHOOSE f : Part(f, n), n)
  <2>1. \E f : Part(f, n)
    BY <1>3
  <2> HIDE DEF Part
  <2> QED BY <2>1
<1>8. F[0] = 1
  <2> DEFINE f == CHOOSE f : Part(f, 0)
  <2>1. Part(f, 0)
    BY <1>7
  <2> HIDE DEF f
  <2>2. f[0] = 1
    BY <2>1
  <2> QED BY <2>2 DEF f
<1>9. ASSUME NEW n \in Nat PROVE F[n + 1] = Base * F[n]
  <2> DEFINE f == CHOOSE f : Part(f, n)
             g == CHOOSE g : Part(g, n + 1)
  <2>1. Part(f, n) /\ Part(g, n + 1)
    <3> HIDE DEF Part
    <3>1. n + 1 \in Nat
      OBVIOUS
    <3> QED BY <1>7, <3>1
  <2>2. F[n + 1] = g[n + 1] /\ F[n] = f[n]
    OBVIOUS
  <2> HIDE DEF f, g, F
  <2>3. f[n] = g[n]
    <3> HIDE DEF Part
    <3>1. n \in Q
      BY <1>6
    <3> QED BY <2>1, <3>1
  <2>4. g[n + 1] = Base * g[n]
    BY <2>1
  <2> QED BY <2>2, <2>3, <2>4
<1> DEFINE Solves(f) == f = [n \in Nat |-> IF n = 0 THEN 1 ELSE Base * f[n - 1]]
<1>10. Solves(F)
  <2>1. ASSUME NEW n \in Nat PROVE F[n] = IF n = 0 THEN 1 ELSE Base * F[n - 1]
    <3> HIDE DEF F
    <3>1. CASE n = 0
      BY <1>8, <3>1
    <3>2. CASE n # 0
      <4>1. n - 1 \in Nat /\ (n - 1) + 1 = n
        BY <3>2
      <4> QED BY <1>9, <3>2, <4>1
    <3> QED BY <3>1, <3>2
  <2> DEFINE G == [n \in Nat |-> IF n = 0 THEN 1 ELSE Base * F[n - 1]]
  <2> DEFINE V(n) == (CHOOSE f : Part(f, n))[n]
  <2> HIDE DEF V
  <2>2. F = [n \in Nat |-> V(n)]
    BY DEF V
  <2> HIDE DEF F
  <2>3. \A n \in Nat : V(n) = IF n = 0 THEN 1 ELSE Base * F[n - 1]
    BY <2>1, <2>2
  <2>4. [n \in Nat |-> V(n)] = G
    BY <2>3
  <2> QED BY <2>2, <2>4
<1>11. Power = CHOOSE f : Solves(f)
  BY DEF Power
<1>12. Solves(Power)
  <2> HIDE DEF Solves, F
  <2> QED BY <1>10, <1>11
<1> HIDE DEF F
<1> QED BY <1>12

LEMMA BaseFacts == Base \in Nat \ {0} /\ Half \in Nat \ {0} /\ Lane = 2 * Half
  BY LanesAssumption DEF Lane

LEMMA PowerType == \A n \in Nat : Power[n] \in Nat \ {0}
<1> DEFINE P == {n \in Nat : Power[n] \in Nat \ {0}}
<1>1. 0 \in P
  BY PowerFacts
<1>2. ASSUME NEW n \in Nat, n \in P PROVE n + 1 \in P
  <2>1. Power[n + 1] = Base * Power[n] /\ Power[n] \in Nat \ {0}
    BY <1>2, PowerFacts
  <2>2. Base * Power[n] \in Nat /\ Base * Power[n] # 0
    BY <2>1, BaseFacts, 0 < Base, 0 < Power[n]
  <2> QED BY <2>1, <2>2
<1>3. Nat \subseteq P
  <2> HIDE DEF P
  <2> QED BY <1>1, <1>2, Induction
<1> QED BY <1>3

LEMMA PowerSum ==
  ASSUME NEW m \in Nat, NEW n \in Nat
  PROVE  Power[m + n] = Power[m] * Power[n]
<1> DEFINE P == {k \in Nat : Power[m + k] = Power[m] * Power[k]}
<1>0. Base \in Nat /\ Power[m] \in Nat
  BY BaseFacts, PowerType
<1>1. 0 \in P
  <2>1. m + 0 = m
    OBVIOUS
  <2> QED BY <1>0, <2>1, PowerFacts
<1>2. ASSUME NEW k \in Nat, k \in P PROVE k + 1 \in P
  <2>1. Power[k + 1] = Base * Power[k] /\ Power[k] \in Nat
    BY PowerFacts, PowerType
  <2>2. Power[m + (k + 1)] = Base * Power[m + k]
    <3>1. m + (k + 1) = (m + k) + 1 /\ m + k \in Nat
      OBVIOUS
    <3> QED BY <3>1, PowerFacts
  <2>3. Power[m + k] = Power[m] * Power[k]
    BY <1>2
  <2>4. Base * (Power[m] * Power[k]) = Power[m] * (Base * Power[k])
    BY <1>0, <2>1
  <2> QED BY <2>1, <2>2, <2>3, <2>4
<1>3. Nat \subseteq P
  <2> HIDE DEF P
  <2> QED BY <1>1, <1>2, Induction
<1> QED BY <1>3

-----------------------------------------------------------------------------
(* Strings of n bytes.                                                     *)
Str(n) == [1 .. n -> Byte]

LEMMA StrFacts ==
  ASSUME NEW n \in Nat, NEW p \in Str(n)
  PROVE  /\ p \in Seq(Byte) /\ Len(p) = n
         /\ \A i \in 1 .. n : p[i] \in Byte
  BY DEF Str

LEMMA Strings ==
  ASSUME NEW p \in Seq(Byte)
  PROVE  p \in Str(Len(p)) /\ Len(p) \in Nat
  BY LenProperties DEF Str

LEMMA SameStr ==
  ASSUME NEW n \in Nat, NEW p \in Str(n), NEW q \in Str(n),
         \A i \in 1 .. n : p[i] = q[i]
  PROVE  p = q
  BY DEF Str

LEMMA BackToFront ==
  ASSUME NEW n \in Nat, NEW p \in Str(n)
  PROVE  /\ Reverse(p) \in Str(n)
         /\ \A i \in 1 .. n : Reverse(p)[i] = p[n - i + 1]
<1>1. Len(p) = n /\ \A i \in 1 .. n : p[i] \in Byte
  BY StrFacts
<1>2. Reverse(p) = [i \in 1 .. n |-> p[(n - i) + 1]]
  BY <1>1 DEF Reverse
<1>3. \A i \in 1 .. n : (n - i) + 1 \in 1 .. n
  OBVIOUS
<1> QED BY <1>1, <1>2, <1>3 DEF Str

(* c is p, which has m bytes, and then q, which has n.                     *)
Side(c, p, m, q, n) ==
  /\ \A i \in 1 .. m : c[i] = p[i]
  /\ \A i \in 1 .. n : c[m + i] = q[i]

LEMMA Joined ==
  ASSUME NEW m \in Nat, NEW n \in Nat, NEW p \in Str(m), NEW q \in Str(n),
         NEW k \in Nat, k = m + n
  PROVE  p \o q \in Str(k) /\ Side(p \o q, p, m, q, n)
<1>1. p \in Seq(Byte) /\ Len(p) = m /\ q \in Seq(Byte) /\ Len(q) = n
  BY StrFacts
<1>2. p \o q \in Seq(Byte)
  BY <1>1
<1>3. Len(p \o q) = k
  BY <1>1
<1>4. p \o q \in Str(k)
  BY <1>2, <1>3, Strings
<1> QED BY <1>1, <1>4 DEF Side

LEMMA Cut ==
  ASSUME NEW n \in Nat, NEW p \in Str(n), NEW a \in 1 .. n + 1, NEW b \in a - 1 .. n,
         NEW k \in Nat, k = b - a + 1
  PROVE  /\ SubSeq(p, a, b) \in Str(k)
         /\ \A i \in 1 .. k : SubSeq(p, a, b)[i] = p[a + i - 1]
<1>1. \A i \in a .. b : p[i] \in Byte
  BY StrFacts
<1>2. /\ SubSeq(p, a, b) \in Seq(Byte)
      /\ Len(SubSeq(p, a, b)) = IF a <= b THEN b - a + 1 ELSE 0
      /\ \A i \in 1 .. b - a + 1 : SubSeq(p, a, b)[i] = p[a + i - 1]
  BY <1>1, SubSeqProperties
<1>3. Len(SubSeq(p, a, b)) = k
  BY <1>2
<1> QED BY <1>2, <1>3, Strings

-----------------------------------------------------------------------------
(* A word, digit by digit: w is the running value over p.                  *)
Running(w, p, n) ==
  w = [i \in 0 .. n |-> IF i = 0 THEN 0 ELSE w[i - 1] * Base + p[i]]

LEMMA RunningExists ==
  ASSUME NEW p
  PROVE  \A n \in Nat : \E w : Running(w, p, n)
<1> DEFINE P == {n \in Nat : \E w : Running(w, p, n)}
<1>1. 0 \in P
  <2>1. Running([k \in 0 .. 0 |-> 0], p, 0)
    BY DEF Running
  <2> QED BY <2>1
<1>2. ASSUME NEW n \in Nat, n \in P PROVE n + 1 \in P
  <2>1. PICK w : Running(w, p, n)
    BY <1>2
  <2> DEFINE v == [k \in 0 .. n + 1 |-> IF k = n + 1 THEN w[n] * Base + p[n + 1] ELSE w[k]]
             u == [k \in 0 .. n + 1 |-> IF k = 0 THEN 0 ELSE v[k - 1] * Base + p[k]]
  <2>2. ASSUME NEW k \in 0 .. n + 1
        PROVE  v[k] = IF k = 0 THEN 0 ELSE v[k - 1] * Base + p[k]
    <3>1. CASE k = n + 1
      BY <3>1
    <3>2. CASE k # n + 1
      BY <2>1, <3>2 DEF Running
    <3> QED BY <3>1, <3>2
  <2>3. v = u
    BY <2>2
  <2> HIDE DEF v
  <2>4. n + 1 \in Nat /\ Running(v, p, n + 1)
    BY <2>3 DEF Running
  <2> QED BY <2>4
<1>3. Nat \subseteq P
  <2> HIDE DEF P
  <2> QED BY <1>1, <1>2, Induction
<1> QED BY <1>3

LEMMA RunningSame ==
  ASSUME NEW p, NEW q, NEW m \in Nat, NEW n \in Nat, NEW k \in 0 .. m, k <= n,
         \A i \in 1 .. k : p[i] = q[i],
         NEW w, NEW v, Running(w, p, m), Running(v, q, n)
  PROVE  w[k] = v[k]
<1> DEFINE P == {j \in Nat : j <= k => w[j] = v[j]}
<1>1. 0 \in P
  BY DEF Running
<1>2. ASSUME NEW j \in Nat, j \in P PROVE j + 1 \in P
  <2> SUFFICES ASSUME j + 1 <= k PROVE w[j + 1] = v[j + 1]
    OBVIOUS
  <2>1. w[j] = v[j] /\ p[j + 1] = q[j + 1]
    BY <1>2
  <2>2. w[j + 1] = w[j] * Base + p[j + 1]
    BY DEF Running
  <2>3. v[j + 1] = v[j] * Base + q[j + 1]
    BY DEF Running
  <2> QED BY <2>1, <2>2, <2>3
<1>3. Nat \subseteq P
  <2> HIDE DEF P
  <2> QED BY <1>1, <1>2, Induction
<1> QED BY <1>3

LEMMA BeWordRuns ==
  ASSUME NEW n \in Nat, NEW p \in Str(n), NEW m \in Nat, n <= m,
         NEW q, \A i \in 1 .. n : p[i] = q[i],
         NEW w, Running(w, q, m)
  PROVE  BeWord(p) = w[n]
<1>1. Len(p) = n
  BY StrFacts
<1> DEFINE v == CHOOSE v : Running(v, p, n)
<1>2. Running(v, p, n)
  <2>1. \E u : Running(u, p, n)
    BY RunningExists
  <2> QED BY <2>1
<1>3. BeWord(p) = v[n]
  BY <1>1 DEF BeWord, Running
<1> HIDE DEF v
<1>4. v[n] = w[n]
  BY <1>2, RunningSame
<1> QED BY <1>3, <1>4

Leading(p, n) == [i \in 1 .. n |-> p[i]]

LEMMA BeWordEmpty ==
  ASSUME NEW p \in Str(0)
  PROVE  BeWord(p) = 0
<1>1. PICK w : Running(w, p, 0)
  BY RunningExists
<1>2. BeWord(p) = w[0]
  BY <1>1, BeWordRuns
<1> QED BY <1>1, <1>2 DEF Running

LEMMA BeWordStep ==
  ASSUME NEW n \in Nat, NEW p \in Str(n + 1)
  PROVE  /\ Leading(p, n) \in Str(n)
         /\ p[n + 1] \in Byte
         /\ BeWord(p) = BeWord(Leading(p, n)) * Base + p[n + 1]
<1>1. PICK w : Running(w, p, n + 1)
  BY RunningExists
<1>2. Leading(p, n) \in Str(n) /\ p[n + 1] \in Byte /\ \A i \in 1 .. n : Leading(p, n)[i] = p[i]
  BY DEF Leading, Str
<1>3. BeWord(p) = w[n + 1]
  BY <1>1, BeWordRuns
<1>4. BeWord(Leading(p, n)) = w[n]
  <2>1. n + 1 \in Nat /\ n <= n + 1
    OBVIOUS
  <2> QED BY <1>1, <1>2, <2>1, BeWordRuns
<1>5. w[n + 1] = w[n] * Base + p[n + 1]
  BY <1>1 DEF Running
<1> QED BY <1>2, <1>3, <1>4, <1>5

(* n bytes are a number of n digits ...                                    *)
LEMMA WordBound == \A n \in Nat : \A p \in Str(n) : BeWord(p) \in 0 .. Power[n] - 1
<1> DEFINE P == {n \in Nat : \A p \in Str(n) : BeWord(p) \in 0 .. Power[n] - 1}
<1>1. 0 \in P
  BY BeWordEmpty, PowerFacts
<1>2. ASSUME NEW n \in Nat, n \in P PROVE n + 1 \in P
  <2> SUFFICES ASSUME NEW p \in Str(n + 1) PROVE BeWord(p) \in 0 .. Power[n + 1] - 1
    OBVIOUS
  <2> DEFINE q == BeWord(Leading(p, n))
             r == p[n + 1]
  <2>1. q \in 0 .. Power[n] - 1 /\ r \in 0 .. Base - 1 /\ BeWord(p) = q * Base + r
    BY <1>2, BeWordStep DEF Byte
  <2> HIDE DEF q, r
  <2>2. q * Base + r \in 0 .. Power[n] * Base - 1
    BY <2>1, BaseFacts, PowerType, DigitsBound
  <2>3. Power[n + 1] = Power[n] * Base
    BY PowerFacts, PowerType, BaseFacts
  <2> QED BY <2>1, <2>2, <2>3
<1>3. Nat \subseteq P
  <2> HIDE DEF P
  <2> QED BY <1>1, <1>2, Induction
<1> QED BY <1>3

(* ... that names them.                                                    *)
LEMMA WordNames ==
  \A n \in Nat : \A p, q \in Str(n) : BeWord(p) = BeWord(q) => p = q
<1> DEFINE P == {n \in Nat : \A p, q \in Str(n) : BeWord(p) = BeWord(q) => p = q}
<1>1. 0 \in P
  BY SameStr
<1>2. ASSUME NEW n \in Nat, n \in P PROVE n + 1 \in P
  <2> SUFFICES ASSUME NEW p \in Str(n + 1), NEW q \in Str(n + 1), BeWord(p) = BeWord(q)
               PROVE  p = q
    OBVIOUS
  <2> DEFINE u == BeWord(Leading(p, n))
             v == BeWord(Leading(q, n))
             r == p[n + 1]
             s == q[n + 1]
  <2>1. /\ Leading(p, n) \in Str(n) /\ Leading(q, n) \in Str(n)
        /\ u \in Nat /\ v \in Nat /\ r \in 0 .. Base - 1 /\ s \in 0 .. Base - 1
        /\ u * Base + r = v * Base + s
    <3>1. BeWord(p) = u * Base + r /\ Leading(p, n) \in Str(n) /\ r \in 0 .. Base - 1
      BY BeWordStep DEF Byte
    <3>2. BeWord(q) = v * Base + s /\ Leading(q, n) \in Str(n) /\ s \in 0 .. Base - 1
      BY BeWordStep DEF Byte
    <3>3. u \in Nat /\ v \in Nat
      BY <3>1, <3>2, WordBound
    <3> QED BY <3>1, <3>2, <3>3
  <2>2. u = v /\ r = s
    <3> HIDE DEF u, v, r, s
    <3> QED BY <2>1, BaseFacts, DigitsCompare
  <2>3. Leading(p, n) = Leading(q, n)
    BY <1>2, <2>1, <2>2
  <2>4. \A i \in 1 .. n : p[i] = q[i]
    BY <2>3 DEF Leading
  <2>5. \A i \in 1 .. n + 1 : p[i] = q[i]
    BY <2>2, <2>4
  <2> QED BY <2>5 DEF Str
<1>3. Nat \subseteq P
  <2> HIDE DEF P
  <2> QED BY <1>1, <1>2, Induction
<1> QED BY <1>3

-----------------------------------------------------------------------------
(* The bytes of a number.                                                  *)
LEMMA SmallRemainder ==
  ASSUME NEW b \in Nat \ {0}, NEW r \in 0 .. b - 1
  PROVE  r % b = r /\ r \div b = 0
<1>1. 0 * b + r = r
  OBVIOUS
<1> QED BY <1>1, TwoDigits

LEMMA BytesType ==
  ASSUME NEW n \in Nat, NEW v \in Nat
  PROVE  Bytes(v, n) \in Str(n)
<1>1. ASSUME NEW i \in 1 .. n PROVE (v \div Power[n - i]) % Base \in Byte
  <2>1. n - i \in Nat
    OBVIOUS
  <2>2. Power[n - i] \in Nat \ {0}
    BY <2>1, PowerType
  <2>3. v \div Power[n - i] \in Nat
    BY <2>2, Division
  <2> QED BY <2>3, BaseFacts, Division DEF Byte
<1> QED BY <1>1 DEF Bytes, Str

LEMMA BytesStep ==
  ASSUME NEW n \in Nat, NEW v \in Nat
  PROVE  /\ Leading(Bytes(v, n + 1), n) = Bytes(v \div Base, n)
         /\ Bytes(v, n + 1)[n + 1] = v % Base
<1>1. ASSUME NEW i \in 1 .. n
      PROVE  (v \div Power[n + 1 - i]) % Base = ((v \div Base) \div Power[n - i]) % Base
  <2>1. n - i \in Nat /\ n + 1 - i = (n - i) + 1
    OBVIOUS
  <2>2. Power[n - i] \in Nat \ {0} /\ Power[(n - i) + 1] = Base * Power[n - i]
    BY <2>1, PowerType, PowerFacts
  <2>3. Power[n + 1 - i] = Power[n - i] * Base
    BY <2>1, <2>2, BaseFacts
  <2>4. (v \div Base) \div Power[n - i] = v \div (Power[n - i] * Base)
    BY <2>2, BaseFacts, ShiftTwice
  <2> QED BY <2>3, <2>4
<1>2. Leading(Bytes(v, n + 1), n) = [i \in 1 .. n |-> (v \div Power[n + 1 - i]) % Base]
  BY DEF Leading, Bytes
<1>3. Leading(Bytes(v, n + 1), n) = Bytes(v \div Base, n)
  BY <1>1, <1>2 DEF Bytes
<1>4. Bytes(v, n + 1)[n + 1] = (v \div Power[0]) % Base
  <2>1. n + 1 - (n + 1) = 0
    OBVIOUS
  <2> QED BY <2>1 DEF Bytes
<1>5. v \div Power[0] = v
  BY PowerFacts
<1> QED BY <1>3, <1>4, <1>5

LEMMA WordOfBytes ==
  ASSUME NEW n \in Nat, NEW v \in Nat
  PROVE  BeWord(Bytes(v, n)) = v % Power[n]
<1> DEFINE P == {k \in Nat : \A u \in Nat : BeWord(Bytes(u, k)) = u % Power[k]}
<1>1. 0 \in P
  <2> SUFFICES ASSUME NEW u \in Nat PROVE BeWord(Bytes(u, 0)) = u % Power[0]
    OBVIOUS
  <2>1. BeWord(Bytes(u, 0)) = 0
    BY BytesType, BeWordEmpty
  <2>2. u % 1 = 0
    OBVIOUS
  <2> QED BY <2>1, <2>2, PowerFacts
<1>2. ASSUME NEW k \in Nat, k \in P PROVE k + 1 \in P
  <2> SUFFICES ASSUME NEW u \in Nat PROVE BeWord(Bytes(u, k + 1)) = u % Power[k + 1]
    OBVIOUS
  <2>1. Bytes(u, k + 1) \in Str(k + 1)
    BY BytesType
  <2>2. BeWord(Bytes(u, k + 1)) = BeWord(Bytes(u \div Base, k)) * Base + (u % Base)
    BY <2>1, BeWordStep, BytesStep
  <2>3. u \div Base \in Nat
    BY BaseFacts, Division
  <2>4. BeWord(Bytes(u \div Base, k)) = (u \div Base) % Power[k]
    BY <1>2, <2>3
  <2>5. Power[k] \in Nat \ {0} /\ Power[k + 1] = Power[k] * Base
    BY PowerType, PowerFacts, BaseFacts
  <2>6. ((u \div Base) % Power[k]) * Base + (u % Base) = u % (Power[k] * Base)
    BY <2>5, BaseFacts, ShiftTwice
  <2> QED BY <2>2, <2>4, <2>5, <2>6
<1>3. Nat \subseteq P
  <2> HIDE DEF P
  <2> QED BY <1>1, <1>2, Induction
<1> QED BY <1>3

(* A number and its bytes are the same thing.                              *)
LEMMA BytesInverse ==
  ASSUME NEW n \in Nat
  PROVE  /\ \A v \in 0 .. Power[n] - 1 : BeWord(Bytes(v, n)) = v
         /\ \A p \in Str(n) : Bytes(BeWord(p), n) = p
<1>1. Power[n] \in Nat \ {0}
  BY PowerType
<1>2. ASSUME NEW v \in 0 .. Power[n] - 1 PROVE BeWord(Bytes(v, n)) = v
  <2>1. v \in Nat /\ v % Power[n] = v
    BY <1>1, SmallRemainder
  <2> QED BY <2>1, WordOfBytes
<1>3. ASSUME NEW p \in Str(n) PROVE Bytes(BeWord(p), n) = p
  <2>1. BeWord(p) \in 0 .. Power[n] - 1
    BY WordBound
  <2>2. BeWord(Bytes(BeWord(p), n)) = BeWord(p)
    BY <1>2, <2>1
  <2>3. BeWord(p) \in Nat
    BY <1>1, <2>1
  <2>4. Bytes(BeWord(p), n) \in Str(n)
    BY <2>3, BytesType
  <2> QED BY <2>2, <2>4, WordNames
<1> QED BY <1>2, <1>3

(* Words side by side.                                                     *)
LEMMA WordJoined ==
  ASSUME NEW m \in Nat, NEW n \in Nat, NEW p \in Str(m), NEW q \in Str(n)
  PROVE  BeWord(p \o q) = BeWord(p) * Power[n] + BeWord(q)
<1> DEFINE P == {k \in Nat : \A r \in Str(k) :
                   BeWord(p \o r) = BeWord(p) * Power[k] + BeWord(r)}
<1>0. BeWord(p) \in Nat
  BY WordBound, PowerType
<1>1. 0 \in P
  <2> SUFFICES ASSUME NEW r \in Str(0)
               PROVE  BeWord(p \o r) = BeWord(p) * Power[0] + BeWord(r)
    OBVIOUS
  <2> DEFINE c == p \o r
  <2>1. 0 \in Nat /\ m = m + 0
    OBVIOUS
  <2>2. c \in Str(m) /\ Side(c, p, m, r, 0)
    BY <2>1, Joined
  <2> HIDE DEF c
  <2>3. c = p
    BY <2>2, SameStr DEF Side
  <2>4. BeWord(r) = 0 /\ Power[0] = 1
    BY BeWordEmpty, PowerFacts
  <2>5. BeWord(c) = BeWord(p) * Power[0] + BeWord(r)
    BY <1>0, <2>3, <2>4
  <2> QED BY <2>5 DEF c
<1>2. ASSUME NEW k \in Nat, k \in P PROVE k + 1 \in P
  <2> SUFFICES ASSUME NEW r \in Str(k + 1)
               PROVE  BeWord(p \o r) = BeWord(p) * Power[k + 1] + BeWord(r)
    OBVIOUS
  <2> DEFINE f == Leading(r, k)
             d == r[k + 1]
             w == BeWord(p)
             x == BeWord(f)
             h == Power[k]
             c == p \o r
             e == p \o f
  <2>1. f \in Str(k) /\ d \in Byte /\ BeWord(r) = x * Base + d
    BY BeWordStep
  <2>2. PICK j \in Nat : j = m + k
    OBVIOUS
  <2>3. c \in Str(j + 1) /\ Side(c, p, m, r, k + 1)
    <3>1. k + 1 \in Nat /\ j + 1 \in Nat /\ j + 1 = m + (k + 1)
      BY <2>2
    <3> QED BY <3>1, Joined
  <2>4. e \in Str(j) /\ Side(e, p, m, f, k)
    <3> HIDE DEF f
    <3> QED BY <2>1, <2>2, Joined
  <2> HIDE DEF c, e
  <2>5. Leading(c, j) = e
    <3>1. Leading(c, j) \in Str(j)
      BY <2>3, BeWordStep
    <3>2. ASSUME NEW i \in 1 .. j PROVE Leading(c, j)[i] = e[i]
      <4>1. Leading(c, j)[i] = c[i]
        BY DEF Leading
      <4>2. CASE i \in 1 .. m
        BY <2>3, <2>4, <4>1, <4>2 DEF Side
      <4>3. CASE i \notin 1 .. m
        <5>1. PICK l \in 1 .. k : i = m + l
          <6>1. i - m \in 1 .. k /\ i = m + (i - m)
            BY <2>2, <4>3
          <6> QED BY <6>1
        <5>2. l \in 1 .. k + 1 /\ f[l] = r[l]
          BY DEF Leading
        <5> QED BY <2>3, <2>4, <4>1, <5>1, <5>2 DEF Side
      <4> QED BY <4>2, <4>3
    <3> QED BY <2>4, <3>1, <3>2, SameStr
  <2>6. c[j + 1] = d
    <3>1. k + 1 \in 1 .. k + 1 /\ m + (k + 1) = j + 1
      BY <2>2
    <3> QED BY <2>3, <3>1 DEF Side
  <2>7. BeWord(c) = BeWord(e) * Base + d
    <3>1. BeWord(c) = BeWord(Leading(c, j)) * Base + c[j + 1]
      BY <2>3, BeWordStep
    <3> QED BY <2>5, <2>6, <3>1
  <2>8. BeWord(e) = w * h + x
    BY <1>2, <2>1 DEF e
  <2>9. h \in Nat /\ x \in Nat /\ d \in Nat /\ Power[k + 1] = Base * h /\ Base \in Nat
    BY <2>1, WordBound, PowerType, PowerFacts, BaseFacts DEF Byte
  <2>10. w \in Nat
    BY <1>0
  <2> HIDE DEF f, d, w, x, h
  <2>11. (w * h + x) * Base + d = w * (Base * h) + (x * Base + d)
    BY <2>9, <2>10
  <2> QED BY <2>1, <2>7, <2>8, <2>9, <2>11 DEF c, w
<1>3. Nat \subseteq P
  <2> HIDE DEF P
  <2> QED BY <1>1, <1>2, Induction
<1> QED BY <1>3

LEMMA ReverseJoined ==
  ASSUME NEW m \in Nat, NEW n \in Nat, NEW p \in Str(m), NEW q \in Str(n)
  PROVE  Reverse(p \o q) = Reverse(q) \o Reverse(p)
<1>0. PICK k \in Nat : k = m + n /\ k = n + m
  BY m + n = n + m
<1> DEFINE c == p \o q
           rp == Reverse(p)
           rq == Reverse(q)
           e == rq \o rp
<1>1. c \in Str(k) /\ Side(c, p, m, q, n)
  BY <1>0, Joined
<1>2. /\ Reverse(c) \in Str(k)
      /\ \A i \in 1 .. k : Reverse(c)[i] = c[k - i + 1]
  <2> HIDE DEF c
  <2> QED BY <1>1, BackToFront
<1>3. /\ rp \in Str(m) /\ \A i \in 1 .. m : rp[i] = p[m - i + 1]
      /\ rq \in Str(n) /\ \A i \in 1 .. n : rq[i] = q[n - i + 1]
  BY BackToFront
<1> HIDE DEF rp, rq
<1>4. e \in Str(k) /\ Side(e, rq, n, rp, m)
  BY <1>0, <1>3, Joined
<1> HIDE DEF c, e
<1>5. ASSUME NEW i \in 1 .. k PROVE Reverse(c)[i] = e[i]
  <2>1. Reverse(c)[i] = c[k - i + 1]
    BY <1>2
  <2>2. CASE i \in 1 .. n
    <3>1. n - i + 1 \in 1 .. n /\ m + (n - i + 1) = k - i + 1
      BY <1>0, <2>2
    <3>2. c[k - i + 1] = q[n - i + 1]
      BY <1>1, <3>1 DEF Side
    <3> QED BY <1>3, <1>4, <2>1, <2>2, <3>2 DEF Side
  <2>3. CASE i \notin 1 .. n
    <3>1. PICK l \in 1 .. m : i = n + l
      <4>1. i - n \in 1 .. m /\ i = n + (i - n)
        BY <1>0, <2>3
      <4> QED BY <4>1
    <3>2. m - l + 1 \in 1 .. m /\ m - l + 1 = k - i + 1
      BY <1>0, <3>1
    <3>3. c[k - i + 1] = p[m - l + 1]
      BY <1>1, <3>2 DEF Side
    <3> QED BY <1>3, <1>4, <2>1, <3>1, <3>3 DEF Side
  <2> QED BY <2>2, <2>3
<1> QED BY <1>2, <1>4, <1>5, SameStr DEF c, e, rp, rq

(* Words of little-endian bytes: the later half counts more.               *)
LEMMA LeJoined ==
  ASSUME NEW m \in Nat, NEW n \in Nat, NEW p \in Str(m), NEW q \in Str(n)
  PROVE  LeWord(p \o q) = LeWord(q) * Power[m] + LeWord(p)
<1>1. Reverse(p) \in Str(m) /\ Reverse(q) \in Str(n)
  BY BackToFront
<1>2. BeWord(Reverse(q) \o Reverse(p)) = BeWord(Reverse(q)) * Power[m] + BeWord(Reverse(p))
  BY <1>1, WordJoined
<1>3. Reverse(p \o q) = Reverse(q) \o Reverse(p)
  BY ReverseJoined
<1> QED BY <1>2, <1>3 DEF LeWord

LEMMA LeBound ==
  ASSUME NEW n \in Nat, NEW p \in Str(n)
  PROVE  LeWord(p) \in 0 .. Power[n] - 1
  BY BackToFront, WordBound DEF LeWord

LEMMA ZeroWord ==
  ASSUME NEW n \in Nat
  PROVE  Zeros(n) \in Str(n) /\ BeWord(Zeros(n)) = 0 /\ LeWord(Zeros(n)) = 0
<1>1. Zeros(n) \in Str(n)
  BY BaseFacts DEF Zeros, Str, Byte
<1>2. ASSUME NEW i \in 1 .. n PROVE Bytes(0, n)[i] = 0
  <2>1. n - i \in Nat
    OBVIOUS
  <2>2. Power[n - i] \in Nat \ {0}
    BY <2>1, PowerType
  <2>3. 0 \div Power[n - i] = 0 /\ 0 % Base = 0
    BY <2>2, BaseFacts, SmallRemainder
  <2> QED BY <2>3 DEF Bytes
<1>3. Bytes(0, n) = Zeros(n)
  BY <1>1, <1>2, BytesType, SameStr DEF Zeros
<1>4. BeWord(Zeros(n)) = 0
  <2>1. Power[n] \in Nat \ {0}
    BY PowerType
  <2>2. 0 \in 0 .. Power[n] - 1
    BY <2>1
  <2> QED BY <1>3, <2>2, BytesInverse
<1>5. Reverse(Zeros(n)) = Zeros(n)
  BY <1>1, BackToFront, SameStr DEF Zeros
<1> QED BY <1>1, <1>4, <1>5 DEF LeWord

-----------------------------------------------------------------------------
(* The block, byte by byte: only its nonce depends on the nonce.           *)
LEMMA Lengths ==
  /\ Lane \in Nat \ {0} /\ AddressLen \in Nat /\ WordLen \in Nat /\ RateLen \in Nat
  /\ Lane = 2 * Half /\ AddressLen = 5 * Half /\ WordLen = 8 * Half /\ RateLen = 34 * Half
  BY BaseFacts DEF Lane, AddressLen, WordLen, RateLen

LEMMA OneByte == ASSUME NEW b \in Byte PROVE <<b>> \in Str(1)
  BY DEF Str

(* p \o q as a term of its own, so that the provers regroup terms.        *)
Then(p, q) == p \o q

LEMMA Together ==
  \A p, q, r \in Seq(Byte) :
    Then(p, q) \in Seq(Byte) /\ Then(Then(p, q), r) = Then(p, Then(q, r))
<1> SUFFICES ASSUME NEW p \in Seq(Byte), NEW q \in Seq(Byte), NEW r \in Seq(Byte)
             PROVE  p \o q \in Seq(Byte) /\ (p \o q) \o r = p \o (q \o r)
  BY DEF Then
<1>1. (p \o q) \o r = p \o (q \o r)
  BY SMTT(30), ConcatAssociative
<1> QED BY <1>1, ConcatProperties

(* What follows the nonce in the block.                                    *)
Rest(prev, anchor) ==
  prev \o (anchor \o (<<1>> \o (Zeros(5 * Half - 2) \o <<Base \div 2>>)))

LEMMA RestFacts ==
  ASSUME NEW prev \in Str(WordLen), NEW anchor \in Str(WordLen)
  PROVE  /\ Rest(prev, anchor) \in Str(21 * Half)
         /\ \A nonce \in Str(WordLen), address \in Str(AddressLen) :
              PaddedBlock(Message(address, nonce, prev, anchor)) =
                (address \o nonce) \o Rest(prev, anchor)
<1> DEFINE z == Zeros(5 * Half - 2)
           e == <<Base \div 2>>
           f == <<1>>
           ze == z \o e
           fze == f \o ze
           dfze == anchor \o fze
<1>1. /\ 5 * Half - 2 \in Nat /\ z \in Str(5 * Half - 2) /\ e \in Str(1) /\ f \in Str(1)
  <2>1. 5 * Half - 2 \in Nat
    BY BaseFacts
  <2>2. Base \div 2 \in Byte /\ 1 \in Byte
    <3>1. Base >= 2
      BY LanesAssumption
    <3> QED BY <3>1, BaseFacts DEF Byte
  <2> QED BY <2>1, <2>2, OneByte, ZeroWord
<1> HIDE DEF z, e, f
<1>2. ze \in Str(5 * Half - 1) /\ 5 * Half - 1 \in Nat
  <2>1. 1 \in Nat /\ 5 * Half - 1 \in Nat /\ 5 * Half - 1 = (5 * Half - 2) + 1
    BY BaseFacts
  <2> QED BY <1>1, <2>1, Joined
<1> HIDE DEF ze
<1>3. fze \in Str(5 * Half) /\ 5 * Half \in Nat
  BY <1>1, <1>2, BaseFacts, Joined
<1> HIDE DEF fze
<1>4. dfze \in Str(13 * Half) /\ 13 * Half \in Nat
  BY <1>3, Lengths, BaseFacts, Joined
<1> HIDE DEF dfze
<1>5. Rest(prev, anchor) \in Str(21 * Half)
  <2>1. 21 * Half \in Nat /\ 21 * Half = WordLen + 13 * Half
    BY Lengths, BaseFacts
  <2>2. prev \o dfze \in Str(21 * Half)
    BY <1>4, <2>1, Lengths, Joined
  <2> QED BY <2>2 DEF Rest, z, e, f, ze, fze, dfze
<1>6. ASSUME NEW nonce \in Str(WordLen), NEW address \in Str(AddressLen)
      PROVE  PaddedBlock(Message(address, nonce, prev, anchor)) =
               (address \o nonce) \o Rest(prev, anchor)
  <2> DEFINE x == address \o nonce
             y == x \o prev
             msg == y \o anchor
  <2>1. x \in Str(13 * Half) /\ 13 * Half \in Nat
    BY Lengths, BaseFacts, Joined
  <2> HIDE DEF x
  <2>2. y \in Str(21 * Half) /\ 21 * Half \in Nat
    BY <2>1, Lengths, BaseFacts, Joined
  <2> HIDE DEF y
  <2>3. msg \in Str(29 * Half) /\ 29 * Half \in Nat
    BY <2>2, Lengths, BaseFacts, Joined
  <2>4. Message(address, nonce, prev, anchor) = msg
    BY DEF Message, msg, x, y
  <2> HIDE DEF msg
  <2>5. PaddedBlock(msg) = ((msg \o f) \o z) \o e
    <3>1. Len(msg) = 29 * Half
      BY <2>3, StrFacts
    <3>2. RateLen - Len(msg) - 2 = 5 * Half - 2
      BY <3>1, Lengths, BaseFacts
    <3> QED BY <3>2 DEF PaddedBlock, z, e, f
  <2>6. /\ address \in Seq(Byte) /\ nonce \in Seq(Byte)
        /\ prev \in Seq(Byte) /\ anchor \in Seq(Byte)
        /\ f \in Seq(Byte) /\ z \in Seq(Byte) /\ e \in Seq(Byte)
    BY <1>1, Lengths, StrFacts
  <2>7. ((((((address \o nonce) \o prev) \o anchor) \o f) \o z) \o e)
          = (address \o nonce) \o (prev \o (anchor \o (f \o (z \o e))))
    <3>1. Then(Then(Then(Then(Then(Then(address, nonce), prev), anchor), f), z), e)
            = Then(Then(address, nonce), Then(prev, Then(anchor, Then(f, Then(z, e)))))
      <4> DEFINE ab == Then(address, nonce)
                 abc == Then(ab, prev)
                 abcd == Then(abc, anchor)
                 abcdf == Then(abcd, f)
                 yz == Then(z, e)
                 xyz == Then(f, yz)
                 wxyz == Then(anchor, xyz)
      <4>1. /\ ab \in Seq(Byte) /\ abc \in Seq(Byte)
            /\ abcd \in Seq(Byte) /\ abcdf \in Seq(Byte)
            /\ yz \in Seq(Byte) /\ xyz \in Seq(Byte) /\ wxyz \in Seq(Byte)
        BY Zenon, <2>6, Together
      <4> HIDE DEF ab, abc, abcd, abcdf, yz, xyz, wxyz
      <4>2. Then(Then(abcdf, z), e) = Then(abcdf, Then(z, e))
        BY <2>6, <4>1, Together
      <4>3. Then(Then(abcd, f), yz) = Then(abcd, Then(f, yz))
        BY <2>6, <4>1, Together
      <4>4. Then(Then(abc, anchor), xyz) = Then(abc, Then(anchor, xyz))
        BY <2>6, <4>1, Together
      <4>5. Then(Then(ab, prev), wxyz) = Then(ab, Then(prev, wxyz))
        BY <2>6, <4>1, Together
      <4> QED BY <4>2, <4>3, <4>4, <4>5 DEF ab, abc, abcd, abcdf, yz, xyz, wxyz
    <3> QED BY Zenon, <3>1 DEF Then
  <2>8. PaddedBlock(Message(address, nonce, prev, anchor)) =
          ((((((address \o nonce) \o prev) \o anchor) \o f) \o z) \o e)
    BY Zenon, <2>4, <2>5 DEF x, y, msg
  <2>9. Rest(prev, anchor) = prev \o (anchor \o (f \o (z \o e)))
    BY Zenon DEF Rest, z, e, f
  <2> QED BY Zenon, <2>7, <2>8, <2>9
<1> QED BY <1>5, <1>6

Block(address, nonce, prev, anchor) == PaddedBlock(Message(address, nonce, prev, anchor))

LEMMA BlockBytes ==
  ASSUME NEW address \in Str(AddressLen), NEW nonce \in Str(WordLen),
         NEW prev \in Str(WordLen), NEW anchor \in Str(WordLen),
         NEW b, b = Block(address, nonce, prev, anchor)
  PROVE  /\ b \in Str(34 * Half)
         /\ \A i \in 1 .. 5 * Half : b[i] = address[i]
         /\ \A i \in 1 .. 8 * Half : b[5 * Half + i] = nonce[i]
         /\ \A i \in 1 .. 21 * Half : b[13 * Half + i] = Rest(prev, anchor)[i]
<1> DEFINE x == address \o nonce
           t == Rest(prev, anchor)
           c == x \o t
<1>1. /\ 13 * Half \in Nat /\ 13 * Half = AddressLen + WordLen
      /\ 21 * Half \in Nat /\ 34 * Half \in Nat /\ 34 * Half = 13 * Half + 21 * Half
  BY Lengths, BaseFacts
<1>2. x \in Str(13 * Half) /\ Side(x, address, AddressLen, nonce, WordLen)
  BY <1>1, Lengths, Joined
<1>3. t \in Str(21 * Half)
  BY RestFacts
<1> HIDE DEF x, t
<1>4. c \in Str(34 * Half) /\ Side(c, x, 13 * Half, t, 21 * Half)
  BY <1>1, <1>2, <1>3, Joined
<1>5. b = c
  BY RestFacts DEF Block, x, t
<1> HIDE DEF c
<1>6. ASSUME NEW i \in 1 .. 5 * Half PROVE b[i] = address[i]
  <2>1. i \in 1 .. 13 * Half
    BY BaseFacts
  <2> QED BY <1>2, <1>4, <1>5, <2>1, Lengths DEF Side
<1>7. ASSUME NEW i \in 1 .. 8 * Half PROVE b[5 * Half + i] = nonce[i]
  <2>1. 5 * Half + i \in 1 .. 13 * Half
    BY BaseFacts
  <2>2. c[5 * Half + i] = x[5 * Half + i]
    BY <1>4, <2>1 DEF Side
  <2>3. x[5 * Half + i] = nonce[i]
    BY <1>2, Lengths DEF Side
  <2> QED BY <1>5, <2>2, <2>3
<1>8. ASSUME NEW i \in 1 .. 21 * Half PROVE b[13 * Half + i] = t[i]
  BY <1>4, <1>5 DEF Side
<1> QED BY <1>4, <1>5, <1>6, <1>7, <1>8 DEF t

(* A lane of 2 * Half bytes, from its two halves.                          *)
LEMMA LaneOfHalves ==
  ASSUME NEW n \in Nat, NEW b \in Str(n), NEW a \in Nat, a + 2 * Half <= n,
         NEW p \in Str(Half), NEW q \in Str(Half),
         \A i \in 1 .. Half : b[a + i] = p[i],
         \A i \in 1 .. Half : b[a + Half + i] = q[i]
  PROVE  LeWord(SubSeq(b, a + 1, a + 2 * Half)) = LeWord(q) * HalfLane + LeWord(p)
<1> DEFINE c == SubSeq(b, a + 1, a + 2 * Half)
           e == p \o q
<1>1. /\ Half \in Nat /\ 2 * Half \in Nat /\ 2 * Half = Half + Half
      /\ a + 1 \in 1 .. n + 1 /\ a + 2 * Half \in (a + 1) - 1 .. n
      /\ 2 * Half = (a + 2 * Half) - (a + 1) + 1
  BY BaseFacts
<1>2. /\ c \in Str(2 * Half)
      /\ \A i \in 1 .. 2 * Half : c[i] = b[(a + 1) + i - 1]
  BY <1>1, Cut
<1>3. e \in Str(2 * Half) /\ Side(e, p, Half, q, Half)
  BY <1>1, Joined
<1> HIDE DEF c, e
<1>4. ASSUME NEW i \in 1 .. 2 * Half PROVE c[i] = e[i]
  <2>1. c[i] = b[a + i]
    <3>1. (a + 1) + i - 1 = a + i
      OBVIOUS
    <3> QED BY <1>2, <3>1
  <2>2. CASE i \in 1 .. Half
    BY <1>3, <2>1, <2>2 DEF Side
  <2>3. CASE i \notin 1 .. Half
    <3>1. PICK l \in 1 .. Half : i = Half + l
      <4>1. i - Half \in 1 .. Half /\ i = Half + (i - Half)
        BY <1>1, <2>3
      <4> QED BY <4>1
    <3>2. a + i = a + Half + l
      BY <1>1, <3>1
    <3>3. e[i] = q[l]
      BY <1>3, <3>1 DEF Side
    <3> QED BY <2>1, <3>1, <3>2, <3>3
  <2> QED BY <2>2, <2>3
<1>5. c = e
  BY <1>1, <1>2, <1>3, <1>4, SameStr
<1>6. LeWord(e) = LeWord(q) * HalfLane + LeWord(p)
  BY <1>1, LeJoined DEF e, HalfLane
<1> QED BY <1>5, <1>6 DEF c

(* The 17 lanes of a block, each a number of Lane bytes.                   *)
LaneSet == [1 .. 17 -> 0 .. Power[Lane] - 1]

LEMMA LanesType ==
  ASSUME NEW address \in Str(AddressLen), NEW nonce \in Str(WordLen),
         NEW prev \in Str(WordLen), NEW anchor \in Str(WordLen)
  PROVE  BuildLanes(address, nonce, prev, anchor) \in LaneSet
<1> DEFINE b == Block(address, nonce, prev, anchor)
<1>1. b \in Str(34 * Half) /\ 34 * Half \in Nat /\ 2 * Half \in Nat
  BY BlockBytes, BaseFacts
<1> HIDE DEF b
<1>2. ASSUME NEW i \in 1 .. 17
      PROVE  LeWord(SubSeq(b, Lane * (i - 1) + 1, Lane * i)) \in 0 .. Power[Lane] - 1
  <2> DEFINE j == Lane * (i - 1)
             l == Lane * i
             c == SubSeq(b, j + 1, l)
  <2>1. j \in Nat /\ l = j + Lane /\ l <= 34 * Half /\ Lane \in Nat
    <3>1. /\ Lane = 2 * Half /\ Half \in Nat
          /\ i \in {1, 2, 3, 4, 5, 6, 7, 8, 9, 10, 11, 12, 13, 14, 15, 16, 17}
      BY Lengths, BaseFacts
    <3> QED BY <3>1
  <2> HIDE DEF j, l
  <2>2. j + 1 \in 1 .. 34 * Half + 1 /\ l \in (j + 1) - 1 .. 34 * Half
        /\ Lane = l - (j + 1) + 1
    BY <1>1, <2>1, Lengths, BaseFacts
  <2>3. c \in Str(Lane)
    BY <1>1, <2>1, <2>2, Cut
  <2> HIDE DEF c
  <2>4. LeWord(c) \in 0 .. Power[Lane] - 1
    BY <2>1, <2>3, LeBound
  <2> QED BY <2>4 DEF c, j, l
<1> QED BY <1>2 DEF BuildLanes, Block, LaneSet, b

(* The lanes the nonce's low bytes are in, and all the others.             *)
LEMMA LaneSix ==
  ASSUME NEW address \in Str(AddressLen), NEW nonce \in Str(WordLen),
         NEW prev \in Str(WordLen), NEW anchor \in Str(WordLen),
         NEW p \in Str(Half), NEW q \in Str(Half),
         \A i \in 1 .. Half : nonce[5 * Half + i] = p[i],
         \A i \in 1 .. Half : nonce[6 * Half + i] = q[i]
  PROVE  BuildLanes(address, nonce, prev, anchor)[6] = LeWord(q) * HalfLane + LeWord(p)
<1> DEFINE b == Block(address, nonce, prev, anchor)
<1>1. /\ b \in Str(34 * Half)
      /\ \A i \in 1 .. 8 * Half : b[5 * Half + i] = nonce[i]
  BY BlockBytes
<1>2. BuildLanes(address, nonce, prev, anchor)[6]
        = LeWord(SubSeq(b, Lane * (6 - 1) + 1, Lane * 6))
  BY DEF BuildLanes, Block
<1> HIDE DEF b
<1>3. /\ 34 * Half \in Nat /\ 10 * Half \in Nat /\ 10 * Half + 2 * Half <= 34 * Half
      /\ Lane * (6 - 1) + 1 = 10 * Half + 1 /\ Lane * 6 = 10 * Half + 2 * Half
  BY Lengths, BaseFacts
<1>4. ASSUME NEW i \in 1 .. Half PROVE b[10 * Half + i] = p[i]
  <2>1. 5 * Half + i \in 1 .. 8 * Half /\ 5 * Half + (5 * Half + i) = 10 * Half + i
    BY BaseFacts
  <2> QED BY <1>1, <2>1
<1>5. ASSUME NEW i \in 1 .. Half PROVE b[10 * Half + Half + i] = q[i]
  <2>1. /\ 6 * Half + i \in 1 .. 8 * Half
        /\ 5 * Half + (6 * Half + i) = 10 * Half + Half + i
    BY BaseFacts
  <2> QED BY <1>1, <2>1
<1>6. LeWord(SubSeq(b, 10 * Half + 1, 10 * Half + 2 * Half)) = LeWord(q) * HalfLane + LeWord(p)
  BY <1>1, <1>3, <1>4, <1>5, LaneOfHalves
<1> QED BY <1>2, <1>3, <1>6

LEMMA LaneSeven ==
  ASSUME NEW address \in Str(AddressLen), NEW nonce \in Str(WordLen),
         NEW prev \in Str(WordLen), NEW anchor \in Str(WordLen),
         NEW p \in Str(Half), NEW q \in Str(Half),
         \A i \in 1 .. Half : nonce[7 * Half + i] = p[i],
         \A i \in 1 .. Half : Rest(prev, anchor)[i] = q[i]
  PROVE  BuildLanes(address, nonce, prev, anchor)[7] = LeWord(q) * HalfLane + LeWord(p)
<1> DEFINE b == Block(address, nonce, prev, anchor)
<1>1. /\ b \in Str(34 * Half)
      /\ \A i \in 1 .. 8 * Half : b[5 * Half + i] = nonce[i]
      /\ \A i \in 1 .. 21 * Half : b[13 * Half + i] = Rest(prev, anchor)[i]
  BY BlockBytes
<1>2. BuildLanes(address, nonce, prev, anchor)[7]
        = LeWord(SubSeq(b, Lane * (7 - 1) + 1, Lane * 7))
  BY DEF BuildLanes, Block
<1> HIDE DEF b
<1>3. /\ 34 * Half \in Nat /\ 12 * Half \in Nat /\ 12 * Half + 2 * Half <= 34 * Half
      /\ Lane * (7 - 1) + 1 = 12 * Half + 1 /\ Lane * 7 = 12 * Half + 2 * Half
  BY Lengths, BaseFacts
<1>4. ASSUME NEW i \in 1 .. Half PROVE b[12 * Half + i] = p[i]
  <2>1. 7 * Half + i \in 1 .. 8 * Half /\ 5 * Half + (7 * Half + i) = 12 * Half + i
    BY BaseFacts
  <2> QED BY <1>1, <2>1
<1>5. ASSUME NEW i \in 1 .. Half PROVE b[12 * Half + Half + i] = q[i]
  <2>1. i \in 1 .. 21 * Half /\ 13 * Half + i = 12 * Half + Half + i
    BY BaseFacts
  <2> QED BY <1>1, <2>1
<1>6. LeWord(SubSeq(b, 12 * Half + 1, 12 * Half + 2 * Half)) = LeWord(q) * HalfLane + LeWord(p)
  BY <1>1, <1>3, <1>4, <1>5, LaneOfHalves
<1> QED BY <1>2, <1>3, <1>6

LEMMA OtherLanes ==
  ASSUME NEW address \in Str(AddressLen), NEW n \in Str(WordLen), NEW s \in Str(WordLen),
         NEW prev \in Str(WordLen), NEW anchor \in Str(WordLen),
         \A i \in 1 .. 6 * Half : n[i] = s[i],
         NEW l \in 1 .. 17, l # 6, l # 7
  PROVE  BuildLanes(address, n, prev, anchor)[l] = BuildLanes(address, s, prev, anchor)[l]
<1> DEFINE b == Block(address, n, prev, anchor)
           c == Block(address, s, prev, anchor)
           j == Lane * (l - 1)
           k == Lane * l
           x == SubSeq(b, j + 1, k)
           y == SubSeq(c, j + 1, k)
<1>1. /\ b \in Str(34 * Half)
      /\ \A i \in 1 .. 5 * Half : b[i] = address[i]
      /\ \A i \in 1 .. 8 * Half : b[5 * Half + i] = n[i]
      /\ \A i \in 1 .. 21 * Half : b[13 * Half + i] = Rest(prev, anchor)[i]
  BY BlockBytes
<1>2. /\ c \in Str(34 * Half)
      /\ \A i \in 1 .. 5 * Half : c[i] = address[i]
      /\ \A i \in 1 .. 8 * Half : c[5 * Half + i] = s[i]
      /\ \A i \in 1 .. 21 * Half : c[13 * Half + i] = Rest(prev, anchor)[i]
  BY BlockBytes
<1>3. /\ BuildLanes(address, n, prev, anchor)[l] = LeWord(x)
      /\ BuildLanes(address, s, prev, anchor)[l] = LeWord(y)
  BY DEF BuildLanes, Block
<1> HIDE DEF b, c
<1>4. /\ j \in Nat /\ k = j + Lane /\ k <= 34 * Half
      /\ k <= 10 * Half \/ j >= 14 * Half
  <2>1. Lane = 2 * Half /\ Half \in Nat
    BY Lengths, BaseFacts
  <2>2. CASE l < 6
    <3>1. l \in {1, 2, 3, 4, 5}
      BY <2>2
    <3> QED BY <2>1, <3>1
  <2>3. CASE l > 7
    <3>1. l \in {8, 9, 10, 11, 12, 13, 14, 15, 16, 17}
      BY <2>3
    <3> QED BY <2>1, <3>1
  <2> QED BY <2>2, <2>3
<1> HIDE DEF j, k
<1>5. ASSUME NEW i \in j + 1 .. k PROVE b[i] = c[i]
  <2>1. CASE i \in 1 .. 5 * Half
    BY <1>1, <1>2, <2>1
  <2>2. CASE i > 5 * Half /\ i <= 11 * Half
    <3>1. PICK m \in 1 .. 6 * Half : i = 5 * Half + m
      <4>1. i - 5 * Half \in 1 .. 6 * Half /\ i = 5 * Half + (i - 5 * Half)
        BY <1>4, <2>2, BaseFacts
      <4> QED BY <4>1
    <3>2. m \in 1 .. 8 * Half
      BY BaseFacts
    <3> QED BY <1>1, <1>2, <3>1, <3>2
  <2>3. CASE i > 13 * Half /\ i <= 34 * Half
    <3>1. PICK m \in 1 .. 21 * Half : i = 13 * Half + m
      <4>1. i - 13 * Half \in 1 .. 21 * Half /\ i = 13 * Half + (i - 13 * Half)
        BY <1>4, <2>3, BaseFacts
      <4> QED BY <4>1
    <3> QED BY <1>1, <1>2, <3>1
  <2> QED BY <1>4, <2>1, <2>2, <2>3, Lengths, BaseFacts
<1>6. /\ j + 1 \in 1 .. 34 * Half + 1 /\ k \in (j + 1) - 1 .. 34 * Half
      /\ Lane = k - (j + 1) + 1 /\ 34 * Half \in Nat /\ Lane \in Nat
  BY <1>4, Lengths, BaseFacts
<1>7. /\ x \in Str(Lane) /\ \A i \in 1 .. Lane : x[i] = b[(j + 1) + i - 1]
      /\ y \in Str(Lane) /\ \A i \in 1 .. Lane : y[i] = c[(j + 1) + i - 1]
  <2> DEFINE m == j + 1
             z == 34 * Half
  <2>1. m \in 1 .. z + 1 /\ k \in m - 1 .. z /\ Lane = k - m + 1 /\ z \in Nat
    BY <1>6
  <2> HIDE DEF m, z
  <2>2. b \in Str(z) /\ c \in Str(z)
    BY <1>1, <1>2 DEF z
  <2>3. /\ SubSeq(b, m, k) \in Str(Lane)
        /\ \A i \in 1 .. Lane : SubSeq(b, m, k)[i] = b[m + i - 1]
    BY <1>6, <2>1, <2>2, Cut
  <2>4. /\ SubSeq(c, m, k) \in Str(Lane)
        /\ \A i \in 1 .. Lane : SubSeq(c, m, k)[i] = c[m + i - 1]
    BY <1>6, <2>1, <2>2, Cut
  <2> QED BY <2>3, <2>4 DEF m
<1> HIDE DEF x, y
<1>8. ASSUME NEW i \in 1 .. Lane PROVE x[i] = y[i]
  <2>1. (j + 1) + i - 1 \in j + 1 .. k
    BY <1>4, <1>6
  <2> QED BY <1>5, <1>7, <2>1
<1>9. x = y
  BY <1>6, <1>7, <1>8, SameStr
<1> QED BY <1>3, <1>9

LEMMA Concatenated ==
  ASSUME NEW S, NEW p \in Seq(S), NEW q \in Seq(S), NEW m \in Nat, NEW n \in Nat,
         Len(p) = m, Len(q) = n
  PROVE  /\ p \o q \in Seq(S) /\ Len(p \o q) = m + n
         /\ Side(p \o q, p, m, q, n)
<1>1. p \o q \in Seq(S) /\ Len(p \o q) = m + n
  OBVIOUS
<1>2. \A i \in 1 .. m : (p \o q)[i] = p[i]
  OBVIOUS
<1>3. \A i \in 1 .. n : (p \o q)[m + i] = q[i]
  OBVIOUS
<1> QED BY <1>1, <1>2, <1>3 DEF Side

LEMMA SplicedLanes ==
  ASSUME NEW base \in LaneSet, NEW e \in LaneSet,
         \A i \in 1 .. 17 : i # 6 /\ i # 7 => e[i] = base[i]
  PROVE  Splice(base, e[6], e[7]) = e
<1> DEFINE s5 == e[6]
           s6 == e[7]
           a == SubSeq(base, 1, 5)
           m == <<s5, s6>>
           z == SubSeq(base, 8, 17)
<1>1. \A i \in 1 .. 17 : base[i] \in Nat /\ e[i] \in Nat
  <2>1. Power[Lane] \in Nat
    BY Lengths, PowerType
  <2> QED BY <2>1 DEF LaneSet
<1>2. /\ a \in Seq(Nat) /\ Len(a) = 5 /\ \A i \in 1 .. 5 : a[i] = base[i]
  <2>1. \A i \in 1 .. 5 : base[i] \in Nat
    BY <1>1
  <2>2. /\ a \in Seq(Nat)
        /\ Len(a) = IF 1 <= 5 THEN 5 - 1 + 1 ELSE 0
        /\ \A i \in 1 .. 5 - 1 + 1 : a[i] = base[1 + i - 1]
    BY <2>1, SubSeqProperties
  <2> QED BY <2>2
<1>3. /\ z \in Seq(Nat) /\ Len(z) = 10 /\ \A i \in 1 .. 10 : z[i] = base[7 + i]
  <2>1. \A i \in 8 .. 17 : base[i] \in Nat
    BY <1>1
  <2>2. /\ z \in Seq(Nat)
        /\ Len(z) = IF 8 <= 17 THEN 17 - 8 + 1 ELSE 0
        /\ \A i \in 1 .. 17 - 8 + 1 : z[i] = base[8 + i - 1]
    BY <2>1, SubSeqProperties
  <2> QED BY <2>2
<1>4. m \in Seq(Nat) /\ Len(m) = 2 /\ m[1] = s5 /\ m[2] = s6
  BY <1>1
<1> DEFINE c == a \o m
           d == c \o z
<1> HIDE DEF a, m, z
<1>5. /\ c \in Seq(Nat) /\ Len(c) = 7
      /\ \A i \in 1 .. 5 : c[i] = a[i]
      /\ c[6] = m[1] /\ c[7] = m[2]
  <2>1. c \in Seq(Nat) /\ Len(c) = 5 + 2 /\ Side(c, a, 5, m, 2)
    BY <1>2, <1>4, 5 \in Nat, 2 \in Nat, Concatenated
  <2> HIDE DEF c
  <2>2. c[5 + 1] = m[1] /\ c[5 + 2] = m[2]
    BY <2>1 DEF Side
  <2> QED BY <2>1, <2>2 DEF Side
<1> HIDE DEF c
<1>6. /\ d \in Seq(Nat) /\ Len(d) = 17
      /\ \A i \in 1 .. 7 : d[i] = c[i]
      /\ \A i \in 1 .. 10 : d[7 + i] = z[i]
  <2>1. d \in Seq(Nat) /\ Len(d) = 7 + 10 /\ Side(d, c, 7, z, 10)
      BY <1>3, <1>5, 7 \in Nat, 10 \in Nat, Concatenated
  <2> HIDE DEF d
  <2> QED BY <2>1 DEF Side
<1> HIDE DEF d
<1>7. d \in [1 .. 17 -> Nat]
  <2>1. d \in [1 .. Len(d) -> Nat]
    BY <1>6, LenProperties
  <2> QED BY <1>6, <2>1
<1>8. e \in [1 .. 17 -> Nat]
  BY <1>1 DEF LaneSet
<1>9. ASSUME NEW i \in 1 .. 17 PROVE d[i] = e[i]
  <2>1. CASE i = 6
    BY <1>4, <1>5, <1>6, <2>1
  <2>2. CASE i = 7
    BY <1>4, <1>5, <1>6, <2>2
  <2>3. CASE i < 6
    <3>1. i \in 1 .. 5 /\ i \in 1 .. 7 /\ e[i] = base[i]
      BY <2>3
    <3> QED BY <1>2, <1>5, <1>6, <3>1
  <2>4. CASE i > 7
    <3>1. PICK j \in 1 .. 10 : i = 7 + j
      <4>1. i - 7 \in 1 .. 10 /\ i = 7 + (i - 7)
        BY <2>4
      <4> QED BY <4>1
    <3>2. e[i] = base[i]
      BY <2>4
    <3> QED BY <1>3, <1>6, <3>1, <3>2
  <2> QED BY <2>1, <2>2, <2>3, <2>4
<1>10. d = e
  BY <1>7, <1>8, <1>9
<1> QED BY <1>10 DEF Splice, a, m, z, c, d

(* The nonce of an offset: the start's bytes, then the offset's.           *)
LEMMA NonceHexBytes ==
  ASSUME NEW s \in Str(WordLen), NEW offset \in Nat
  PROVE  /\ NonceHex(s, offset) \in Str(WordLen)
         /\ \A i \in 1 .. 6 * Half : NonceHex(s, offset)[i] = s[i]
         /\ \A i \in 1 .. Lane :
              NonceHex(s, offset)[6 * Half + i] = Bytes(offset, Lane)[i]
<1> DEFINE h == SubSeq(s, 1, WordLen - Lane)
           t == Bytes(offset, Lane)
           c == h \o t
<1>1. /\ WordLen - Lane = 6 * Half /\ 6 * Half \in Nat /\ WordLen = 6 * Half + Lane
      /\ 1 \in 1 .. WordLen + 1 /\ 6 * Half \in 1 - 1 .. WordLen
      /\ 6 * Half = 6 * Half - 1 + 1
  BY Lengths, BaseFacts
<1>2. /\ h \in Str(6 * Half)
      /\ \A i \in 1 .. 6 * Half : h[i] = s[1 + i - 1]
  BY <1>1, Lengths, Cut
<1>3. t \in Str(Lane)
  BY Lengths, BytesType
<1> HIDE DEF h, t
<1>4. c \in Str(WordLen) /\ Side(c, h, 6 * Half, t, Lane)
  BY <1>1, <1>2, <1>3, Lengths, Joined
<1> HIDE DEF c
<1>5. \A i \in 1 .. 6 * Half : c[i] = s[i]
  <2>1. ASSUME NEW i \in 1 .. 6 * Half PROVE c[i] = s[i]
    <3>1. 1 + i - 1 = i
      OBVIOUS
    <3> QED BY <1>2, <1>4, <3>1 DEF Side
  <2> QED BY <2>1
<1> QED BY <1>4, <1>5 DEF NonceHex, Side, h, t, c

(* The batch path of the workers splices the swapped offset into two half  *)
(* lanes of the start's block (hash_offset, keccak.h); that is the hash of *)
(* the message with the nonce NonceHex writes (worker_common.h), whatever  *)
(* bytes the start has where the offset goes.                              *)
THEOREM SpliceHashesTheNonce ==
  ASSUME NEW address \in Str(AddressLen), NEW s \in Str(WordLen),
         NEW prev \in Str(WordLen), NEW anchor \in Str(WordLen), NEW offset \in Nat
  PROVE  HashOffset(BuildLanes(address, s, prev, anchor), offset) =
           Hash(BuildLanes(address, NonceHex(s, offset), prev, anchor))
<1> DEFINE n == NonceHex(s, offset)
           base == BuildLanes(address, s, prev, anchor)
           new == BuildLanes(address, n, prev, anchor)
           t == Bytes(offset, Lane)
           r == Bswap(offset)
           o1 == SubSeq(t, 1, Half)
           o2 == SubSeq(t, Half + 1, 2 * Half)
           a == SubSeq(s, 5 * Half + 1, 6 * Half)
           x == SubSeq(s, 6 * Half + 1, 7 * Half)
           y == SubSeq(s, 7 * Half + 1, 8 * Half)
           p == SubSeq(Rest(prev, anchor), 1, Half)
<1>1. /\ n \in Str(WordLen)
      /\ \A i \in 1 .. 6 * Half : n[i] = s[i]
      /\ \A i \in 1 .. Lane : n[6 * Half + i] = t[i]
      /\ t \in Str(Lane)
  <2>1. Lane \in Nat /\ t \in Str(Lane)
    BY BytesType, Lengths
  <2> QED BY <2>1, NonceHexBytes
<1>2. /\ o1 \in Str(Half) /\ \A i \in 1 .. Half : o1[i] = t[1 + i - 1]
      /\ o2 \in Str(Half) /\ \A i \in 1 .. Half : o2[i] = t[Half + 1 + i - 1]
  <2>1. /\ Half \in Nat /\ 1 \in 1 .. Lane + 1 /\ Half \in 1 - 1 .. Lane
        /\ Half = Half - 1 + 1
        /\ Half + 1 \in 1 .. Lane + 1 /\ 2 * Half \in Half + 1 - 1 .. Lane
        /\ Half = 2 * Half - (Half + 1) + 1 /\ Lane \in Nat
    BY Lengths, BaseFacts
  <2> HIDE DEF t
  <2>2. o1 \in Str(Half) /\ \A i \in 1 .. Half : o1[i] = t[1 + i - 1]
    BY <1>1, <2>1, Cut
  <2>3. o2 \in Str(Half) /\ \A i \in 1 .. Half : o2[i] = t[Half + 1 + i - 1]
    BY <1>1, <2>1, Cut
  <2> QED BY <2>2, <2>3
<1>3. a \in Str(Half) /\ \A i \in 1 .. Half : a[i] = s[5 * Half + 1 + i - 1]
  <2>1. /\ Half \in Nat /\ 5 * Half + 1 \in 1 .. WordLen + 1
        /\ 6 * Half \in 5 * Half + 1 - 1 .. WordLen
        /\ Half = 6 * Half - (5 * Half + 1) + 1 /\ WordLen \in Nat
    BY Lengths, BaseFacts
  <2> DEFINE l == 5 * Half + 1
             h == 6 * Half
  <2> HIDE DEF l, h
  <2>2. /\ SubSeq(s, l, h) \in Str(Half)
        /\ \A i \in 1 .. Half : SubSeq(s, l, h)[i] = s[l + i - 1]
    BY <2>1, Cut DEF l, h
  <2> QED BY <2>2 DEF l, h, a
<1>4. x \in Str(Half) /\ \A i \in 1 .. Half : x[i] = s[6 * Half + 1 + i - 1]
  <2>1. /\ Half \in Nat /\ 6 * Half + 1 \in 1 .. WordLen + 1
        /\ 7 * Half \in 6 * Half + 1 - 1 .. WordLen
        /\ Half = 7 * Half - (6 * Half + 1) + 1 /\ WordLen \in Nat
    BY Lengths, BaseFacts
  <2> QED BY <2>1, Cut
<1>5. y \in Str(Half) /\ \A i \in 1 .. Half : y[i] = s[7 * Half + 1 + i - 1]
  <2>1. /\ Half \in Nat /\ 7 * Half + 1 \in 1 .. WordLen + 1
        /\ 8 * Half \in 7 * Half + 1 - 1 .. WordLen
        /\ Half = 8 * Half - (7 * Half + 1) + 1 /\ WordLen \in Nat
    BY Lengths, BaseFacts
  <2> QED BY <2>1, Cut
<1>6. p \in Str(Half) /\ \A i \in 1 .. Half : p[i] = Rest(prev, anchor)[1 + i - 1]
  <2> DEFINE w == Rest(prev, anchor)
             z == 21 * Half
  <2>1. /\ Half \in Nat /\ 1 \in 1 .. z + 1 /\ Half \in 1 - 1 .. z
        /\ Half = Half - 1 + 1 /\ z \in Nat
    BY Lengths, BaseFacts
  <2>2. w \in Str(z)
    BY RestFacts
  <2> HIDE DEF w, z
  <2>3. /\ SubSeq(w, 1, Half) \in Str(Half)
        /\ \A i \in 1 .. Half : SubSeq(w, 1, Half)[i] = w[1 + i - 1]
    BY <2>1, <2>2, Cut
  <2> QED BY <2>3 DEF w
<1> HIDE DEF n, t, o1, o2, a, x, y, p
<1> DEFINE HL == HalfLane
           la == LeWord(a)
           lx == LeWord(x)
           ly == LeWord(y)
           lp == LeWord(p)
           l1 == LeWord(o1)
           l2 == LeWord(o2)
<1>7. /\ HL \in Nat \ {0}
      /\ la \in 0 .. HL - 1 /\ lx \in 0 .. HL - 1 /\ ly \in 0 .. HL - 1
      /\ lp \in 0 .. HL - 1 /\ l1 \in 0 .. HL - 1 /\ l2 \in 0 .. HL - 1
  BY <1>2, <1>3, <1>4, <1>5, <1>6, BaseFacts, LeBound, PowerType DEF HalfLane
<1>8. \A i \in 1 .. Half : 1 + i - 1 = i /\ Half + 1 + i - 1 = Half + i
        /\ 5 * Half + 1 + i - 1 = 5 * Half + i /\ 6 * Half + 1 + i - 1 = 6 * Half + i
        /\ 7 * Half + 1 + i - 1 = 7 * Half + i
  BY BaseFacts
<1>9. base[6] = lx * HL + la /\ base[7] = lp * HL + ly
  <2>1. /\ \A i \in 1 .. Half : s[5 * Half + i] = a[i]
        /\ \A i \in 1 .. Half : s[6 * Half + i] = x[i]
        /\ \A i \in 1 .. Half : s[7 * Half + i] = y[i]
        /\ \A i \in 1 .. Half : Rest(prev, anchor)[i] = p[i]
    BY <1>3, <1>4, <1>5, <1>6, <1>8
  <2>2. base[6] = lx * HL + la
    BY <1>3, <1>4, <2>1, LaneSix
  <2>3. base[7] = lp * HL + ly
    BY <1>5, <1>6, <2>1, LaneSeven
  <2> QED BY <2>2, <2>3
<1>10. new[6] = l1 * HL + la /\ new[7] = lp * HL + l2
  <2>1. ASSUME NEW i \in 1 .. Half
        PROVE  /\ n[5 * Half + i] = a[i] /\ n[6 * Half + i] = o1[i]
               /\ n[7 * Half + i] = o2[i] /\ Rest(prev, anchor)[i] = p[i]
    <3>1. /\ 5 * Half + i \in 1 .. 6 * Half /\ i \in 1 .. Lane
          /\ Half + i \in 1 .. Lane /\ 6 * Half + (Half + i) = 7 * Half + i
      BY Lengths, BaseFacts
    <3>2. n[5 * Half + i] = a[i]
      BY <1>1, <1>3, <1>8, <3>1
    <3>3. n[6 * Half + i] = o1[i]
      BY <1>1, <1>2, <1>8, <3>1
    <3>4. n[7 * Half + i] = o2[i]
      BY <1>1, <1>2, <1>8, <3>1
    <3>5. Rest(prev, anchor)[i] = p[i]
      BY <1>6, <1>8
    <3> QED BY <3>2, <3>3, <3>4, <3>5
  <2>2. new[6] = l1 * HL + la
    <3>1. /\ \A i \in 1 .. Half : n[5 * Half + i] = a[i]
          /\ \A i \in 1 .. Half : n[6 * Half + i] = o1[i]
      BY <2>1
    <3>2. n \in Str(WordLen) /\ a \in Str(Half) /\ o1 \in Str(Half)
      BY <1>1, <1>2, <1>3
    <3> QED BY <3>1, <3>2, LaneSix
  <2>3. new[7] = lp * HL + l2
    <3>1. /\ \A i \in 1 .. Half : n[7 * Half + i] = o2[i]
          /\ \A i \in 1 .. Half : Rest(prev, anchor)[i] = p[i]
      BY <2>1
    <3>2. n \in Str(WordLen) /\ p \in Str(Half) /\ o2 \in Str(Half)
      BY <1>1, <1>2, <1>6
    <3> QED BY <3>1, <3>2, LaneSeven
  <2> QED BY <2>2, <2>3
<1>11. r = l2 * HL + l1
  <2>1. 0 \in Nat /\ 0 + 2 * Half <= Lane /\ Lane \in Nat /\ 2 * Half = Lane
    BY Lengths, BaseFacts
  <2>2. \A i \in 1 .. Half : t[0 + i] = o1[i] /\ t[0 + Half + i] = o2[i]
    <3>1. ASSUME NEW i \in 1 .. Half
          PROVE  t[0 + i] = o1[i] /\ t[0 + Half + i] = o2[i]
      <4>1. 0 + i = 1 + i - 1 /\ 0 + Half + i = Half + 1 + i - 1
        BY BaseFacts
      <4> QED BY <1>2, <4>1
    <3> QED BY <3>1
  <2>3. LeWord(SubSeq(t, 0 + 1, 0 + 2 * Half)) = l2 * HL + l1
    BY <1>1, <1>2, <2>1, <2>2, LaneOfHalves
  <2>4. SubSeq(t, 0 + 1, 0 + 2 * Half) = t
    <3> DEFINE u == SubSeq(t, 1, Lane)
    <3>1. 1 \in 1 .. Lane + 1 /\ Lane \in 1 - 1 .. Lane /\ Lane = Lane - 1 + 1
      BY Lengths, BaseFacts
    <3>2. u \in Str(Lane) /\ \A i \in 1 .. Lane : u[i] = t[1 + i - 1]
      BY <1>1, <2>1, <3>1, Cut
    <3>3. 0 + 1 = 1 /\ 0 + 2 * Half = Lane
      BY <2>1
    <3> HIDE DEF u
    <3>4. \A i \in 1 .. Lane : u[i] = t[i]
      <4>1. ASSUME NEW i \in 1 .. Lane PROVE u[i] = t[i]
        <5>1. 1 + i - 1 = i
          OBVIOUS
        <5> QED BY <3>2, <5>1
      <4> QED BY <4>1
    <3>5. u = t
      BY <1>1, <2>1, <3>2, <3>4, SameStr
    <3> QED BY <3>3, <3>5 DEF u
  <2> QED BY <2>3, <2>4 DEF Bswap, t
<1> HIDE DEF base, new, r, HL, la, lx, ly, lp, l1, l2
<1>12. /\ base[6] % HL = la /\ base[7] \div HL = lp
       /\ r % HL = l1 /\ r \div HL = l2
  <2>1. la \in Nat /\ lx \in Nat /\ lp \in Nat /\ l2 \in Nat
    BY <1>7
  <2>2. base[6] % HL = la
    <3>1. (lx * HL + la) % HL = la
      BY <1>7, <2>1, TwoDigits
    <3> QED BY <1>9, <3>1
  <2>3. base[7] \div HL = lp
    BY <1>7, <1>9, <2>1, TwoDigits
  <2>4. r % HL = l1 /\ r \div HL = l2
    BY <1>7, <1>11, <2>1, TwoDigits
  <2> QED BY <2>2, <2>3, <2>4
<1>13. base \in LaneSet /\ new \in LaneSet
  BY <1>1, LanesType DEF base, new
<1>14. \A i \in 1 .. 17 : i # 6 /\ i # 7 => new[i] = base[i]
  BY <1>1, OtherLanes DEF base, new
<1> DEFINE s5 == la + l1 * HL
           s6 == lp * HL + l2
<1>15. s5 \in Nat /\ s6 \in Nat /\ s5 = new[6] /\ s6 = new[7]
  <2>1. la \in Nat /\ l1 * HL \in Nat /\ lp * HL \in Nat /\ l2 \in Nat
    BY <1>7, Products
  <2> QED BY <1>10, <2>1
<1>16. Splice(base, new[6], new[7]) = new
  BY <1>13, <1>14, SplicedLanes
<1>17. HashOffset(base, offset)
         = Hash(Splice(base, (base[6] % HL) + (r % HL) * HL,
                       (base[7] \div HL) * HL + r \div HL))
  BY DEF HashOffset, HL, r
<1>18. HashOffset(base, offset) = Hash(Splice(base, new[6], new[7]))
  BY <1>12, <1>15, <1>17
<1> QED BY <1>16, <1>18 DEF base, new, n

-----------------------------------------------------------------------------
(* Words of four lanes.                                                    *)
Row(p, q, r, s) == p \o q \o r \o s

InRow(c, p, q, r, s) ==
  \A i \in 1 .. Lane : /\ c[i] = p[i]
                       /\ c[Lane + i] = q[i]
                       /\ c[2 * Lane + i] = r[i]
                       /\ c[3 * Lane + i] = s[i]

(* A number of four digits, and which of two is the smaller.               *)
Number(b, p, q, r, s) == ((p * b + q) * b + r) * b + s

Smaller(p1, p2, p3, p4, q1, q2, q3, q4) ==
  \/ p1 < q1
  \/ p1 = q1 /\ p2 < q2
  \/ p1 = q1 /\ p2 = q2 /\ p3 < q3
  \/ p1 = q1 /\ p2 = q2 /\ p3 = q3 /\ p4 < q4

LEMMA FourLanes ==
  ASSUME NEW p \in Str(Lane), NEW q \in Str(Lane), NEW r \in Str(Lane), NEW s \in Str(Lane)
  PROVE  /\ Row(p, q, r, s) \in Str(WordLen)
         /\ BeWord(Row(p, q, r, s))
              = Number(Power[Lane], BeWord(p), BeWord(q), BeWord(r), BeWord(s))
         /\ InRow(Row(p, q, r, s), p, q, r, s)
<1> DEFINE a == p \o q
           b == a \o r
           c == b \o s
<1>1. /\ Lane \in Nat /\ 2 * Lane \in Nat /\ 2 * Lane = Lane + Lane
      /\ 3 * Lane \in Nat /\ 3 * Lane = 2 * Lane + Lane
      /\ WordLen \in Nat /\ WordLen = 3 * Lane + Lane
  BY Lengths, BaseFacts
<1>2. a \in Str(2 * Lane) /\ Side(a, p, Lane, q, Lane)
      /\ BeWord(a) = BeWord(p) * Power[Lane] + BeWord(q)
  BY <1>1, Joined, WordJoined
<1> HIDE DEF a
<1>3. b \in Str(3 * Lane) /\ Side(b, a, 2 * Lane, r, Lane)
      /\ BeWord(b) = BeWord(a) * Power[Lane] + BeWord(r)
  <2>1. b \in Str(3 * Lane) /\ Side(b, a, 2 * Lane, r, Lane)
    BY <1>1, <1>2, Joined
  <2>2. BeWord(b) = BeWord(a) * Power[Lane] + BeWord(r)
    BY <1>1, <1>2, WordJoined
  <2> QED BY <2>1, <2>2
<1> HIDE DEF b
<1>4. c \in Str(WordLen) /\ Side(c, b, 3 * Lane, s, Lane)
      /\ BeWord(c) = BeWord(b) * Power[Lane] + BeWord(s)
  <2>1. c \in Str(WordLen) /\ Side(c, b, 3 * Lane, s, Lane)
    BY <1>1, <1>3, Joined
  <2>2. BeWord(c) = BeWord(b) * Power[Lane] + BeWord(s)
    BY <1>1, <1>3, WordJoined
  <2> QED BY <2>1, <2>2
<1> HIDE DEF c
<1>5. ASSUME NEW i \in 1 .. Lane
      PROVE  /\ c[i] = p[i] /\ c[Lane + i] = q[i]
             /\ c[2 * Lane + i] = r[i] /\ c[3 * Lane + i] = s[i]
  <2>1. /\ i \in 1 .. 2 * Lane /\ i \in 1 .. 3 * Lane
        /\ Lane + i \in 1 .. 2 * Lane /\ Lane + i \in 1 .. 3 * Lane
        /\ 2 * Lane + i \in 1 .. 3 * Lane
    BY <1>1
  <2> QED BY <1>2, <1>3, <1>4, <2>1 DEF Side
<1>6. BeWord(c)
        = ((BeWord(p) * Power[Lane] + BeWord(q)) * Power[Lane] + BeWord(r)) * Power[Lane]
          + BeWord(s)
  BY <1>2, <1>3, <1>4
<1> QED BY <1>4, <1>5, <1>6 DEF a, b, c, Row, InRow, Number

LEMMA FourDigits ==
  ASSUME NEW b \in Nat \ {0},
         NEW p1 \in 0 .. b - 1, NEW p2 \in 0 .. b - 1,
         NEW p3 \in 0 .. b - 1, NEW p4 \in 0 .. b - 1,
         NEW q1 \in 0 .. b - 1, NEW q2 \in 0 .. b - 1,
         NEW q3 \in 0 .. b - 1, NEW q4 \in 0 .. b - 1
  PROVE  Number(b, p1, p2, p3, p4) < Number(b, q1, q2, q3, q4)
         <=> Smaller(p1, p2, p3, p4, q1, q2, q3, q4)
<1> DEFINE x2 == p1 * b + p2
           y2 == q1 * b + q2
           x3 == x2 * b + p3
           y3 == y2 * b + q3
           x4 == x3 * b + p4
           y4 == y3 * b + q4
<1>1. p1 \in Nat /\ q1 \in Nat
  OBVIOUS
<1>2. x2 \in Nat /\ y2 \in Nat
  BY <1>1, TwoDigits
<1>3. /\ x2 < y2 <=> p1 < q1 \/ (p1 = q1 /\ p2 < q2)
      /\ x2 = y2 <=> p1 = q1 /\ p2 = q2
  BY <1>1, DigitsCompare
<1> HIDE DEF x2, y2
<1>4. x3 \in Nat /\ y3 \in Nat
  BY <1>2, TwoDigits
<1>5. /\ x3 < y3 <=> x2 < y2 \/ (x2 = y2 /\ p3 < q3)
      /\ x3 = y3 <=> x2 = y2 /\ p3 = q3
  BY <1>2, DigitsCompare
<1> HIDE DEF x3, y3
<1>6. x4 < y4 <=> x3 < y3 \/ (x3 = y3 /\ p4 < q4)
  BY <1>4, DigitsCompare
<1> HIDE DEF x4, y4
<1>7. x4 < y4 <=> \/ p1 < q1
                  \/ p1 = q1 /\ p2 < q2
                  \/ p1 = q1 /\ p2 = q2 /\ p3 < q3
                  \/ p1 = q1 /\ p2 = q2 /\ p3 = q3 /\ p4 < q4
  BY <1>3, <1>5, <1>6
<1> QED BY <1>7 DEF x2, x3, x4, y2, y3, y4, Number, Smaller

LEMMA FirstDifference ==
  ASSUME NEW p, NEW q
  PROVE  (\E i \in 1 .. 4 : p[i] < q[i] /\ \A j \in 1 .. i - 1 : p[j] = q[j])
         <=> Smaller(p[1], p[2], p[3], p[4], q[1], q[2], q[3], q[4])
<1> DEFINE F(i) == p[i] < q[i] /\ \A j \in 1 .. i - 1 : p[j] = q[j]
<1>1. F(1) <=> p[1] < q[1]
  OBVIOUS
<1>2. F(2) <=> p[1] = q[1] /\ p[2] < q[2]
  <2>1. 1 .. 2 - 1 = {1}
    OBVIOUS
  <2> QED BY <2>1
<1>3. F(3) <=> p[1] = q[1] /\ p[2] = q[2] /\ p[3] < q[3]
  <2>1. 1 .. 3 - 1 = {1, 2}
    OBVIOUS
  <2> QED BY <2>1
<1>4. F(4) <=> p[1] = q[1] /\ p[2] = q[2] /\ p[3] = q[3] /\ p[4] < q[4]
  <2>1. 1 .. 4 - 1 = {1, 2, 3}
    OBVIOUS
  <2> QED BY <2>1
<1>5. (\E i \in 1 .. 4 : F(i)) <=> F(1) \/ F(2) \/ F(3) \/ F(4)
  <2> HIDE DEF F
  <2>1. 1 .. 4 = {1, 2, 3, 4}
    OBVIOUS
  <2> QED BY <2>1
<1> HIDE DEF F
<1>6. (\E i \in 1 .. 4 : F(i))
        <=> Smaller(p[1], p[2], p[3], p[4], q[1], q[2], q[3], q[4])
  BY <1>1, <1>2, <1>3, <1>4, <1>5 DEF Smaller
<1> QED BY <1>6 DEF F

(* The words the workers compare are the digest's and the target's, most   *)
(* significant first (below_target, worker_common.h; target_words), and    *)
(* comparing them word by word compares the two numbers pow.py compares.   *)
THEOREM BelowTargetCompares ==
  ASSUME NEW out \in [1 .. 4 -> 0 .. Power[Lane] - 1], NEW t \in Str(WordLen)
  PROVE  /\ BelowTarget(out, TargetWords(t)) <=> BeWord(DigestBytes(out)) < BeWord(t)
         /\ DigestBytes(out) \in Str(WordLen)
<1> DEFINE L == Power[Lane]
           d == [i \in 1 .. 4 |-> Reverse(Bytes(out[i], Lane))]
           u == [i \in 1 .. 4 |-> SubSeq(t, Lane * (i - 1) + 1, Lane * i)]
           w == [i \in 1 .. 4 |-> BeWord(d[i])]
           v == [i \in 1 .. 4 |-> BeWord(u[i])]
<1>1. L \in Nat \ {0} /\ Lane \in Nat
  BY Lengths, PowerType
<1>2. \A i \in 1 .. 4 : d[i] \in Str(Lane) /\ w[i] = Bswap(out[i])
  <2>1. ASSUME NEW i \in 1 .. 4 PROVE d[i] \in Str(Lane) /\ w[i] = Bswap(out[i])
    <3>1. out[i] \in Nat
      BY <1>1
    <3>2. Bytes(out[i], Lane) \in Str(Lane)
      BY <1>1, <3>1, BytesType
    <3>3. Reverse(Bytes(out[i], Lane)) \in Str(Lane)
      BY <1>1, <3>2, BackToFront
    <3> QED BY <3>3 DEF Bswap, LeWord
  <2> QED BY <2>1
<1>3. \A i \in 1 .. 4 : /\ u[i] \in Str(Lane)
                        /\ \A j \in 1 .. Lane : u[i][j] = t[(i - 1) * Lane + j]
  <2>1. ASSUME NEW i \in 1 .. 4
        PROVE  /\ u[i] \in Str(Lane)
               /\ \A j \in 1 .. Lane : u[i][j] = t[(i - 1) * Lane + j]
    <3> DEFINE a == Lane * (i - 1) + 1
               b == Lane * i
               c == SubSeq(t, a, b)
    <3>1. /\ a \in 1 .. WordLen + 1 /\ b \in a - 1 .. WordLen /\ Lane = b - a + 1
          /\ WordLen \in Nat /\ a = (i - 1) * Lane + 1 /\ (i - 1) * Lane \in Nat
      <4>1. i \in {1, 2, 3, 4} /\ Lane = 2 * Half /\ WordLen = 8 * Half /\ Half \in Nat
        BY Lengths, BaseFacts
      <4> QED BY <4>1
    <3> HIDE DEF a, b
    <3>2. c \in Str(Lane) /\ \A j \in 1 .. Lane : c[j] = t[a + j - 1]
      BY <1>1, <3>1, Cut
    <3>3. u[i] = c
      BY DEF a, b
    <3> HIDE DEF c, u
    <3>4. \A j \in 1 .. Lane : a + j - 1 = (i - 1) * Lane + j
      BY <3>1
    <3> QED BY <3>2, <3>3, <3>4
  <2> QED BY <2>1
<1> HIDE DEF d, u
<1>4. w \in [1 .. 4 -> 0 .. L - 1] /\ v \in [1 .. 4 -> 0 .. L - 1]
  BY <1>1, <1>2, <1>3, WordBound
<1>5. DigestBytes(out) = Row(d[1], d[2], d[3], d[4])
  BY DEF DigestBytes, Row, d
<1>6. t = Row(u[1], u[2], u[3], u[4])
  <2> DEFINE c == Row(u[1], u[2], u[3], u[4])
  <2>1. u[1] \in Str(Lane) /\ u[2] \in Str(Lane) /\ u[3] \in Str(Lane) /\ u[4] \in Str(Lane)
    BY <1>3
  <2>2. /\ c \in Str(WordLen)
        /\ \A i \in 1 .. Lane : /\ c[i] = u[1][i]
                                /\ c[Lane + i] = u[2][i]
                                /\ c[2 * Lane + i] = u[3][i]
                                /\ c[3 * Lane + i] = u[4][i]
    <3>1. c \in Str(WordLen) /\ InRow(c, u[1], u[2], u[3], u[4])
      BY <2>1, FourLanes
    <3> HIDE DEF c
    <3> QED BY <3>1 DEF InRow
  <2> HIDE DEF c
  <2>3. \A j \in 1 .. Lane : /\ u[1][j] = t[0 * Lane + j] /\ u[2][j] = t[1 * Lane + j]
                             /\ u[3][j] = t[2 * Lane + j] /\ u[4][j] = t[3 * Lane + j]
    <3>1. ASSUME NEW j \in 1 .. Lane, NEW i \in 1 .. 4 PROVE u[i][j] = t[(i - 1) * Lane + j]
      BY <1>3
    <3>2. 1 - 1 = 0 /\ 2 - 1 = 1 /\ 3 - 1 = 2 /\ 4 - 1 = 3
      OBVIOUS
    <3> HIDE DEF L, w, v
    <3> QED BY <3>1, <3>2
  <2>4. ASSUME NEW k \in 1 .. WordLen PROVE t[k] = c[k]
    <3>0. WordLen = 4 * Lane /\ Lane \in Nat
      BY Lengths, BaseFacts
    <3>1. CASE k \in 1 .. Lane
      BY <2>2, <2>3, <3>0, <3>1
    <3>2. CASE k - Lane \in 1 .. Lane
      <4>1. PICK j \in 1 .. Lane : j = k - Lane
        BY <3>2
      <4>2. k = Lane + j /\ k = 1 * Lane + j
        BY <3>0, <4>1
      <4> QED BY <2>2, <2>3, <4>2
    <3>3. CASE k - 2 * Lane \in 1 .. Lane
      <4>1. PICK j \in 1 .. Lane : j = k - 2 * Lane
        BY <3>3
      <4>2. k = 2 * Lane + j
        BY <3>0, <4>1
      <4> QED BY <2>2, <2>3, <4>2
    <3>4. CASE k - 3 * Lane \in 1 .. Lane
      <4>1. PICK j \in 1 .. Lane : j = k - 3 * Lane
        BY <3>4
      <4>2. k = 3 * Lane + j
        BY <3>0, <4>1
      <4> QED BY <2>2, <2>3, <4>2
    <3> QED BY <3>0, <3>1, <3>2, <3>3, <3>4
  <2>5. t = c
    BY <2>2, <2>4, Lengths, SameStr
  <2> QED BY <2>5 DEF c
<1>7. /\ DigestBytes(out) \in Str(WordLen)
      /\ BeWord(DigestBytes(out)) = Number(L, w[1], w[2], w[3], w[4])
      /\ BeWord(t) = Number(L, v[1], v[2], v[3], v[4])
  <2>1. /\ d[1] \in Str(Lane) /\ d[2] \in Str(Lane) /\ d[3] \in Str(Lane) /\ d[4] \in Str(Lane)
        /\ u[1] \in Str(Lane) /\ u[2] \in Str(Lane) /\ u[3] \in Str(Lane) /\ u[4] \in Str(Lane)
    BY <1>2, <1>3
  <2>2. /\ Row(d[1], d[2], d[3], d[4]) \in Str(WordLen)
        /\ BeWord(Row(d[1], d[2], d[3], d[4])) = Number(L, w[1], w[2], w[3], w[4])
    <3>1. Row(d[1], d[2], d[3], d[4]) \in Str(WordLen)
      BY <2>1, FourLanes
    <3>2. BeWord(Row(d[1], d[2], d[3], d[4]))
            = Number(L, BeWord(d[1]), BeWord(d[2]), BeWord(d[3]), BeWord(d[4]))
      <4>1. /\ d[1] \in Str(Lane) /\ d[2] \in Str(Lane)
            /\ d[3] \in Str(Lane) /\ d[4] \in Str(Lane)
        BY <2>1
      <4> HIDE DEF w, v
      <4> QED BY SMTT(30), <4>1, FourLanes
    <3>3. /\ w[1] = BeWord(d[1]) /\ w[2] = BeWord(d[2])
          /\ w[3] = BeWord(d[3]) /\ w[4] = BeWord(d[4])
      OBVIOUS
    <3> QED BY <3>1, <3>2, <3>3
  <2>3. BeWord(Row(u[1], u[2], u[3], u[4])) = Number(L, v[1], v[2], v[3], v[4])
    <3>1. BeWord(Row(u[1], u[2], u[3], u[4]))
            = Number(L, BeWord(u[1]), BeWord(u[2]), BeWord(u[3]), BeWord(u[4]))
      <4>1. /\ u[1] \in Str(Lane) /\ u[2] \in Str(Lane)
            /\ u[3] \in Str(Lane) /\ u[4] \in Str(Lane)
        BY <2>1
      <4> HIDE DEF w, v
      <4> QED BY SMTT(30), <4>1, FourLanes
    <3>2. /\ v[1] = BeWord(u[1]) /\ v[2] = BeWord(u[2])
          /\ v[3] = BeWord(u[3]) /\ v[4] = BeWord(u[4])
      OBVIOUS
    <3> QED BY <3>1, <3>2
  <2> QED BY <1>5, <1>6, <2>2, <2>3
<1>8. BelowTarget(out, TargetWords(t))
        <=> \E i \in 1 .. 4 : w[i] < v[i] /\ \A j \in 1 .. i - 1 : w[j] = v[j]
  <2>1. \A i \in 1 .. 4 : TargetWords(t)[i] = v[i] /\ Bswap(out[i]) = w[i]
    BY <1>2 DEF TargetWords, u
  <2>2. \A i \in 1 .. 4 : \A j \in 1 .. i - 1 : j \in 1 .. 4
    OBVIOUS
  <2> HIDE DEF w, v
  <2> QED BY <2>1, <2>2 DEF BelowTarget
<1> HIDE DEF w, v, L
<1>9. Number(L, w[1], w[2], w[3], w[4]) < Number(L, v[1], v[2], v[3], v[4])
        <=> \E i \in 1 .. 4 : w[i] < v[i] /\ \A j \in 1 .. i - 1 : w[j] = v[j]
  <2>1. /\ w[1] \in 0 .. L - 1 /\ w[2] \in 0 .. L - 1 /\ w[3] \in 0 .. L - 1
        /\ w[4] \in 0 .. L - 1 /\ v[1] \in 0 .. L - 1 /\ v[2] \in 0 .. L - 1
        /\ v[3] \in 0 .. L - 1 /\ v[4] \in 0 .. L - 1
    BY <1>4
  <2>2. Number(L, w[1], w[2], w[3], w[4]) < Number(L, v[1], v[2], v[3], v[4])
        <=> Smaller(w[1], w[2], w[3], w[4], v[1], v[2], v[3], v[4])
    BY <1>1, <2>1, FourDigits
  <2> QED BY <2>2, FirstDifference
<1> QED BY <1>7, <1>8, <1>9

-----------------------------------------------------------------------------
(* The high bytes and the low lane of a word.                              *)
High(s) == SubSeq(s, 1, WordLen - Lane)

Low(s) == SubSeq(s, WordLen - Lane + 1, WordLen)

HighLen == WordLen - Lane

LEMMA HighLow ==
  ASSUME NEW s \in Str(WordLen)
  PROVE  /\ HighLen \in Nat /\ Lane \in Nat /\ WordLen = HighLen + Lane
         /\ High(s) \in Str(HighLen) /\ Low(s) \in Str(Lane)
         /\ \A i \in 1 .. HighLen : High(s)[i] = s[i]
         /\ \A i \in 1 .. Lane : Low(s)[i] = s[HighLen + i]
         /\ s = High(s) \o Low(s)
<1> DEFINE a == HighLen + 1
<1>1. /\ HighLen \in Nat /\ Lane \in Nat /\ WordLen = HighLen + Lane /\ WordLen \in Nat
      /\ 1 \in 1 .. WordLen + 1 /\ HighLen \in 1 - 1 .. WordLen /\ HighLen = HighLen - 1 + 1
      /\ a \in 1 .. WordLen + 1 /\ WordLen \in a - 1 .. WordLen /\ Lane = WordLen - a + 1
  BY Lengths, BaseFacts DEF HighLen
<1>2. High(s) = SubSeq(s, 1, HighLen) /\ Low(s) = SubSeq(s, a, WordLen)
  BY DEF High, Low, HighLen
<1> HIDE DEF a
<1>3. High(s) \in Str(HighLen) /\ \A i \in 1 .. HighLen : High(s)[i] = s[1 + i - 1]
  BY <1>1, <1>2, Cut
<1>4. Low(s) \in Str(Lane) /\ \A i \in 1 .. Lane : Low(s)[i] = s[a + i - 1]
  BY <1>1, <1>2, Cut
<1>5. \A i \in 1 .. HighLen : High(s)[i] = s[i]
  <2>1. ASSUME NEW i \in 1 .. HighLen PROVE High(s)[i] = s[i]
    <3>1. 1 + i - 1 = i
      OBVIOUS
    <3> QED BY <1>3, <3>1
  <2> QED BY <2>1
<1>6. \A i \in 1 .. Lane : Low(s)[i] = s[HighLen + i]
  <2>1. ASSUME NEW i \in 1 .. Lane PROVE Low(s)[i] = s[HighLen + i]
    <3>1. a + i - 1 = HighLen + i
      BY <1>1 DEF a
    <3> QED BY <1>4, <3>1
  <2> QED BY <2>1
<1> DEFINE c == High(s) \o Low(s)
<1>7. c \in Str(WordLen) /\ Side(c, High(s), HighLen, Low(s), Lane)
  BY <1>1, <1>3, <1>4, Joined
<1> HIDE DEF c
<1>8. ASSUME NEW k \in 1 .. WordLen PROVE s[k] = c[k]
  <2>1. CASE k \in 1 .. HighLen
    BY <1>5, <1>7, <2>1 DEF Side
  <2>2. CASE k \notin 1 .. HighLen
    <3>1. PICK i \in 1 .. Lane : k = HighLen + i
      <4>1. k - HighLen \in 1 .. Lane /\ k = HighLen + (k - HighLen)
        BY <1>1, <2>2
      <4> QED BY <4>1
    <3> QED BY <1>6, <1>7, <3>1 DEF Side
  <2> QED BY <2>1, <2>2
<1>9. s = c
  BY <1>1, <1>7, <1>8, SameStr
<1> QED BY <1>1, <1>3, <1>4, <1>5, <1>6, <1>9 DEF c

LEMMA SplitWord ==
  ASSUME NEW h \in Str(HighLen), NEW l \in Str(Lane)
  PROVE  /\ h \o l \in Str(WordLen)
         /\ High(h \o l) = h /\ Low(h \o l) = l
         /\ BeWord(h \o l) = BeWord(h) * Power[Lane] + BeWord(l)
         /\ BeWord(h) \in Nat
<1> DEFINE c == h \o l
<1>1. HighLen \in Nat /\ Lane \in Nat /\ WordLen \in Nat /\ WordLen = HighLen + Lane
  BY Lengths, BaseFacts DEF HighLen
<1>2. c \in Str(WordLen) /\ Side(c, h, HighLen, l, Lane)
  BY <1>1, Joined
<1>3. BeWord(c) = BeWord(h) * Power[Lane] + BeWord(l)
  BY <1>1, WordJoined
<1>4. BeWord(h) \in Nat
  BY <1>1, WordBound, PowerType
<1> HIDE DEF c
<1>5. /\ High(c) \in Str(HighLen) /\ Low(c) \in Str(Lane)
      /\ \A i \in 1 .. HighLen : High(c)[i] = c[i]
      /\ \A i \in 1 .. Lane : Low(c)[i] = c[HighLen + i]
  BY <1>2, HighLow
<1>6. High(c) = h
  BY <1>1, <1>2, <1>5, SameStr DEF Side
<1>7. Low(c) = l
  BY <1>1, <1>2, <1>5, SameStr DEF Side
<1> QED BY <1>2, <1>3, <1>4, <1>6, <1>7 DEF c

(* The nonce NonceHex writes is the start plus the offset.                 *)
LEMMA NonceHexNumber ==
  ASSUME NEW s \in Str(WordLen), NEW n \in 0 .. Power[Lane] - 1
  PROVE  /\ NonceHex(s, n) \in Str(WordLen)
         /\ High(NonceHex(s, n)) = High(s)
         /\ BeWord(Low(NonceHex(s, n))) = n
         /\ Low(s) = Zeros(Lane) => BeWord(NonceHex(s, n)) = BeWord(s) + n
<1> DEFINE h == High(s)
           b == Bytes(n, Lane)
<1>1. n \in Nat /\ Lane \in Nat
  BY Lengths, PowerType
<1>2. h \in Str(HighLen) /\ s = h \o Low(s) /\ Low(s) \in Str(Lane)
  BY HighLow
<1>3. b \in Str(Lane) /\ BeWord(b) = n
  BY <1>1, BytesType, BytesInverse
<1>4. NonceHex(s, n) = h \o b
  BY DEF NonceHex, High
<1> HIDE DEF h, b
<1>5. /\ h \o b \in Str(WordLen) /\ High(h \o b) = h /\ Low(h \o b) = b
      /\ BeWord(h \o b) = BeWord(h) * Power[Lane] + n
  BY <1>2, <1>3, SplitWord
<1>6. ASSUME Low(s) = Zeros(Lane) PROVE BeWord(h \o b) = BeWord(s) + n
  <2>1. BeWord(s) = BeWord(h) * Power[Lane] + BeWord(Low(s)) /\ BeWord(h) \in Nat
    BY <1>2, SplitWord
  <2>2. BeWord(Low(s)) = 0
    BY <1>1, <1>6, ZeroWord
  <2>3. BeWord(h) * Power[Lane] \in Nat
    BY <1>1, <2>1, PowerType
  <2> QED BY <1>1, <1>5, <2>1, <2>2, <2>3
<1> QED BY <1>3, <1>4, <1>5, <1>6 DEF h

LEMMA LowBytes ==
  ASSUME NEW v \in Nat
  PROVE  /\ Low(Bytes(v, WordLen)) = Bytes(v, Lane)
         /\ Low(Bytes((v \div Power[Lane]) * Power[Lane], WordLen)) = Zeros(Lane)
<1>1. ASSUME NEW u \in Nat PROVE Low(Bytes(u, WordLen)) = Bytes(u, Lane)
  <2> DEFINE s == Bytes(u, WordLen)
             b == Bytes(u, Lane)
  <2>1. s \in Str(WordLen) /\ b \in Str(Lane)
    BY Lengths, BytesType
  <2>2. \A i \in 1 .. Lane : s[HighLen + i] = b[i]
    <3>1. ASSUME NEW i \in 1 .. Lane PROVE s[HighLen + i] = b[i]
      <4>1. HighLen + i \in 1 .. WordLen /\ WordLen - (HighLen + i) = Lane - i
        BY Lengths, BaseFacts DEF HighLen
      <4> QED BY <4>1 DEF Bytes
    <3> QED BY <3>1
  <2> HIDE DEF s, b
  <2>3. /\ Low(s) \in Str(Lane) /\ Lane \in Nat
        /\ \A i \in 1 .. Lane : Low(s)[i] = s[HighLen + i]
    BY <2>1, HighLow
  <2>4. Low(s) = b
    BY <2>1, <2>2, <2>3, SameStr
  <2> QED BY <2>4 DEF s, b
<1> DEFINE L == Power[Lane]
           u == (v \div L) * L
<1>2. L \in Nat \ {0} /\ Lane \in Nat
  BY Lengths, PowerType
<1>3. u \in Nat /\ u % L = 0
  <2>1. v \div L \in Nat /\ 0 \in 0 .. L - 1
    BY <1>2, Division
  <2>2. (v \div L) * L \in Nat
    BY <1>2, <2>1, Products
  <2>3. ((v \div L) * L + 0) % L = 0
    BY <1>2, <2>1, TwoDigits
  <2> QED BY <2>2, <2>3
<1> HIDE DEF u
<1>4. BeWord(Bytes(u, Lane)) = 0
  BY <1>2, <1>3, WordOfBytes
<1>5. Bytes(u, Lane) = Zeros(Lane)
  BY <1>2, <1>3, <1>4, BytesType, ZeroWord, WordNames
<1> QED BY <1>1, <1>3, <1>5 DEF u

-----------------------------------------------------------------------------
(* The start of a batch, digit by digit.                                   *)
LEMMA StartDigits ==
  ASSUME NEW idx \in Nat, NEW salt \in Nat, NEW seq \in Nat
  PROVE  /\ NonceStart(idx, salt, seq)
              = (((idx + 1) * Power[Lane + 1] + salt) * Power[Lane] + seq) * Power[Lane]
         /\ NonceStart(idx, salt, seq) \in Nat
<1> DEFINE A == Power[Lane + 1]
           L == Power[Lane]
           i == idx + 1
<1>1. /\ Lane \in Nat /\ Lane + 1 \in Nat /\ 4 * Half \in Nat /\ 4 * Half = Lane + Lane
      /\ 6 * Half + 1 = (Lane + 1) + 4 * Half
  BY Lengths, BaseFacts
<1>2. A \in Nat /\ L \in Nat /\ i \in Nat
  BY <1>1, PowerType
<1>3. Power[4 * Half] = L * L /\ Power[6 * Half + 1] = A * (L * L)
  <2>1. Power[Lane + Lane] = L * L
    BY <1>1, PowerSum
  <2>2. Power[(Lane + 1) + 4 * Half] = A * Power[4 * Half]
    BY <1>1, PowerSum
  <2> QED BY <1>1, <2>1, <2>2
<1> HIDE DEF A, L, i
<1>4. i * (A * (L * L)) + salt * (L * L) + seq * L = ((i * A + salt) * L + seq) * L
  BY <1>2
<1>5. ((i * A + salt) * L + seq) * L \in Nat
  BY <1>2
<1>6. NonceStart(idx, salt, seq) = i * (A * (L * L)) + salt * (L * L) + seq * L
  BY <1>3 DEF NonceStart, L, i
<1> QED BY <1>4, <1>5, <1>6 DEF A, L, i

(* A nonce in the space of a batch: a lane's worth of offsets.             *)
InSpace(n, idx, salt, seq) ==
  /\ idx \in Nat /\ salt \in 0 .. Power[Lane] - 1 /\ seq \in 0 .. Power[Lane] - 1
  /\ n - NonceStart(idx, salt, seq) \in 0 .. Power[Lane] - 1

(* "Unique nonce space per worker, per process start, per batch"           *)
(* (remote_agent.py): no nonce lies within a lane's worth of offsets of    *)
(* the starts of two batches, whatever the worker index, as long as the    *)
(* salt and the sequence number fit the bytes they are shifted into.       *)
THEOREM BatchesAreApart ==
  ASSUME NEW n \in Int,
         NEW idx1, NEW salt1, NEW seq1, InSpace(n, idx1, salt1, seq1),
         NEW idx2, NEW salt2, NEW seq2, InSpace(n, idx2, salt2, seq2)
  PROVE  idx1 = idx2 /\ salt1 = salt2 /\ seq1 = seq2
<1> DEFINE A == Power[Lane + 1]
           L == Power[Lane]
           i1 == idx1 + 1
           i2 == idx2 + 1
           x1 == i1 * A + salt1
           x2 == i2 * A + salt2
           y1 == x1 * L + seq1
           y2 == x2 * L + seq2
           d1 == n - NonceStart(idx1, salt1, seq1)
           d2 == n - NonceStart(idx2, salt2, seq2)
<1>0. /\ idx1 \in Nat /\ idx2 \in Nat
      /\ salt1 \in 0 .. L - 1 /\ salt2 \in 0 .. L - 1
      /\ seq1 \in 0 .. L - 1 /\ seq2 \in 0 .. L - 1
      /\ d1 \in 0 .. L - 1 /\ d2 \in 0 .. L - 1
  BY DEF InSpace
<1>1. /\ A \in Nat \ {0} /\ L \in Nat \ {0} /\ L <= A
      /\ salt1 \in 0 .. A - 1 /\ salt2 \in 0 .. A - 1
      /\ i1 \in Nat /\ i2 \in Nat
      /\ salt1 \in Nat /\ salt2 \in Nat /\ seq1 \in Nat /\ seq2 \in Nat
  <2>1. Lane \in Nat /\ Lane + 1 \in Nat
    BY Lengths
  <2>2. A \in Nat \ {0} /\ L \in Nat \ {0}
    BY <2>1, PowerType
  <2>3. A = Base * L
    BY <2>1, PowerFacts
  <2>4. L <= Base * L
    <3>1. PICK e \in Nat : Base = 1 + e
      <4>1. Base - 1 \in Nat /\ Base = 1 + (Base - 1)
        BY BaseFacts
      <4> QED BY <4>1
    <3> HIDE DEF A, L
    <3>2. (1 + e) * L = L + e * L /\ e * L \in Nat
      BY <2>2
    <3> QED BY <2>2, <3>1, <3>2
  <2>5. L <= A
    BY <2>3, <2>4
  <2> HIDE DEF A, L
  <2> QED BY <1>0, <2>2, <2>5
<1>2. /\ NonceStart(idx1, salt1, seq1) = y1 * L /\ NonceStart(idx1, salt1, seq1) \in Nat
      /\ NonceStart(idx2, salt2, seq2) = y2 * L /\ NonceStart(idx2, salt2, seq2) \in Nat
  BY <1>0, <1>1, StartDigits
<1>3. x1 \in Nat /\ x2 \in Nat
  <2> HIDE DEF A, i1, i2
  <2> QED BY <1>1, TwoDigits
<1>4. x1 = x2 => i1 = i2 /\ salt1 = salt2
  <2> HIDE DEF A, i1, i2
  <2> QED BY <1>1, DigitsCompare
<1> HIDE DEF x1, x2
<1>5. y1 \in Nat /\ y2 \in Nat
  <2>1. seq1 \in Nat /\ seq2 \in Nat /\ L \in Nat
    BY <1>1
  <2> HIDE DEF L
  <2>2. x1 * L \in Nat /\ x2 * L \in Nat
    BY <1>3, <2>1
  <2> QED BY <2>1, <2>2
<1>6. y1 = y2 => x1 = x2 /\ seq1 = seq2
  <2>1. seq1 \in 0 .. L - 1 /\ seq2 \in 0 .. L - 1
    BY <1>0
  <2> HIDE DEF L
  <2> QED BY <1>1, <1>3, <2>1, DigitsCompare
<1> HIDE DEF y1, y2
<1>7. d1 \in 0 .. L - 1 /\ d2 \in 0 .. L - 1 /\ y1 * L + d1 = y2 * L + d2
  <2>1. y1 * L \in Nat /\ y2 * L \in Nat
    BY <1>2
  <2>2. d1 = n - y1 * L /\ d2 = n - y2 * L
    BY <1>2
  <2> HIDE DEF L
  <2>3. n = y1 * L + (n - y1 * L) /\ n = y2 * L + (n - y2 * L)
    BY <2>1
  <2> QED BY <1>0, <2>2, <2>3
<1> HIDE DEF d1, d2
<1>8. y1 = y2
  BY <1>1, <1>5, <1>7, DigitsCompare
<1> QED BY <1>0, <1>4, <1>6, <1>8 DEF i1, i2
=============================================================================
