------------------------------ MODULE Recursion ------------------------------
(***************************************************************************)
(* What proofs about recursive functions of natural numbers rest on: the   *)
(* least element of a set of numbers, which gives a proof by induction its *)
(* least counterexample, and the existence of the function that a base and *)
(* a step define; and what a quotient is, which the provers look into for  *)
(* variables only.                                                         *)
(***************************************************************************)
EXTENDS Integers, WellFoundedInduction, TLAPS

\* A set of natural numbers that is not empty has a least element.
LEMMA Least ==
  ASSUME NEW T, T \subseteq Nat, T # {}
  PROVE  \E x \in T : \A y \in T : x <= y
<1>1. PICK x \in T : \A y \in T : <<y, x>> \notin OpToRel(<, Nat)
  BY NatLessThanWellFounded, WFMin
<1>2. \A y \in T : ~(y < x)
  BY <1>1 DEF OpToRel
<1> QED BY <1>2

\* A set that has 0, and n + 1 with every n < N, has the numbers up to N.
LEMMA UpTo ==
  ASSUME NEW N \in Nat, NEW P, 0 \in P,
         \A n \in 0..(N - 1) : n \in P => n + 1 \in P
  PROVE  \A n \in 0..N : n \in P
<1> DEFINE bad == {n \in 0..N : n \notin P}
<1>1. SUFFICES ASSUME bad # {} PROVE FALSE
  OBVIOUS
<1>2. PICK x \in bad : \A y \in bad : x <= y
  <2>1. bad \subseteq Nat
    OBVIOUS
  <2> HIDE DEF bad
  <2> QED BY <1>1, <2>1, Least
<1>3. x # 0 /\ x - 1 \in 0..(N - 1) /\ x - 1 \notin bad
  BY <1>2
<1>4. x - 1 \in P
  BY <1>3
<1>5. (x - 1) + 1 \in P
  BY <1>3, <1>4
<1> QED BY <1>2, <1>5

\* A set that has 0, and n + 1 with every n, has all natural numbers.
LEMMA Always ==
  ASSUME NEW P, 0 \in P, \A n \in Nat : n \in P => n + 1 \in P
  PROVE  Nat \subseteq P
<1>1. SUFFICES ASSUME NEW N \in Nat PROVE N \in P
  OBVIOUS
<1>2. \A n \in 0..N : n \in P
  BY UpTo
<1> QED BY <1>2

\* f is b at 0 and follows the step up to N.
Follows(f, b, step, N) ==
  f[0] = b /\ \A n \in 0..(N - 1) : f[n + 1] = step[<<n, f[n]>>]

\* A base and a step define a function up to a number.
LEMMA FunctionUpTo ==
  ASSUME NEW N \in Nat, NEW S, NEW b \in S,
         NEW step, \A n \in 0..(N - 1), x \in S : step[<<n, x>>] \in S
  PROVE  \E f \in [0..N -> S] : Follows(f, b, step, N)
<1> DEFINE P == {n \in 0..N : \E f \in [0..n -> S] : Follows(f, b, step, n)}
<1>1. 0 \in P
  <2>1. [n \in 0..0 |-> b] \in [0..0 -> S] /\ Follows([n \in 0..0 |-> b], b, step, 0)
    BY DEF Follows
  <2> QED BY <2>1
<1>2. ASSUME NEW n \in 0..(N - 1), n \in P PROVE n + 1 \in P
  <2>1. PICK f \in [0..n -> S] : Follows(f, b, step, n)
    BY <1>2
  <2> DEFINE g == [k \in 0..(n + 1) |-> IF k <= n THEN f[k] ELSE step[<<n, f[n]>>]]
  <2>2. n \in 0..n /\ f[n] \in S
    OBVIOUS
  <2>3. g \in [0..(n + 1) -> S]
    BY <2>2
  <2>4. g[0] = b
    BY <2>1 DEF Follows
  <2>5. ASSUME NEW k \in 0..n PROVE g[k + 1] = step[<<k, g[k]>>]
    <3>1. CASE k = n
      BY <3>1
    <3>2. CASE k # n
      <4>1. k \in 0..(n - 1) /\ k + 1 \in 0..n
        BY <3>2
      <4> QED BY <2>1, <4>1 DEF Follows
    <3> QED BY <3>1, <3>2
  <2>6. Follows(g, b, step, n + 1)
    <3>1. (n + 1) - 1 = n
      OBVIOUS
    <3> HIDE DEF g
    <3> QED BY <2>4, <2>5, <3>1 DEF Follows
  <2> HIDE DEF g
  <2> QED BY <2>3, <2>6
<1>3. \A n \in 0..N : n \in P
  <2> HIDE DEF P
  <2> QED BY <1>1, <1>2, UpTo
<1> QED BY <1>3

\* Two such functions agree.
LEMMA FunctionIsOne ==
  ASSUME NEW N \in Nat, NEW b, NEW step, NEW f, NEW g,
         Follows(f, b, step, N), Follows(g, b, step, N)
  PROVE  \A n \in 0..N : f[n] = g[n]
<1> DEFINE P == {n \in 0..N : f[n] = g[n]}
<1>1. 0 \in P
  BY DEF Follows
<1>2. ASSUME NEW n \in 0..(N - 1), n \in P PROVE n + 1 \in P
  <2>1. f[n + 1] = step[<<n, f[n]>>] /\ g[n + 1] = step[<<n, g[n]>>]
    BY DEF Follows
  <2> QED BY <1>2, <2>1
<1>3. \A n \in 0..N : n \in P
  <2> HIDE DEF P
  <2> QED BY <1>1, <1>2, UpTo
<1> QED BY <1>3

\* f is b at 0 and follows the step for ever.
Continues(f, b, step) ==
  f[0] = b /\ \A n \in Nat : f[n + 1] = step[<<n, f[n]>>]

\* A base and a step define a function of the natural numbers.
LEMMA FunctionOfNat ==
  ASSUME NEW S, NEW b \in S,
         NEW step, \A n \in Nat, x \in S : step[<<n, x>>] \in S
  PROVE  \E f \in [Nat -> S] : Continues(f, b, step)
<1> DEFINE Part(n) == CHOOSE f : f \in [0..n -> S] /\ Follows(f, b, step, n)
           whole == [n \in Nat |-> Part(n)[n]]
<1>1. ASSUME NEW n \in Nat
      PROVE  Part(n) \in [0..n -> S] /\ Follows(Part(n), b, step, n)
  <2>1. \A k \in 0..(n - 1), x \in S : step[<<k, x>>] \in S
    <3> TAKE k \in 0..(n - 1), x \in S
    <3>1. k \in Nat
      OBVIOUS
    <3> QED BY <3>1
  <2>2. \E f \in [0..n -> S] : Follows(f, b, step, n)
    BY <2>1, FunctionUpTo
  <2> QED BY <2>2
<1> HIDE DEF Part
<1>2. whole \in [Nat -> S]
  BY <1>1
<1>3. whole[0] = b
  BY <1>1 DEF Follows
<1>4. ASSUME NEW n \in Nat PROVE whole[n + 1] = step[<<n, whole[n]>>]
  <2>1. Follows(Part(n + 1), b, step, n)
    BY <1>1, n + 1 \in Nat, \A k \in 0..(n - 1) : k \in 0..((n + 1) - 1) DEF Follows
  <2>2. Part(n + 1)[n] = Part(n)[n]
    BY <1>1, <2>1, FunctionIsOne
  <2>3. Part(n + 1)[n + 1] = step[<<n, Part(n + 1)[n]>>]
    BY <1>1, n + 1 \in Nat, n \in 0..((n + 1) - 1) DEF Follows
  <2> QED BY <2>2, <2>3
<1> HIDE DEF whole
<1> QED BY <1>2, <1>3, <1>4 DEF Continues

-----------------------------------------------------------------------------
(* Quotients *)

\* What the quotient of two numbers is: the multiple the first one reaches.
LEMMA Quotient ==
  ASSUME NEW a \in Nat, NEW s \in Nat \ {0}
  PROVE  /\ a \div s \in Nat
         /\ (a \div s) * s <= a /\ a < (a \div s) * s + s
OBVIOUS

\* Every multiple it reaches is of the quotient or less.
LEMMA AtLeastQuotient ==
  ASSUME NEW a \in Nat, NEW s \in Nat \ {0}, NEW q \in Nat, q * s <= a
  PROVE  q <= a \div s
<1> DEFINE d == a \div s
<1>1. d \in Nat /\ a < d * s + s
  BY Quotient
<1> HIDE DEF d
<1>2. SUFFICES ASSUME q > d PROVE FALSE
  BY <1>1 DEF d
<1>3. (q - d - 1) \in Nat
  BY <1>1, <1>2
<1>4. (q - d - 1) * s \in Nat
  BY <1>3
<1>5. (q - d - 1) * s = q * s - d * s - s
  BY <1>1
<1>6. q * s \in Nat /\ d * s \in Nat
  BY <1>1
<1> QED BY <1>1, <1>4, <1>5, <1>6
=============================================================================
