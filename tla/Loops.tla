------------------------------- MODULE Loops --------------------------------
(***************************************************************************)
(* Loops of the code, for proofs.  A loop is a function of the number of   *)
(* its turns; here: that the function exists, and induction over the       *)
(* turns, both from the natural numbers being well-founded.                *)
(***************************************************************************)
EXTENDS Integers, WellFoundedInduction, TLAPS

LEMMA LeastTurn ==
  ASSUME NEW S \in SUBSET Nat, S # {}
  PROVE  \E m \in S : \A n \in S : m <= n
<1> DEFINE Less == {p \in Nat \X Nat : p[1] < p[2]}
<1>1. IsWellFoundedOn(Less, Nat)
  BY NatLessThanWellFounded DEF OpToRel
<1>2. PICK m \in S : \A n \in S : ~ (<<n, m>> \in Less)
  <2> HIDE DEF Less
  <2> QED BY <1>1, WFMin
<1>3. \A n \in S : ~(n < m)
  BY <1>2
<1> QED BY <1>3

LEMMA Induction ==
  ASSUME NEW T, 0 \in T, \A n \in Nat : n \in T => n + 1 \in T
  PROVE  Nat \subseteq T
<1>1. SUFFICES ASSUME Nat \ T # {} PROVE FALSE
  OBVIOUS
<1>2. PICK m \in Nat \ T : \A n \in Nat \ T : m <= n
  BY <1>1, LeastTurn
<1>3. m # 0
  BY <1>2
<1>4. m - 1 \in Nat /\ m - 1 \notin Nat \ T
  BY <1>2, <1>3
<1>5. (m - 1) + 1 \in T
  BY <1>4
<1> QED BY <1>2, <1>5

\* The bodies of a loop over states X whose turns are numbered by I
Bodies(I, X) == [I \X X -> X]
\* g[n] is the state after n turns of the loop
IsLoop(g, I, X, a, Turn) == /\ g[0] = a
                            /\ \A n \in I : g[n] \in X /\ g[n + 1] = Turn[<<n, g[n]>>]

LEMMA InductionUpto ==
  ASSUME NEW N \in Nat, NEW T, 0 \in T, \A n \in 0..N - 1 : n \in T => n + 1 \in T
  PROVE  \A n \in 0..N : n \in T
<1> DEFINE S == {n \in Nat : n <= N => n \in T}
<1>1. \A n \in Nat : n \in S => n + 1 \in S
  OBVIOUS
<1>2. Nat \subseteq S
  <2> HIDE DEF S
  <2>1. 0 \in S
    BY DEF S
  <2> QED BY <1>1, <2>1, Induction
<1> QED BY <1>2

LEMMA LoopExists ==
  ASSUME NEW X, NEW a \in X, NEW Turn \in Bodies(Nat, X)
  PROVE  \E g : IsLoop(g, Nat, X, a, Turn)
<1> DEFINE Upto(n) == {p \in [0..n -> X] : p[0] = a /\ \A k \in 0..n - 1 : p[k + 1] = Turn[<<k, p[k]>>]}
           Exist == {n \in Nat : Upto(n) # {}}
           Agree == {k \in Nat : \A m, n \in Nat : \A p \in Upto(m), q \in Upto(n) :
                                   k <= m /\ k <= n => p[k] = q[k]}
<1> USE DEF Bodies
<1>1. Nat \subseteq Exist
  <2>1. 0 \in Exist
    <3>1. [k \in 0..0 |-> a] \in Upto(0)
      OBVIOUS
    <3> QED BY <3>1
  <2>2. ASSUME NEW n \in Nat, n \in Exist PROVE n + 1 \in Exist
    <3>1. PICK p : p \in Upto(n)
      BY <2>2
    <3>2. p \in [0..n -> X] /\ p[0] = a /\ \A k \in 0..n - 1 : p[k + 1] = Turn[<<k, p[k]>>]
      BY <3>1
    <3> DEFINE q == [k \in 0..n + 1 |-> IF k <= n THEN p[k] ELSE Turn[<<n, p[n]>>]]
    <3>3. p[n] \in X /\ Turn[<<n, p[n]>>] \in X
      BY <3>2
    <3>4. q \in [0..n + 1 -> X]
      BY <3>2, <3>3
    <3>5. q[0] = a
      BY <3>2
    <3>6. ASSUME NEW k \in 0..(n + 1) - 1 PROVE q[k + 1] = Turn[<<k, q[k]>>]
      <4>1. CASE k = n
        <5>1. q[k + 1] = Turn[<<n, p[n]>>] /\ q[k] = p[n]
          BY <4>1
        <5> HIDE DEF q
        <5> QED BY <4>1, <5>1
      <4>2. CASE k # n
        <5>1. k \in 0..n - 1 /\ q[k + 1] = p[k + 1] /\ q[k] = p[k]
          BY <4>2
        <5> HIDE DEF q
        <5> QED BY <3>2, <5>1
      <4> QED BY <4>1, <4>2
    <3> HIDE DEF q
    <3>7. q \in Upto(n + 1)
      BY <3>4, <3>5, <3>6
    <3> QED BY <3>7
  <2> HIDE DEF Exist
  <2> QED BY <2>1, <2>2, Induction
<1>2. Nat \subseteq Agree
  <2>1. 0 \in Agree
    <3>1. \A n \in Nat : \A p \in Upto(n) : p[0] = a
      OBVIOUS
    <3> HIDE DEF Upto
    <3> QED BY <3>1
  <2>2. ASSUME NEW k \in Nat, k \in Agree PROVE k + 1 \in Agree
    <3>1. SUFFICES ASSUME NEW m \in Nat, NEW n \in Nat, NEW p \in Upto(m), NEW q \in Upto(n),
                          k + 1 <= m, k + 1 <= n
                   PROVE  p[k + 1] = q[k + 1]
      <4> HIDE DEF Upto
      <4> QED OBVIOUS
    <3>2. p[k] = q[k]
      <4> HIDE DEF Upto
      <4> QED BY <2>2, <3>1
    <3>3. k \in 0..m - 1 /\ k \in 0..n - 1
      BY <3>1
    <3> QED BY <3>2, <3>3
  <2> HIDE DEF Agree
  <2> QED BY <2>1, <2>2, Induction
<1> DEFINE part(n) == CHOOSE p \in Upto(n) : TRUE
           g == [n \in Nat |-> part(n)[n]]
<1>3. \A n \in Nat : part(n) \in Upto(n)
  BY <1>1
<1> HIDE DEF part, Upto
<1>4. g \in [Nat -> X] /\ g[0] = a
  <2>1. \A n \in Nat : part(n)[n] \in X
    <3> TAKE n \in Nat
    <3>1. part(n) \in [0..n -> X]
      BY <1>3 DEF Upto
    <3> QED BY <3>1
  <2>2. part(0)[0] = a
    <3>1. part(0) \in Upto(0)
      BY <1>3
    <3> QED BY <3>1 DEF Upto
  <2> QED BY <2>1, <2>2
<1>5. ASSUME NEW n \in Nat PROVE g[n + 1] = Turn[<<n, g[n]>>]
  <2>1. part(n + 1) \in Upto(n + 1) /\ part(n) \in Upto(n)
    BY <1>3
  <2>2. part(n + 1)[n + 1] = Turn[<<n, part(n + 1)[n]>>]
    <3>1. n \in 0..(n + 1) - 1
      OBVIOUS
    <3> QED BY <2>1, <3>1 DEF Upto
  <2>3. part(n + 1)[n] = part(n)[n]
    <3>1. n \in Agree
      BY <1>2
    <3> QED BY <2>1, <3>1
  <2> QED BY <2>2, <2>3
<1> HIDE DEF g
<1>6. \A n \in Nat : g[n] \in X /\ g[n + 1] = Turn[<<n, g[n]>>]
  BY <1>4, <1>5
<1> QED BY <1>4, <1>6 DEF IsLoop

\* N turns of a loop
LEMMA Loop ==
  ASSUME NEW N \in Nat, NEW X, NEW a \in X, NEW Turn \in Bodies(0..N - 1, X)
  PROVE  \E f \in [0..N -> X] : IsLoop(f, 0..N - 1, X, a, Turn)
<1> DEFINE Total == [p \in Nat \X X |-> IF p[1] \in 0..N - 1 THEN Turn[p] ELSE a]
<1>1. Total \in Bodies(Nat, X)
  <2> USE DEF Bodies
  <2>1. ASSUME NEW k \in Nat, NEW x \in X, k \in 0..N - 1 PROVE Turn[<<k, x>>] \in X
    BY <2>1
  <2> QED BY <2>1
<1>2. \A n \in 0..N - 1, x \in X : Total[<<n, x>>] = Turn[<<n, x>>]
  OBVIOUS
<1> HIDE DEF Total
<1>3. PICK g : IsLoop(g, Nat, X, a, Total)
  BY <1>1, LoopExists
<1>9. g[0] = a /\ \A n \in Nat : g[n] \in X /\ g[n + 1] = Total[<<n, g[n]>>]
  BY <1>3 DEF IsLoop
<1>10. \A n \in Nat : g[n] \in X
  <2> TAKE n \in Nat
  <2> QED BY <1>9
<1> DEFINE f == [n \in 0..N |-> g[n]]
<1>4. f \in [0..N -> X] /\ f[0] = a
  BY <1>9, <1>10
<1>5. ASSUME NEW n \in 0..N - 1 PROVE f[n] \in X /\ f[n + 1] = Turn[<<n, f[n]>>]
  <2>1. f[n + 1] = g[n + 1] /\ f[n] = g[n]
    OBVIOUS
  <2> HIDE DEF f
  <2>2. g[n] \in X /\ n \in Nat
    BY <1>10
  <2> QED BY <2>1, <2>2, <1>2, <1>9
<1> HIDE DEF f
<1> QED BY <1>4, <1>5 DEF IsLoop
=============================================================================
