------------------------------ MODULE Descent ------------------------------
(***************************************************************************)
(* Why what only ever falls comes to rest: the liveness proofs count what  *)
(* is left to do in natural numbers.                                       *)
(***************************************************************************)
EXTENDS Naturals, WellFoundedInduction, TLAPS

LEMMA Least ==
    ASSUME NEW T, T \subseteq Nat, T # {}
    PROVE  \E x \in T : \A y \in T : x <= y
  <1>1. \E x \in T : \A y \in T : ~(<<y, x>> \in OpToRel(<, Nat))
    BY WFMin, NatLessThanWellFounded
  <1>2. PICK x \in T : \A y \in T : ~(<<y, x>> \in OpToRel(<, Nat))
    BY <1>1
  <1>3. ASSUME NEW y \in T PROVE x <= y
    <2>1. x \in Nat /\ y \in Nat
      BY <1>2
    <2>2. y < x => <<y, x>> \in OpToRel(<, Nat)
      BY <2>1 DEF OpToRel
    <2>3. ~(y < x)
      BY <1>2, <2>2, Zenon
    <2>4. QED BY <2>1, <2>3, SMT
  <1>4. QED BY <1>3

\* A sequence of natural numbers that never rises is constant from some place on.
THEOREM NeverRisingSettles ==
    ASSUME NEW f \in [Nat -> Nat], \A n \in Nat : f[n + 1] <= f[n]
    PROVE  \E k \in Nat : \A n \in Nat : n >= k => f[n] = f[k]
  <1>1. PICK k \in Nat : \A n \in Nat : f[k] <= f[n]
    <2>1. \E x \in {f[n] : n \in Nat} : \A y \in {f[n] : n \in Nat} : x <= y
      <3>1. {f[n] : n \in Nat} \subseteq Nat /\ {f[n] : n \in Nat} # {}
        OBVIOUS
      <3>2. QED BY <3>1, Least
    <2>2. QED BY <2>1
  <1>2. ASSUME NEW n \in Nat, n >= k, f[n] # f[k] PROVE FALSE
    <2> DEFINE T == {m \in Nat : m >= k /\ f[m] # f[k]}
    <2>1. PICK m \in T : \A y \in T : m <= y
      <3>1. T \subseteq Nat /\ n \in T
        BY <1>2
      <3>2. QED BY <3>1, Least
    <2>2. m \in Nat /\ m # k /\ m >= k /\ f[m] # f[k]
      BY <2>1
    <2>3. m - 1 \in Nat /\ m - 1 >= k /\ (m - 1) + 1 = m /\ ~(m <= m - 1)
      BY <2>2
    <2>4. f[m - 1] = f[k]
      BY <2>1, <2>3
    <2>5. f[m] <= f[m - 1] /\ f[k] <= f[m]
      BY <1>1, <2>2, <2>3
    <2>6. f[m] \in Nat /\ f[k] \in Nat
      BY <2>2
    <2>7. \A a, b \in Nat : (a <= b /\ b <= a) => a = b
      OBVIOUS
    <2>8. f[m] = f[k]
      BY <2>4, <2>5, <2>6, <2>7
    <2>9. QED BY <2>2, <2>8
  <1>3. QED BY <1>2

-----------------------------------------------------------------------------
\* The same of a behaviour, in which a state function m has a value in every state,
\* from every state on.  The theorem above holds for all sequences of numbers, so
\* every behaviour satisfies this; but to apply it to the sequence of m's values takes
\* a function defined by a temporal formula, which TLA+ does not have.  The theorems
\* that need it therefore have it as a hypothesis, for the measures they name.
StopsFalling(m, v) == []([](m \in Nat) /\ [][m' <= m]_v => <>[][m' = m]_v)
=============================================================================
