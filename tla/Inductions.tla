---------------------------- MODULE Inductions -----------------------------
(***************************************************************************)
(* Induction for the proofs of this project: a set of numbers has a least  *)
(* one, so that a claim about every number fails first at some number; and *)
(* what FlattenSeq is, by such an induction.                               *)
(***************************************************************************)
EXTENDS Integers, SequencesExt, WellFoundedInduction, TLAPS

\* Every set of numbers has a least one.
LEMMA HasLeast ==
  ASSUME NEW S \in SUBSET Nat, S # {}
  PROVE  \E least \in S : \A n \in S : least <= n
<1>1. PICK least \in S : \A n \in S : ~(<<n, least>> \in OpToRel(<, Nat))
  BY WFMin, NatLessThanWellFounded
<1>2. \A n \in S : ~(n < least)
  BY <1>1, Zenon DEF OpToRel
<1>3. QED
  BY <1>2
-----------------------------------------------------------------------------
\* A function that satisfies the recursion of FlattenSeq.
Flattens(f, s, n) == f = [i \in 1 .. n |-> IF i = 1 THEN s[i] ELSE f[i - 1] \o s[i]]

\* The recursion has a solution.
LEMMA FlatExists ==
  ASSUME NEW s, NEW n \in Nat
  PROVE  \E f : Flattens(f, s, n)
<1> DEFINE bad == {m \in Nat : ~ \E f : Flattens(f, s, m)}
<1>1. SUFFICES ASSUME bad # {} PROVE FALSE
  OBVIOUS
<1>2. PICK m \in bad : \A i \in bad : m <= i
  BY <1>1, HasLeast
<1>3. m # 0
  <2>1. Flattens([i \in 1 .. 0 |-> s[i]], s, 0)
    BY DEF Flattens
  <2>2. QED
    BY <1>2, <2>1
<1>4. m \in Nat /\ m - 1 \in Nat /\ m - 1 \notin bad
  BY <1>2, <1>3
<1>5. PICK g : Flattens(g, s, m - 1)
  BY <1>4
<1> DEFINE f == [i \in 1 .. m |-> IF i < m THEN g[i]
                                  ELSE IF m = 1 THEN s[m] ELSE g[m - 1] \o s[m]]
<1>6. ASSUME NEW i \in 1 .. m PROVE f[i] = IF i = 1 THEN s[i] ELSE f[i - 1] \o s[i]
  <2>1. CASE i < m
    <3>1. i \in 1 .. m - 1 /\ (i # 1 => i - 1 \in 1 .. m /\ i - 1 < m)
      BY <1>4, <2>1
    <3>2. g[i] = IF i = 1 THEN s[i] ELSE g[i - 1] \o s[i]
      BY <1>5, <3>1 DEF Flattens
    <3>3. f[i] = g[i] /\ (i # 1 => f[i - 1] = g[i - 1])
      BY <2>1, <3>1
    <3>4. QED
      BY <3>2, <3>3
  <2>2. CASE i = m
    <3>1. m # 1 => m - 1 \in 1 .. m /\ m - 1 < m
      BY <1>4, <1>3
    <3>2. m # 1 => f[m - 1] = g[m - 1]
      BY <3>1
    <3>3. f[m] = IF m = 1 THEN s[m] ELSE g[m - 1] \o s[m]
      BY <1>4, <2>2
    <3>4. QED
      BY <2>2, <3>2, <3>3
  <2>3. QED
    BY <1>4, <2>1, <2>2
<1>7. f = [i \in 1 .. m |-> f[i]]
  OBVIOUS
<1> HIDE DEF f
<1>8. Flattens(f, s, m)
  BY <1>6, <1>7 DEF Flattens
<1>9. QED
  BY <1>2, <1>8

AgreeTo(f, g, n) == \A i \in 1 .. n : f[i] = g[i]

\* What it is up to some place depends on nothing behind it.
LEMMA FlatAgrees ==
  ASSUME NEW s, NEW t, NEW n \in Nat, AgreeTo(s, t, n),
         NEW f, Flattens(f, s, n), NEW g, Flattens(g, t, n + 1)
  PROVE  AgreeTo(f, g, n)
<1> DEFINE bad == {i \in 1 .. n : f[i] # g[i]}
<1>1. SUFFICES ASSUME bad # {} PROVE FALSE
  BY DEF AgreeTo
<1>2. bad \in SUBSET Nat
  OBVIOUS
<1>3. PICK k \in bad : \A i \in bad : k <= i
  BY <1>1, <1>2, HasLeast
<1>4. k \in 1 .. n /\ k \in 1 .. n + 1 /\ (k # 1 => k - 1 \in 1 .. n /\ k - 1 \notin bad)
  BY <1>3
<1>5. /\ f[k] = IF k = 1 THEN s[k] ELSE f[k - 1] \o s[k]
      /\ g[k] = IF k = 1 THEN t[k] ELSE g[k - 1] \o t[k]
  BY <1>4 DEF Flattens
<1>6. k # 1 => f[k - 1] = g[k - 1]
  BY <1>4
<1>7. s[k] = t[k]
  BY <1>4 DEF AgreeTo
<1>8. QED
  BY <1>3, <1>5, <1>6, <1>7

\* FlattenSeq is what its recursion says.
LEMMA FlattenIs ==
  ASSUME NEW s, Len(s) \in Nat \ {0}
  PROVE  \E f : Flattens(f, s, Len(s)) /\ FlattenSeq(s) = f[Len(s)]
<1> DEFINE f == CHOOSE f : Flattens(f, s, Len(s))
<1>1. FlattenSeq(s) = f[Len(s)]
  BY DEF FlattenSeq, Flattens
<1>2. Flattens(f, s, Len(s))
  BY FlatExists
<1>3. QED
  BY <1>1, <1>2
=============================================================================
