---------------------------- MODULE FiniteFacts -----------------------------
(***************************************************************************)
(* What the proofs use of finite sets, as formulas.  A lemma that counts   *)
(* has FiniteFacts among its assumptions, and a proof module discharges it *)
(* once, from the library's theorems on finite sets.  The lemmas are then  *)
(* about this handful of facts, and the library stays out of their way.    *)
(***************************************************************************)
EXTENDS Integers, FiniteSets

CountFact == \A S : IsFiniteSet(S) => Cardinality(S) \in Nat

EmptyFact ==
  /\ IsFiniteSet({}) /\ Cardinality({}) = 0
  /\ \A S : IsFiniteSet(S) => (Cardinality(S) = 0 <=> S = {})

SingletonFact == \A x : IsFiniteSet({x}) /\ Cardinality({x}) = 1

IntervalFact ==
  \A a, b \in Int : /\ IsFiniteSet(a .. b)
                    /\ Cardinality(a .. b) = IF a > b THEN 0 ELSE b - a + 1

SubsetFact ==
  \A S : IsFiniteSet(S) =>
    \A T \in SUBSET S : /\ IsFiniteSet(T)
                        /\ Cardinality(T) <= Cardinality(S)
                        /\ Cardinality(S) = Cardinality(T) => S = T

AddFact ==
  \A S, x : IsFiniteSet(S) =>
    /\ IsFiniteSet(S \cup {x})
    /\ Cardinality(S \cup {x}) = IF x \in S THEN Cardinality(S) ELSE Cardinality(S) + 1

RemoveFact ==
  \A S, x : IsFiniteSet(S) =>
    /\ IsFiniteSet(S \ {x})
    /\ Cardinality(S \ {x}) = IF x \in S THEN Cardinality(S) - 1 ELSE Cardinality(S)

UnionFact ==
  \A S, T : IsFiniteSet(S) /\ IsFiniteSet(T) =>
    /\ IsFiniteSet(S \cup T)
    /\ Cardinality(S \cup T) = Cardinality(S) + Cardinality(T) - Cardinality(S \cap T)

ProductFact == \A S, T : IsFiniteSet(S) /\ IsFiniteSet(T) => IsFiniteSet(S \X T)

\* A map from a finite set onto another, and one to one into a finite set,
\* which is onto when the two are of one size.
OntoFact ==
  \A S, T : IsFiniteSet(S) =>
    \A f \in [S -> T] :
      (\A t \in T : \E s \in S : f[s] = t) => IsFiniteSet(T) /\ Cardinality(T) <= Cardinality(S)

IntoFact ==
  \A S, T : IsFiniteSet(T) =>
    \A f \in [S -> T] :
      (\A s, t \in S : f[s] = f[t] => s = t) =>
        /\ IsFiniteSet(S) /\ Cardinality(S) <= Cardinality(T)
        /\ Cardinality(S) = Cardinality(T) => \A t \in T : \E s \in S : f[s] = t

\* A nonempty set of naturals has a least member.
LeastFact == \A S \in SUBSET Nat : S # {} => \E x \in S : \A y \in S : x <= y

FiniteFacts ==
  /\ CountFact
  /\ EmptyFact
  /\ SingletonFact
  /\ IntervalFact
  /\ SubsetFact
  /\ AddFact
  /\ RemoveFact
  /\ UnionFact
  /\ ProductFact
  /\ OntoFact
  /\ IntoFact
  /\ LeastFact

=============================================================================
