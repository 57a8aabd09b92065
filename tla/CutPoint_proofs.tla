--------------------------- MODULE CutPoint_proofs ----------------------------
(***************************************************************************)
(* Theorems of CutPoint, for every log, every number of calls and of       *)
(* compactions, and all weights, budgets and estimates.                    *)
(***************************************************************************)
EXTENDS CutPoint, SequenceTheorems, WellFoundedInduction, FiniteSetTheorems, TLAPS

LEMMA Constants ==
  /\ MaxMessages \in Nat /\ MaxCalls \in Nat /\ MaxRules \in Nat
  /\ Weights \subseteq Nat /\ RuleWeights \subseteq Nat /\ Keeps \subseteq Nat \ {0}
  /\ SystemTokens \in Nat \ {0} /\ SummaryTokens \in Nat \ {0}
  /\ {WindowKeep, CostKeep} \subseteq Keeps
  /\ {Threshold, Remaining, AssumedSummary, TemplateTokens, ResultTokens} \subseteq Nat
  BY CutPointAssumption

-------------------------------------------------------------------------------
(* The least and the greatest number of a set.                             *)
LEMMA LeastOf ==
  ASSUME NEW S, S \subseteq Nat, S # {}
  PROVE  \E x \in S : \A y \in S : x <= y
<1> DEFINE R == OpToRel(<, Nat)
<1>1. \A x, y \in Nat : y < x => <<y, x>> \in R
  BY DEF OpToRel
<1>2. IsWellFoundedOn(R, Nat)
  BY NatLessThanWellFounded
<1> HIDE DEF R
<1>3. PICK x \in S : \A y \in S : ~(<<y, x>> \in R)
  BY <1>2, WFMin
<1>4. ASSUME NEW y \in S PROVE x <= y
  <2>1. x \in Nat /\ y \in Nat /\ ~(y < x)
    BY <1>1, <1>3
  <2> QED BY <2>1
<1> QED BY <1>4

LEMMA MinOf ==
  ASSUME NEW S, S \subseteq Nat, S # {}
  PROVE  Min(S) \in S /\ \A y \in S : Min(S) <= y
<1>1. \E x \in S : \A y \in S : x <= y
  BY LeastOf
<1> QED BY <1>1 DEF Min

LEMMA MaxOf ==
  ASSUME NEW n \in Nat, NEW S, S \subseteq 0 .. n, S # {}
  PROVE  Max(S) \in S /\ \A y \in S : y <= Max(S)
<1> DEFINE T == {n - x : x \in S}
<1>1. ASSUME NEW x \in S PROVE x \in Nat /\ x <= n /\ n - x \in Nat
  <2>1. x \in 0 .. n
    OBVIOUS
  <2> QED BY <2>1
<1>2. T \subseteq Nat /\ T # {}
  BY <1>1
<1> HIDE DEF T
<1>3. PICK t \in T : \A y \in T : t <= y
  BY <1>2, LeastOf
<1>4. PICK x \in S : t = n - x
  BY DEF T
<1>5. ASSUME NEW y \in S PROVE x >= y
  <2>1. n - y \in T
    BY DEF T
  <2>2. n - x <= n - y
    BY <1>3, <1>4, <2>1
  <2> QED BY <1>1, <2>2
<1>6. \E z \in S : \A y \in S : z >= y
  BY <1>5
<1>7. Max(S) \in S /\ \A y \in S : Max(S) >= y
  BY <1>6 DEF Max
<1> QED BY <1>1, <1>7

-------------------------------------------------------------------------------
(* Sums over a finite set of indices.                                      *)

(* What iter is, so that SumFunctionOnSet can be taken apart. *)
IsSums(sum, f, D) ==
  sum = [s \in D |-> IF s = {} THEN 0
                     ELSE f[CHOOSE x \in s : TRUE] + sum[s \ {CHOOSE x \in s : TRUE}]]
Sums(f, D) == CHOOSE sum : IsSums(sum, f, SUBSET D)
Chosen(s) == CHOOSE x \in s : TRUE

LEMMA SumIs ==
  ASSUME NEW f, NEW S
  PROVE  SumFunctionOnSet(f, S) = Sums(f, S)[S]
  BY DEF SumFunctionOnSet, FoldFunctionOnSet, MapThenFoldSet, IsSums, Sums

LEMMA OneLess ==
  ASSUME NEW S, IsFiniteSet(S), S # {}
  PROVE  /\ Chosen(S) \in S
         /\ IsFiniteSet(S \ {Chosen(S)})
         /\ Cardinality(S \ {Chosen(S)}) = Cardinality(S) - 1
         /\ Cardinality(S) \in Nat \ {0}
<1>1. Chosen(S) \in S
  BY DEF Chosen
<1>2. Cardinality(S) \in Nat /\ Cardinality(S) # 0
  BY FS_EmptySet, FS_CardinalityType
<1>3. IsFiniteSet(S \ {Chosen(S)}) /\ Cardinality(S \ {Chosen(S)}) = Cardinality(S) - 1
  BY <1>1, FS_RemoveElement
<1> QED BY <1>1, <1>2, <1>3

LEMMA SumsExist ==
  ASSUME NEW f, NEW S, IsFiniteSet(S)
  PROVE  \E sum : IsSums(sum, f, SUBSET S)
<1> DEFINE Upto(n) == {s \in SUBSET S : Cardinality(s) <= n}
           Bad == {n \in Nat : ~\E sum : IsSums(sum, f, Upto(n))}
<1>1. \A s \in SUBSET S : IsFiniteSet(s) /\ Cardinality(s) \in Nat
  BY FS_Subset, FS_CardinalityType
<1>2. 0 \notin Bad
  <2> DEFINE g == [s \in Upto(0) |-> 0]
  <2>1. \A s \in Upto(0) : s = {}
    BY <1>1, FS_EmptySet
  <2>2. IsSums(g, f, Upto(0))
    BY <2>1 DEF IsSums, Chosen
  <2> QED BY <2>2
<1>3. ASSUME NEW n \in Nat, NEW g, IsSums(g, f, Upto(n))
      PROVE  \E h : IsSums(h, f, Upto(n + 1))
  <2> DEFINE h == [s \in Upto(n + 1) |->
                     IF s = {} THEN 0 ELSE f[Chosen(s)] + g[s \ {Chosen(s)}]]
  <2>1. \A s \in Upto(n) : s \in Upto(n + 1) /\ h[s] = g[s]
    <3> TAKE s \in Upto(n)
    <3>1. s \in Upto(n + 1)
      BY <1>1
    <3>2. g[s] = IF s = {} THEN 0 ELSE f[Chosen(s)] + g[s \ {Chosen(s)}]
      BY <1>3 DEF IsSums, Chosen
    <3> QED BY <3>1, <3>2
  <2>2. ASSUME NEW s \in Upto(n + 1), s # {}
        PROVE  s \ {Chosen(s)} \in Upto(n)
    <3>1. Cardinality(s \ {Chosen(s)}) = Cardinality(s) - 1
      BY <1>1, <2>2, OneLess
    <3>2. Cardinality(s) \in Nat /\ Cardinality(s) <= n + 1 /\ s \ {Chosen(s)} \in SUBSET S
      BY <1>1
    <3> QED BY <3>1, <3>2
  <2>3. ASSUME NEW s \in Upto(n + 1)
        PROVE  h[s] = IF s = {} THEN 0 ELSE f[Chosen(s)] + h[s \ {Chosen(s)}]
    <3>1. h[s] = IF s = {} THEN 0 ELSE f[Chosen(s)] + g[s \ {Chosen(s)}]
      OBVIOUS
    <3>2. s # {} => h[s \ {Chosen(s)}] = g[s \ {Chosen(s)}]
      BY <2>1, <2>2
    <3> HIDE DEF h
    <3> QED BY <3>1, <3>2
  <2>4. h = [s \in Upto(n + 1) |-> IF s = {} THEN 0 ELSE f[Chosen(s)] + h[s \ {Chosen(s)}]]
    <3>1. h = [s \in Upto(n + 1) |-> h[s]]
      OBVIOUS
    <3> HIDE DEF h, Upto
    <3> QED BY <2>3, <3>1
  <2>5. IsSums(h, f, Upto(n + 1))
    <3> HIDE DEF h, Upto
    <3> QED BY <2>4 DEF IsSums, Chosen
  <2> QED BY <2>5
<1>4. Bad = {}
  <2> SUFFICES ASSUME Bad # {} PROVE FALSE
    OBVIOUS
  <2>1. Bad \subseteq Nat
    OBVIOUS
  <2>2. PICK n \in Bad : \A m \in Bad : n <= m
    BY <2>1, LeastOf
  <2>3. n \in Nat /\ n # 0
    <3> HIDE DEF Bad
    <3> QED BY <1>2, <2>1, <2>2
  <2>4. n - 1 \in Nat /\ n - 1 \notin Bad /\ (n - 1) + 1 = n
    <3> HIDE DEF Bad
    <3> QED BY <2>1, <2>2, <2>3
  <2> HIDE DEF Upto
  <2>5. PICK g : IsSums(g, f, Upto(n - 1))
    BY <2>4
  <2>6. \E h : IsSums(h, f, Upto(n))
    BY <1>3, <2>4, <2>5
  <2> QED BY <2>2, <2>6
<1>5. Cardinality(S) \in Nat /\ Upto(Cardinality(S)) = SUBSET S
  <2>1. \A s \in SUBSET S : Cardinality(s) <= Cardinality(S)
    BY FS_Subset
  <2> QED BY <1>1, <2>1
<1>6. Cardinality(S) \notin Bad
  BY <1>4
<1> HIDE DEF Upto
<1>7. \E sum : IsSums(sum, f, Upto(Cardinality(S)))
  BY <1>5, <1>6
<1> QED BY <1>5, <1>7

LEMMA SumStep ==
  ASSUME NEW f, NEW S, IsFiniteSet(S)
  PROVE  \A s \in SUBSET S :
           Sums(f, S)[s] = IF s = {} THEN 0 ELSE f[Chosen(s)] + Sums(f, S)[s \ {Chosen(s)}]
<1>1. IsSums(Sums(f, S), f, SUBSET S)
  BY SumsExist DEF Sums
<1> QED BY <1>1 DEF IsSums, Chosen

(* A property that some subset of a finite set lacks, a smallest one lacks. *)
LEMMA SmallestSubset ==
  ASSUME NEW S, IsFiniteSet(S), NEW B, B \subseteq SUBSET S, B # {}
  PROVE  \E s \in B : \A t \in B : Cardinality(s) <= Cardinality(t)
<1> DEFINE N == {Cardinality(t) : t \in B}
<1>1. N \subseteq Nat /\ N # {}
  BY FS_Subset, FS_CardinalityType
<1>2. PICK n \in N : \A m \in N : n <= m
  BY <1>1, LeastOf
<1> QED BY <1>2

(* The sum over a part does not depend on the set it is part of. *)
LEMMA SumOfPart ==
  ASSUME NEW f, NEW S, IsFiniteSet(S), NEW T \in SUBSET S
  PROVE  Sums(f, S)[T] = SumFunctionOnSet(f, T)
<1> DEFINE B == {u \in SUBSET S : \E D \in SUBSET S : u \subseteq D /\ Sums(f, D)[u] # Sums(f, u)[u]}
<1>1. \A D \in SUBSET S : \A s \in SUBSET D :
        Sums(f, D)[s] = IF s = {} THEN 0 ELSE f[Chosen(s)] + Sums(f, D)[s \ {Chosen(s)}]
  <2> TAKE D \in SUBSET S
  <2> HIDE DEF B
  <2>1. IsFiniteSet(D)
    BY FS_Subset
  <2> QED BY <2>1, SumStep, ZenonT(60)
<1>2. B = {}
  <2> SUFFICES ASSUME B # {} PROVE FALSE
    OBVIOUS
  <2>1. PICK u \in B : \A t \in B : Cardinality(u) <= Cardinality(t)
    <3>1. B \subseteq SUBSET S
      OBVIOUS
    <3> HIDE DEF B
    <3> QED BY <3>1, SmallestSubset
  <2>2. PICK D \in SUBSET S : u \subseteq D /\ Sums(f, D)[u] # Sums(f, u)[u]
    OBVIOUS
  <2>3. u \in SUBSET S /\ u \in SUBSET D /\ u \in SUBSET u
    BY <2>2
  <2>4. Sums(f, D)[u] = (IF u = {} THEN 0 ELSE f[Chosen(u)] + Sums(f, D)[u \ {Chosen(u)}])
        /\ Sums(f, u)[u] = (IF u = {} THEN 0 ELSE f[Chosen(u)] + Sums(f, u)[u \ {Chosen(u)}])
    BY <1>1, <2>2, <2>3
  <2>5. u # {}
    BY <2>2, <2>4
  <2> DEFINE v == u \ {Chosen(u)}
  <2>6. v \in SUBSET S /\ v \subseteq u /\ v \subseteq D
    BY <2>3
  <2>7. Cardinality(v) = Cardinality(u) - 1 /\ Cardinality(u) \in Nat
    BY <2>3, <2>5, FS_Subset, OneLess
  <2>8. v \notin B
    <3> HIDE DEF B, v
    <3> QED BY <2>1, <2>7
  <2>9. Sums(f, D)[v] = Sums(f, v)[v] /\ Sums(f, u)[v] = Sums(f, v)[v]
    <3> HIDE DEF v
    <3> QED BY <2>2, <2>3, <2>6, <2>8
  <2> HIDE DEF v
  <2> QED BY <2>2, <2>4, <2>5, <2>9 DEF v
<1>3. Sums(f, S)[T] = Sums(f, T)[T]
  BY <1>2
<1> QED BY <1>3, SumIs

LEMMA SumEmpty == ASSUME NEW f PROVE SumFunctionOnSet(f, {}) = 0
  BY SumStep, SumIs, FS_EmptySet

LEMMA SumChosen ==
  ASSUME NEW f, NEW S, IsFiniteSet(S), S # {}
  PROVE  SumFunctionOnSet(f, S) = f[Chosen(S)] + SumFunctionOnSet(f, S \ {Chosen(S)})
<1>1. Sums(f, S)[S] = f[Chosen(S)] + Sums(f, S)[S \ {Chosen(S)}]
  BY SumStep
<1>2. Sums(f, S)[S] = SumFunctionOnSet(f, S)
  BY SumOfPart
<1>3. Sums(f, S)[S \ {Chosen(S)}] = SumFunctionOnSet(f, S \ {Chosen(S)})
  <2>1. S \ {Chosen(S)} \in SUBSET S
    OBVIOUS
  <2> QED BY <2>1, SumOfPart
<1> QED BY <1>1, <1>2, <1>3

LEMMA SumNat ==
  ASSUME NEW f, NEW S, IsFiniteSet(S), \A x \in S : f[x] \in Nat
  PROVE  SumFunctionOnSet(f, S) \in Nat
<1> DEFINE B == {s \in SUBSET S : SumFunctionOnSet(f, s) \notin Nat}
<1>1. B = {}
  <2> SUFFICES ASSUME B # {} PROVE FALSE
    OBVIOUS
  <2>1. PICK u \in B : \A t \in B : Cardinality(u) <= Cardinality(t)
    <3>1. B \subseteq SUBSET S
      OBVIOUS
    <3> HIDE DEF B
    <3> QED BY <3>1, SmallestSubset
  <2>2. u # {}
    BY SumEmpty
  <2> DEFINE c == Chosen(u)
  <2>3. IsFiniteSet(u)
    BY FS_Subset
  <2>4. c \in u /\ Cardinality(u \ {c}) = Cardinality(u) - 1 /\ Cardinality(u) \in Nat
    BY <2>2, <2>3, OneLess
  <2>5. SumFunctionOnSet(f, u) = f[c] + SumFunctionOnSet(f, u \ {c})
    BY <2>2, <2>3, SumChosen
  <2> HIDE DEF c
  <2>6. u \ {c} \notin B /\ u \ {c} \in SUBSET S
    <3>1. B \subseteq SUBSET S
      OBVIOUS
    <3> HIDE DEF B
    <3> QED BY <2>1, <2>4, <3>1
  <2>7. SumFunctionOnSet(f, u \ {c}) \in Nat /\ f[c] \in Nat
    BY <2>4, <2>6
  <2> QED BY <2>5, <2>7
<1> QED BY <1>1

(* Any element may be taken out of a sum. *)
LEMMA SumWithout ==
  ASSUME NEW f, NEW S, IsFiniteSet(S), \A x \in S : f[x] \in Nat, NEW a \in S
  PROVE  SumFunctionOnSet(f, S) = f[a] + SumFunctionOnSet(f, S \ {a})
<1> DEFINE sum(s) == SumFunctionOnSet(f, s)
           B == {s \in SUBSET S : \E x \in s : sum(s) # f[x] + sum(s \ {x})}
<1>1. B = {}
  <2> SUFFICES ASSUME B # {} PROVE FALSE
    OBVIOUS
  <2> HIDE DEF sum
  <2>1. PICK u \in B : \A t \in B : Cardinality(u) <= Cardinality(t)
    <3>1. B \subseteq SUBSET S
      OBVIOUS
    <3> HIDE DEF B
    <3> QED BY <3>1, SmallestSubset
  <2>2. PICK x \in u : sum(u) # f[x] + sum(u \ {x})
    OBVIOUS
  <2> DEFINE c == Chosen(u)
  <2>3. IsFiniteSet(u) /\ u \subseteq S /\ Cardinality(u) \in Nat
    BY FS_Subset, FS_CardinalityType
  <2>4. sum(u) = f[c] + sum(u \ {c}) /\ c \in u
    <3>1. u # {}
      OBVIOUS
    <3> HIDE DEF B
    <3> QED BY <2>3, <3>1, OneLess, SumChosen DEF sum
  <2> HIDE DEF c
  <2>5. x # c
    BY <2>2, <2>4
  <2>6. /\ Cardinality(u \ {c}) = Cardinality(u) - 1
        /\ Cardinality(u \ {x}) = Cardinality(u) - 1
    BY <2>3, <2>4, FS_RemoveElement
  <2>7. u \ {c} \in SUBSET S /\ u \ {x} \in SUBSET S /\ u \ {c} \notin B /\ u \ {x} \notin B
    <3>1. u \ {c} \in SUBSET S /\ u \ {x} \in SUBSET S
      BY <2>3
    <3> HIDE DEF B
    <3> QED BY <2>1, <2>3, <2>6, <3>1
  <2>8. x \in u \ {c} /\ c \in u \ {x}
    BY <2>4, <2>5
  <2>9. sum(u \ {c}) = f[x] + sum((u \ {c}) \ {x}) /\ sum(u \ {x}) = f[c] + sum((u \ {x}) \ {c})
    BY <2>7, <2>8
  <2>10. (u \ {c}) \ {x} = (u \ {x}) \ {c}
    OBVIOUS
  <2>11. f[x] \in Nat /\ f[c] \in Nat /\ sum((u \ {x}) \ {c}) \in Nat
    <3>1. IsFiniteSet((u \ {x}) \ {c}) /\ \A y \in (u \ {x}) \ {c} : f[y] \in Nat
      BY <2>3, FS_Subset
    <3> QED BY <2>3, <2>4, <3>1, SumNat DEF sum
  <2>12. sum(u \ {c}) = f[x] + sum((u \ {x}) \ {c})
    BY <2>9, <2>10
  <2>13. f[c] + (f[x] + sum((u \ {x}) \ {c})) = f[x] + (f[c] + sum((u \ {x}) \ {c}))
    BY <2>11
  <2> HIDE DEF B
  <2> QED BY <2>2, <2>4, <2>9, <2>12, <2>13
<1> QED BY <1>1

(* The sums over two sets that share nothing add up. *)
LEMMA SumUnion ==
  ASSUME NEW f, NEW S, IsFiniteSet(S), NEW T, IsFiniteSet(T), S \cap T = {},
         \A x \in S \cup T : f[x] \in Nat
  PROVE  SumFunctionOnSet(f, S \cup T) = SumFunctionOnSet(f, S) + SumFunctionOnSet(f, T)
<1> DEFINE sum(s) == SumFunctionOnSet(f, s)
           B == {s \in SUBSET S : sum(s \cup T) # sum(s) + sum(T)}
<1>1. B = {}
  <2> SUFFICES ASSUME B # {} PROVE FALSE
    OBVIOUS
  <2>1. PICK u \in B : \A t \in B : Cardinality(u) <= Cardinality(t)
    <3>1. B \subseteq SUBSET S
      OBVIOUS
    <3> HIDE DEF B
    <3> QED BY <3>1, SmallestSubset
  <2>2. u \subseteq S /\ sum(u \cup T) # sum(u) + sum(T)
    OBVIOUS
  <2>3. IsFiniteSet(u) /\ IsFiniteSet(u \cup T) /\ Cardinality(u) \in Nat
    BY <2>2, FS_Subset, FS_Union, FS_CardinalityType
  <2>4. sum(T) \in Nat
    BY SumNat
  <2>5. u # {}
    <3>1. sum({}) = 0
      BY SumEmpty
    <3> SUFFICES ASSUME u = {} PROVE FALSE
      OBVIOUS
    <3>2. u \cup T = T
      OBVIOUS
    <3> HIDE DEF sum, B
    <3> QED BY <2>2, <2>4, <3>1, <3>2
  <2>6. PICK x \in u : TRUE
    BY <2>5
  <2> HIDE DEF sum, B
  <2>7. u \ {x} \in SUBSET S /\ Cardinality(u \ {x}) = Cardinality(u) - 1
    BY <2>2, <2>3, FS_RemoveElement
  <2>8. u \ {x} \notin B
    BY <2>1, <2>3, <2>7
  <2>9. sum((u \ {x}) \cup T) = sum(u \ {x}) + sum(T)
    BY <2>7, <2>8 DEF B
  <2>10. (u \cup T) \ {x} = (u \ {x}) \cup T
    BY <2>2
  <2>11. sum(u \cup T) = f[x] + sum((u \ {x}) \cup T)
    <3>1. \A y \in u \cup T : f[y] \in Nat
      BY <2>2
    <3>2. x \in u \cup T
      OBVIOUS
    <3>3. sum(u \cup T) = f[x] + sum((u \cup T) \ {x})
      BY <2>3, <3>1, <3>2, SumWithout DEF sum
    <3> QED BY <2>10, <3>3
  <2>12. sum(u) = f[x] + sum(u \ {x})
    <3>1. \A y \in u : f[y] \in Nat
      BY <2>2
    <3> QED BY <2>3, <3>1, SumWithout DEF sum
  <2>13. f[x] \in Nat /\ sum(u \ {x}) \in Nat
    <3>1. IsFiniteSet(u \ {x}) /\ \A y \in u \ {x} : f[y] \in Nat
      BY <2>2, <2>3, FS_Subset
    <3> QED BY <2>2, <3>1, SumNat DEF sum
  <2> QED BY <2>2, <2>4, <2>9, <2>11, <2>12, <2>13
<1>2. S \notin B
  BY <1>1
<1> QED BY <1>2

LEMMA SumMonotone ==
  ASSUME NEW f, NEW S, IsFiniteSet(S), \A x \in S : f[x] \in Nat, NEW T \in SUBSET S
  PROVE  SumFunctionOnSet(f, T) <= SumFunctionOnSet(f, S)
<1>1. IsFiniteSet(T) /\ IsFiniteSet(S \ T)
  BY FS_Subset
<1>2. T \cup (S \ T) = S /\ T \cap (S \ T) = {}
  OBVIOUS
<1>3. SumFunctionOnSet(f, S) = SumFunctionOnSet(f, T) + SumFunctionOnSet(f, S \ T)
  <2>1. SumFunctionOnSet(f, T \cup (S \ T)) = SumFunctionOnSet(f, T) + SumFunctionOnSet(f, S \ T)
    BY <1>1, SumUnion
  <2> QED BY <1>2, <2>1
<1>4. SumFunctionOnSet(f, T) \in Nat /\ SumFunctionOnSet(f, S \ T) \in Nat
  BY <1>1, SumNat
<1> QED BY <1>3, <1>4

(* The first index of an interval taken out. *)
LEMMA SumFirst ==
  ASSUME NEW f, NEW a \in Int, NEW b \in Int, a <= b, \A x \in a .. b : f[x] \in Nat
  PROVE  SumFunctionOnSet(f, a .. b) = f[a] + SumFunctionOnSet(f, a + 1 .. b)
<1>1. IsFiniteSet(a .. b) /\ a \in a .. b
  BY FS_Interval
<1>2. (a .. b) \ {a} = a + 1 .. b
  OBVIOUS
<1>3. SumFunctionOnSet(f, a .. b) = f[a] + SumFunctionOnSet(f, (a .. b) \ {a})
  BY <1>1, SumWithout
<1> QED BY <1>2, <1>3

LEMMA SumSplit ==
  ASSUME NEW f, NEW a \in Int, NEW b \in Int, NEW c \in a .. b + 1,
         \A x \in a .. b : f[x] \in Nat
  PROVE  SumFunctionOnSet(f, a .. b)
           = SumFunctionOnSet(f, a .. c - 1) + SumFunctionOnSet(f, c .. b)
<1>1. IsFiniteSet(a .. c - 1) /\ IsFiniteSet(c .. b)
  BY FS_Interval
<1>2. (a .. c - 1) \cup (c .. b) = a .. b /\ (a .. c - 1) \cap (c .. b) = {}
  OBVIOUS
<1>3. SumFunctionOnSet(f, (a .. c - 1) \cup (c .. b))
        = SumFunctionOnSet(f, a .. c - 1) + SumFunctionOnSet(f, c .. b)
  BY <1>1, <1>2, SumUnion
<1> QED BY <1>2, <1>3

(* A sum is 0 exactly when each of its terms is. *)
LEMMA SumZero ==
  ASSUME NEW f, NEW S, IsFiniteSet(S), \A x \in S : f[x] \in Nat
  PROVE  SumFunctionOnSet(f, S) = 0 <=> \A x \in S : f[x] = 0
<1>1. ASSUME SumFunctionOnSet(f, S) = 0, NEW x \in S PROVE f[x] = 0
  <2>1. SumFunctionOnSet(f, S) = f[x] + SumFunctionOnSet(f, S \ {x})
    BY SumWithout
  <2>2. f[x] \in Nat /\ SumFunctionOnSet(f, S \ {x}) \in Nat
    <3>1. IsFiniteSet(S \ {x}) /\ \A y \in S \ {x} : f[y] \in Nat
      BY FS_Subset
    <3> QED BY <3>1, SumNat
  <2> QED BY <1>1, <2>1, <2>2
<1>2. ASSUME \A x \in S : f[x] = 0 PROVE SumFunctionOnSet(f, S) = 0
  <2> DEFINE B == {s \in SUBSET S : SumFunctionOnSet(f, s) # 0}
  <2>1. B = {}
    <3> SUFFICES ASSUME B # {} PROVE FALSE
      OBVIOUS
    <3>1. PICK u \in B : \A t \in B : Cardinality(u) <= Cardinality(t)
      <4>1. B \subseteq SUBSET S
        OBVIOUS
      <4> HIDE DEF B
      <4> QED BY <4>1, SmallestSubset
    <3>2. u # {} /\ u \subseteq S
      BY SumEmpty
    <3>3. IsFiniteSet(u)
      BY <3>2, FS_Subset
    <3> DEFINE c == Chosen(u)
    <3>4. c \in u /\ Cardinality(u \ {c}) = Cardinality(u) - 1 /\ Cardinality(u) \in Nat
      BY <3>2, <3>3, OneLess
    <3>5. SumFunctionOnSet(f, u) = f[c] + SumFunctionOnSet(f, u \ {c})
      BY <3>2, <3>3, SumChosen
    <3> HIDE DEF c
    <3>6. u \ {c} \notin B
      <4> HIDE DEF B
      <4> QED BY <3>1, <3>4
    <3>7. SumFunctionOnSet(f, u \ {c}) = 0 /\ f[c] = 0
      BY <1>2, <3>2, <3>4, <3>6
    <3> QED BY <3>1, <3>5, <3>7
  <2> QED BY <2>1
<1> QED BY <1>1, <1>2

(* The sum over the even numbers 2 * k of a set is that over its k. *)
LEMMA SumDoubled ==
  ASSUME NEW f, NEW g, NEW S, S \subseteq Nat, IsFiniteSet(S),
         \A k \in S : f[k] \in Nat /\ g[2 * k] = f[k]
  PROVE  /\ IsFiniteSet({2 * k : k \in S})
         /\ SumFunctionOnSet(g, {2 * k : k \in S}) = SumFunctionOnSet(f, S)
<1> DEFINE even(s) == {2 * k : k \in s}
           Same(s) == IsFiniteSet(even(s)) /\ SumFunctionOnSet(g, even(s)) = SumFunctionOnSet(f, s)
           B == {s \in SUBSET S : ~Same(s)}
<1>1. B = {}
  <2> SUFFICES ASSUME B # {} PROVE FALSE
    OBVIOUS
  <2>1. PICK u \in B : \A t \in B : Cardinality(u) <= Cardinality(t)
    <3>1. B \subseteq SUBSET S
      OBVIOUS
    <3> HIDE DEF B
    <3> QED BY <3>1, SmallestSubset
  <2>2. u \subseteq S /\ ~Same(u) /\ u \subseteq Nat
    OBVIOUS
  <2>3. u # {}
    <3>1. Same({})
      <4>1. even({}) = {}
        OBVIOUS
      <4> HIDE DEF even
      <4> QED BY <4>1, SumEmpty, FS_EmptySet
    <3> HIDE DEF Same
    <3> QED BY <2>2, <3>1
  <2>4. IsFiniteSet(u)
    BY <2>2, FS_Subset
  <2>5. PICK x \in u : TRUE
    BY <2>3
  <2> DEFINE v == u \ {x}
  <2>6. Cardinality(v) = Cardinality(u) - 1 /\ Cardinality(u) \in Nat /\ v \in SUBSET S
    BY <2>2, <2>4, FS_RemoveElement, FS_CardinalityType
  <2>7. Same(v)
    <3>1. v \notin B
      <4> HIDE DEF B, v
      <4> QED BY <2>1, <2>6
    <3> HIDE DEF Same, v
    <3> QED BY <2>6, <3>1
  <2>8. even(u) = even(v) \cup {2 * x} /\ 2 * x \notin even(v)
    BY <2>2
  <2>9. even(u) \ {2 * x} = even(v)
    BY <2>8
  <2>10. IsFiniteSet(even(u))
    <3> HIDE DEF even, v
    <3> QED BY <2>7, <2>8, FS_AddElement
  <2>11. \A i \in even(u) : g[i] \in Nat
    BY <2>2
  <2>12. SumFunctionOnSet(g, even(u)) = g[2 * x] + SumFunctionOnSet(g, even(v))
    <3>1. 2 * x \in even(u)
      OBVIOUS
    <3> HIDE DEF even, v
    <3> QED BY <2>9, <2>10, <2>11, <3>1, SumWithout
  <2>13. SumFunctionOnSet(f, u) = f[x] + SumFunctionOnSet(f, v)
    <3>1. \A y \in u : f[y] \in Nat
      BY <2>2
    <3> HIDE DEF B
    <3> QED BY <2>4, <3>1, SumWithout
  <2>14. g[2 * x] = f[x]
    BY <2>2
  <2> HIDE DEF even, v
  <2>15. Same(u)
    BY <2>7, <2>10, <2>12, <2>13, <2>14
  <2> QED BY <2>2, <2>15
<1>2. S \notin B
  BY <1>1
<1> QED BY <1>2

-------------------------------------------------------------------------------
(* The projection: where its messages stand, and what they are.             *)

(* A system entry stands before a task, or waits for the next one. *)
RulesBeforeTasks == \A p \in DOMAIN rules : p <= Len(log) => log[p].role = "user"

IInv == TypeOK /\ RulesBeforeTasks

(* The positions of the kept entries, and those of the others. *)
IsEntry(i) == \E p \in FirstKept(kept) .. Len(log) : i = 2 * p
IsPrompt(i) == /\ Messages[i].role = "system"
               /\ i < 2 * FirstKept(kept) \/ \E p \in DOMAIN rules : i = 2 * p - 1
IsEarlier(i) == Messages[i] = SummaryMessage /\ i < 2 * FirstKept(kept)

LEMMA Halves ==
  ASSUME NEW p \in Int
  PROVE  /\ EntryAt(2 * p) = p /\ ~IsRules(2 * p)
         /\ IsRules(2 * p - 1) /\ EntryAt((2 * p - 1) + 1) = p
<1>1. (2 * p) \div 2 = p /\ (2 * p) % 2 = 0 /\ (2 * p - 1) % 2 = 1 /\ (2 * p - 1) + 1 = 2 * p
  OBVIOUS
<1> QED BY <1>1 DEF EntryAt, IsRules

LEMMA Counts ==
  ASSUME TypeOK
  PROVE  /\ Len(log) \in Nat /\ DOMAIN log = 1 .. Len(log) /\ DOMAIN tokens = 1 .. Len(log)
         /\ kept \in 0 .. Len(log) /\ kept # 1
         /\ FirstKept(kept) \in Nat \ {0} /\ FirstKept(kept) <= Len(log) + 1
         /\ \A p \in 1 .. Len(log) : log[p] \in Message /\ tokens[p] \in Nat
         /\ \A p \in DOMAIN rules : p \in 1 .. Len(log) + 1 /\ rules[p] \in Nat
<1>1. log \in Seq(Message) /\ tokens \in Seq(Weights) /\ Len(tokens) = Len(log)
      /\ kept \in {0} \cup 2 .. Len(log)
  BY DEF TypeOK
<1>2. Len(log) \in Nat /\ DOMAIN log = 1 .. Len(log) /\ DOMAIN tokens = 1 .. Len(log)
  BY <1>1
<1>3. kept \in 0 .. Len(log) /\ kept # 1
  BY <1>1, <1>2
<1>4. FirstKept(kept) \in Nat \ {0} /\ FirstKept(kept) <= Len(log) + 1
  BY <1>2, <1>3 DEF FirstKept
<1>5. \A p \in 1 .. Len(log) : log[p] \in Message /\ tokens[p] \in Weights
  BY <1>1
<1>6. \A p \in DOMAIN rules : p \in 1 .. Len(log) + 1 /\ rules[p] \in RuleWeights
  BY DEF TypeOK
<1> QED BY <1>2, <1>3, <1>4, <1>5, <1>6, Constants

LEMMA Places ==
  ASSUME TypeOK
  PROVE  /\ DOMAIN Messages = Positions /\ DOMAIN MessageTokens = Positions
         /\ Positions \subseteq 1 .. 2 * Len(log) + 1
         /\ IsFiniteSet(Positions)
         /\ \A p \in FirstKept(kept) .. Len(log) :
              /\ 2 * p \in Positions
              /\ Messages[2 * p] = log[p] /\ MessageTokens[2 * p] = tokens[p]
         /\ \A i \in Positions : IsEntry(i) \/ IsPrompt(i) \/ IsEarlier(i)
         /\ \A i \in Positions : MessageTokens[i] \in Nat
<1> DEFINE N == Len(log)
           F == FirstKept(kept)
<1>1. N \in Nat /\ DOMAIN log = 1 .. N /\ kept \in 0 .. N /\ kept # 1 /\ F \in Nat \ {0}
      /\ F = (IF kept = 0 THEN 1 ELSE kept)
  BY Counts DEF FirstKept
<1>2. DOMAIN Messages = Positions /\ DOMAIN MessageTokens = Positions
  BY DEF Messages, MessageTokens
<1>3. ASSUME NEW p \in F .. N
      PROVE  /\ p \in 1 .. N /\ 2 * p \in Positions
             /\ Messages[2 * p] = log[p] /\ MessageTokens[2 * p] = tokens[p]
  <2>1. p \in 1 .. N
    BY <1>1
  <2>2. 2 * p \in Positions
    BY <1>1, <2>1 DEF Positions
  <2>3. ~IsRules(2 * p) /\ EntryAt(2 * p) = p /\ ~IsSummary(2 * p)
    <3>1. ~IsRules(2 * p) /\ EntryAt(2 * p) = p
      BY <2>1, Halves
    <3> QED BY <1>1, <3>1 DEF IsSummary
  <2> QED BY <2>1, <2>2, <2>3 DEF Messages, MessageTokens
<1>4. ASSUME NEW i \in Positions, ~(i \in {2 * p : p \in F .. N})
      PROVE  \/ kept = 0 /\ \E p \in DOMAIN rules : i = 2 * p - 1
             \/ kept # 0 /\ i = 2 * kept - 3
             \/ kept # 0 /\ i = 2 * kept - 2
  BY <1>1, <1>4 DEF Positions
<1>5. ASSUME NEW p \in DOMAIN rules, kept = 0, 2 * p - 1 \in Positions
      PROVE  /\ p \in 1 .. N + 1 /\ Messages[2 * p - 1].role = "system"
             /\ MessageTokens[2 * p - 1] \in Nat
  <2>1. p \in 1 .. N + 1 /\ rules[p] \in Nat
    BY Counts
  <2>2. IsRules(2 * p - 1) /\ EntryAt((2 * p - 1) + 1) = p
    <3>1. p \in Int
      BY <1>1, <2>1
    <3> QED BY <3>1, Halves
  <2> QED BY <1>5, <2>1, <2>2 DEF Messages, MessageTokens, SystemMessage
<1>6. ASSUME kept # 0, 2 * kept - 3 \in Positions
      PROVE  /\ 2 * kept - 3 \in 1 .. 2 * N /\ 2 * kept - 3 < 2 * F
             /\ Messages[2 * kept - 3].role = "system" /\ MessageTokens[2 * kept - 3] \in Nat
  <2>1. 2 * kept - 3 \in 1 .. 2 * N /\ 2 * kept - 3 < 2 * F
    BY <1>1, <1>6
  <2>2. IsRules(2 * kept - 3)
    <3>1. 2 * kept - 3 = 2 * (kept - 1) - 1 /\ kept - 1 \in Int
      BY <1>1
    <3>2. IsRules(2 * (kept - 1) - 1)
      BY <3>1, Halves
    <3> QED BY <3>1, <3>2
  <2> QED BY <1>6, <2>1, <2>2, Constants DEF Messages, MessageTokens, SystemMessage
<1>7. ASSUME kept # 0, 2 * kept - 2 \in Positions
      PROVE  /\ 2 * kept - 2 \in 1 .. 2 * N /\ 2 * kept - 2 < 2 * F
             /\ Messages[2 * kept - 2] = SummaryMessage /\ MessageTokens[2 * kept - 2] \in Nat
  <2>1. 2 * kept - 2 \in 1 .. 2 * N /\ 2 * kept - 2 < 2 * F
    BY <1>1, <1>7
  <2>2. ~IsRules(2 * kept - 2) /\ IsSummary(2 * kept - 2)
    <3>1. 2 * kept - 2 = 2 * (kept - 1) /\ kept - 1 \in Int /\ kept - 1 < F
      BY <1>1, <1>7
    <3>2. ~IsRules(2 * (kept - 1)) /\ EntryAt(2 * (kept - 1)) = kept - 1
      BY <3>1, Halves
    <3> QED BY <3>1, <3>2 DEF IsSummary
  <2> QED BY <1>7, <2>1, <2>2, Constants DEF Messages, MessageTokens
<1>8. ASSUME NEW i \in Positions
      PROVE  /\ i \in 1 .. 2 * N + 1
             /\ IsEntry(i) \/ IsPrompt(i) \/ IsEarlier(i)
             /\ MessageTokens[i] \in Nat
  <2>1. CASE i \in {2 * p : p \in F .. N}
    <3>1. PICK p \in F .. N : i = 2 * p
      BY <2>1
    <3>2. p \in 1 .. N /\ MessageTokens[i] = tokens[p]
      BY <1>3, <3>1
    <3>3. i \in 1 .. 2 * N + 1
      BY <1>1, <3>1, <3>2
    <3>4. tokens[p] \in Nat
      BY <3>2, Counts
    <3> QED BY <3>1, <3>2, <3>3, <3>4 DEF IsEntry
  <2>2. CASE kept = 0 /\ \E p \in DOMAIN rules : i = 2 * p - 1
    <3>1. PICK p \in DOMAIN rules : i = 2 * p - 1
      BY <2>2
    <3>2. p \in 1 .. N + 1 /\ Messages[i].role = "system" /\ MessageTokens[i] \in Nat
      BY <1>5, <2>2, <3>1
    <3>3. i \in 1 .. 2 * N + 1
      BY <1>1, <3>1, <3>2
    <3> QED BY <3>1, <3>2, <3>3 DEF IsPrompt
  <2>3. CASE kept # 0 /\ i = 2 * kept - 3
    <3>1. i \in 1 .. 2 * N /\ i < 2 * F /\ Messages[i].role = "system" /\ MessageTokens[i] \in Nat
      BY <1>6, <2>3
    <3>2. i \in 1 .. 2 * N + 1
      BY <1>1, <3>1
    <3> QED BY <3>1, <3>2 DEF IsPrompt
  <2>4. CASE kept # 0 /\ i = 2 * kept - 2
    <3>1. i \in 1 .. 2 * N /\ i < 2 * F /\ Messages[i] = SummaryMessage /\ MessageTokens[i] \in Nat
      BY <1>7, <2>4
    <3>2. i \in 1 .. 2 * N + 1
      BY <1>1, <3>1
    <3> QED BY <3>1, <3>2 DEF IsEarlier
  <2> QED BY <1>4, <2>1, <2>2, <2>3, <2>4
<1>9. Positions \subseteq 1 .. 2 * N + 1
  BY <1>8
<1>10. IsFiniteSet(Positions)
  <2>1. IsFiniteSet(1 .. 2 * N + 1)
    BY <1>1, FS_Interval
  <2> QED BY <1>9, <2>1, FS_Subset
<1> HIDE DEF N, F
<1> QED BY <1>2, <1>3, <1>8, <1>9, <1>10 DEF N, F

(* An assistant or tool message is a kept entry. *)
LEMMA EntryOf ==
  ASSUME TypeOK, NEW i \in Positions, Messages[i].role \in {"assistant", "tool"}
  PROVE  \E p \in FirstKept(kept) .. Len(log) : i = 2 * p /\ Messages[i] = log[p]
<1>1. IsEntry(i)
  BY Places DEF IsPrompt, IsEarlier, SummaryMessage
<1>2. PICK p \in FirstKept(kept) .. Len(log) : i = 2 * p
  BY <1>1 DEF IsEntry
<1> QED BY <1>2, Places

(* Two kept entries have only results between them in the projection when   *)
(* they do in the log.                                                     *)
LEMMA SameBatch ==
  ASSUME IInv, NEW a \in FirstKept(kept) .. Len(log), NEW j \in FirstKept(kept) .. Len(log)
  PROVE  (\A y \in Between(Messages, 2 * a, 2 * j) : Messages[y].role = "tool")
           <=> \A k \in a + 1 .. j : log[k].role = "tool"
<1>1. TypeOK /\ RulesBeforeTasks
  BY DEF IInv
<1>2. Len(log) \in Nat /\ FirstKept(kept) \in Nat \ {0} /\ a \in Nat /\ j \in Nat
      /\ FirstKept(kept) <= a /\ j <= Len(log)
  BY <1>1, Counts
<1>3. ASSUME \A y \in Between(Messages, 2 * a, 2 * j) : Messages[y].role = "tool",
             NEW k \in a + 1 .. j
      PROVE  log[k].role = "tool"
  <2>1. k \in FirstKept(kept) .. Len(log) /\ 2 * a < 2 * k /\ 2 * k <= 2 * j
    BY <1>2
  <2>2. 2 * k \in Positions /\ Messages[2 * k] = log[k]
    BY <1>1, <2>1, Places
  <2>3. 2 * k \in Between(Messages, 2 * a, 2 * j)
    BY <1>1, <2>1, <2>2, Places DEF Between
  <2> QED BY <1>3, <2>2, <2>3
<1>4. ASSUME \A k \in a + 1 .. j : log[k].role = "tool",
             NEW y \in Between(Messages, 2 * a, 2 * j)
      PROVE  Messages[y].role = "tool"
  <2>1. y \in Positions /\ 2 * a < y /\ y <= 2 * j
    BY <1>1, Places DEF Between
  <2>2. y \in Int
    BY <1>1, <2>1, Places
  <2>3. CASE IsEntry(y)
    <3>1. PICK p \in FirstKept(kept) .. Len(log) : y = 2 * p
      BY <2>3 DEF IsEntry
    <3>2. p \in a + 1 .. j
      BY <1>2, <2>1, <3>1
    <3> QED BY <1>1, <1>4, <3>1, <3>2, Places
  <2>4. CASE \E p \in DOMAIN rules : y = 2 * p - 1
    <3>1. PICK p \in DOMAIN rules : y = 2 * p - 1
      BY <2>4
    <3>2. p \in 1 .. Len(log) + 1
      BY <1>1, Counts
    <3>3. p \in a + 1 .. j /\ p <= Len(log)
      BY <1>2, <2>1, <3>1, <3>2
    <3>4. log[p].role = "user"
      BY <1>1, <3>3 DEF RulesBeforeTasks
    <3>5. log[p].role = "tool"
      BY <1>4, <3>3
    <3> QED BY <3>4, <3>5
  <2>5. ~(y < 2 * FirstKept(kept))
    BY <1>2, <2>1, <2>2
  <2> QED BY <1>1, <2>1, <2>3, <2>4, <2>5, Places DEF IsPrompt, IsEarlier
<1> QED BY <1>3, <1>4

-------------------------------------------------------------------------------
(* Batches of calls and results.                                           *)

(* No batch straddles a position that is not a tool message. *)
LEMMA KeptPairs ==
  ASSUME NEW s, NEW c \in Nat, NEW d \in Nat, NEW b \in 1 .. c,
         s[c].role # "tool", PairsValidIn(s, b, d)
  PROVE  PairsValidIn(s, c, d)
<1>1. \A i \in c .. d : i \in b .. d
  OBVIOUS
<1>2. ASSUME NEW j \in c .. d, s[j].role = "tool"
      PROVE  \E i \in c .. d : Answers(s, i, j)
  <2>1. PICK i \in b .. d : Answers(s, i, j)
    BY <1>2 DEF PairsValidIn
  <2>2. i >= c
    BY <2>1 DEF Answers
  <2> QED BY <2>1, <2>2
<1>3. ASSUME NEW i \in c .. d, s[i].role = "assistant", NEW id \in CallIds(s[i])
      PROVE  \E j \in c .. d : s[j].role = "tool" /\ ResultId(s[j]) = id /\ Answers(s, i, j)
  <2>1. PICK j \in b .. d : s[j].role = "tool" /\ ResultId(s[j]) = id /\ Answers(s, i, j)
    BY <1>1, <1>3 DEF PairsValidIn
  <2>2. j \in c .. d
    BY <2>1 DEF Answers
  <2> QED BY <2>1, <2>2
<1>4. \A i, j \in c .. d :
        (i < j /\ s[i].role = "assistant" /\ s[j].role = "assistant")
          => CallIds(s[i]) \cap CallIds(s[j]) = {}
  BY <1>1 DEF PairsValidIn
<1> QED BY <1>2, <1>3, <1>4 DEF PairsValidIn

(* In a replayable projection no call lacks its result. *)
LEMMA NoneIncomplete ==
  ASSUME IInv, Replayable(log, kept), NEW i \in Positions
  PROVE  ~Incomplete(Messages, i)
<1> DEFINE N == Len(log)
           F == FirstKept(kept)
<1>1. TypeOK /\ N \in Nat /\ F \in Nat \ {0} /\ DOMAIN Messages = Positions
  BY Counts, Places DEF IInv
<1>2. PairsValidIn(log, F, N)
  BY DEF Replayable
<1>3. \A p \in F .. N : 2 * p \in Positions /\ Messages[2 * p] = log[p]
  BY <1>1, Places
<1>4. \A y \in Positions : Messages[y].role \in {"assistant", "tool"} =>
        \E p \in F .. N : y = 2 * p /\ Messages[y] = log[p]
  BY <1>1, EntryOf
<1>5. \A a \in F .. N : \A j \in F .. N :
        (\A y \in Between(Messages, 2 * a, 2 * j) : Messages[y].role = "tool")
          <=> \A k \in a + 1 .. j : log[k].role = "tool"
  BY SameBatch
<1> HIDE DEF N, F
<1> SUFFICES ASSUME Messages[i].role = "assistant"
             PROVE  {ResultId(Messages[k]) : k \in Results(Messages, i)} = CallIds(Messages[i])
  BY DEF Incomplete
<1>6. PICK a \in F .. N : i = 2 * a /\ Messages[i] = log[a]
  BY <1>4
<1>7. ASSUME NEW id \in CallIds(Messages[i])
      PROVE  \E k \in Results(Messages, i) : ResultId(Messages[k]) = id
  <2>1. PICK j \in F .. N :
          log[j].role = "tool" /\ ResultId(log[j]) = id /\ Answers(log, a, j)
    BY <1>2, <1>6 DEF PairsValidIn
  <2>2. a < j /\ \A k \in a + 1 .. j : log[k].role = "tool"
    BY <2>1 DEF Answers
  <2>3. 2 * j \in Positions /\ Messages[2 * j] = log[j] /\ 2 * j > i
    <3>1. a \in Int /\ j \in Int
      BY <1>1
    <3> QED BY <1>3, <1>6, <2>2, <3>1
  <2>4. \A y \in Between(Messages, i, 2 * j) : Messages[y].role = "tool"
    BY <1>5, <1>6, <2>2
  <2>5. 2 * j \in Results(Messages, i)
    BY <1>1, <2>3, <2>4 DEF Results
  <2> QED BY <2>1, <2>3, <2>5
<1>8. ASSUME NEW x \in Results(Messages, i)
      PROVE  ResultId(Messages[x]) \in CallIds(Messages[i])
  <2>1. x \in Positions /\ x > i /\ \A y \in Between(Messages, i, x) : Messages[y].role = "tool"
    BY <1>1 DEF Results
  <2>2. Messages[x].role = "tool"
    <3>1. x \in Int
      BY <1>1, <2>1, Places
    <3>2. x \in Between(Messages, i, x)
      BY <1>1, <1>6, <2>1, <3>1 DEF Between
    <3> QED BY <2>1, <3>2
  <2>3. PICK j \in F .. N : x = 2 * j /\ Messages[x] = log[j]
    BY <1>4, <2>1, <2>2
  <2>4. a < j
    BY <1>1, <1>6, <2>1, <2>3
  <2>5. \A k \in a + 1 .. j : log[k].role = "tool"
    BY <1>5, <1>6, <2>1, <2>3
  <2>6. PICK b \in F .. N : Answers(log, b, j)
    BY <1>2, <2>2, <2>3 DEF PairsValidIn
  <2>7. b < j /\ log[b].role = "assistant" /\ \A k \in b + 1 .. j : log[k].role = "tool"
    BY <2>6 DEF Answers
  <2>8. b = a
    <3>1. ~(b < a)
      <4>1. b < a => a \in b + 1 .. j
        BY <1>1, <2>4
      <4> QED BY <1>6, <2>7, <4>1
    <3>2. ~(a < b)
      <4>1. a < b => b \in a + 1 .. j
        BY <1>1, <2>7
      <4> QED BY <2>5, <2>7, <4>1
    <3> QED BY <1>1, <3>1, <3>2
  <2> QED BY <1>6, <2>3, <2>6, <2>8 DEF Answers
<1> QED BY <1>7, <1>8

(* Only a result can be in a segment that began before it. *)
LEMMA OthersStart ==
  ASSUME TypeOK, NEW i \in Positions, Messages[i].role # "tool"
  PROVE  i \in Starts(Messages)
<1>1. DOMAIN Messages = Positions /\ i \in Int
  BY Places
<1>2. \A a \in Positions : a < i => i \in Between(Messages, a, i)
  BY <1>1 DEF Between
<1> QED BY <1>1, <1>2 DEF Starts

-------------------------------------------------------------------------------
(* What find_cut_point returns.                                            *)

(* The messages from a position on, and those after its segment. *)
From(i) == {k \in Positions : k >= i}
After(i) == {k \in Positions : \E j \in Starts(Messages) : i < j /\ j <= k}
SumOf(S) == SumFunctionOnSet(MessageTokens, S)

LEMMA Sums2 ==
  ASSUME TypeOK
  PROVE  /\ \A S \in SUBSET Positions : IsFiniteSet(S) /\ SumOf(S) \in Nat
         /\ \A S \in SUBSET Positions : \A T \in SUBSET S : SumOf(T) <= SumOf(S)
         /\ \A S, T \in SUBSET Positions :
              S \cap T = {} => SumOf(S \cup T) = SumOf(S) + SumOf(T)
         /\ \A i : TokensFrom(MessageTokens, i) = SumOf(From(i))
         /\ \A i : TokensAfter(Messages, MessageTokens, Starts(Messages), i) = SumOf(After(i))
<1>1. IsFiniteSet(Positions) /\ \A i \in Positions : MessageTokens[i] \in Nat
  BY Places
<1>2. \A S \in SUBSET Positions : IsFiniteSet(S)
  BY <1>1, FS_Subset
<1>3. ASSUME NEW S \in SUBSET Positions PROVE SumOf(S) \in Nat
  <2>1. IsFiniteSet(S) /\ \A x \in S : MessageTokens[x] \in Nat
    BY <1>1, <1>2
  <2> QED BY <2>1, SumNat DEF SumOf
<1>4. ASSUME NEW S \in SUBSET Positions, NEW T \in SUBSET S PROVE SumOf(T) <= SumOf(S)
  <2>1. IsFiniteSet(S) /\ \A x \in S : MessageTokens[x] \in Nat
    BY <1>1, <1>2
  <2> QED BY <2>1, SumMonotone DEF SumOf
<1>5. ASSUME NEW S \in SUBSET Positions, NEW T \in SUBSET Positions, S \cap T = {}
      PROVE  SumOf(S \cup T) = SumOf(S) + SumOf(T)
  <2>1. IsFiniteSet(S) /\ IsFiniteSet(T) /\ \A x \in S \cup T : MessageTokens[x] \in Nat
    BY <1>1, <1>2
  <2> QED BY <1>5, <2>1, SumUnion DEF SumOf
<1>6. DOMAIN Messages = Positions /\ DOMAIN MessageTokens = Positions
  BY Places
<1>7. \A i : TokensFrom(MessageTokens, i) = SumOf(From(i))
  BY <1>6 DEF TokensFrom, SumOf, From
<1>8. \A i : TokensAfter(Messages, MessageTokens, Starts(Messages), i) = SumOf(After(i))
  BY <1>6 DEF TokensAfter, SumOf, After
<1> QED BY <1>2, <1>3, <1>4, <1>5, <1>7, <1>8

LEMMA WalkedBackIs ==
  ASSUME TypeOK, Positions # {}, NEW keep
  PROVE  LET back == WalkedBack(Messages, MessageTokens, keep)
         IN  /\ back \in Starts(Messages) /\ back \in Positions
             /\ SumOf(From(back)) <= keep \/ SumOf(After(back)) = 0
<1> DEFINE S == {i \in Starts(Messages) :
                   \/ TokensFrom(MessageTokens, i) <= keep
                   \/ TokensAfter(Messages, MessageTokens, Starts(Messages), i) = 0}
           M == Max(Starts(Messages))
<1> HIDE DEF S, M
<1>1. DOMAIN Messages = Positions /\ Positions \subseteq Nat
      /\ Starts(Messages) \subseteq Positions
  BY Places DEF Starts
<1>2. Min(Positions) \in Starts(Messages)
  <2>1. Min(Positions) \in Positions /\ \A a \in Positions : Min(Positions) <= a
    BY <1>1, MinOf
  <2>2. \A a \in Positions : ~(a < Min(Positions))
    <3> DEFINE m == Min(Positions)
    <3>1. m \in Nat /\ \A a \in Positions : a \in Nat /\ m <= a
      BY <1>1, <2>1
    <3> HIDE DEF m
    <3>2. \A a \in Positions : ~(a < m)
      BY <3>1
    <3> QED BY <3>2 DEF m
  <2> QED BY <1>1, <2>1, <2>2 DEF Starts
<1>3. M \in Starts(Messages) /\ \A j \in Starts(Messages) : ~(M < j)
  <2>1. Len(log) \in Nat
    BY Counts
  <2>2. Starts(Messages) \subseteq 0 .. 2 * Len(log) + 1 /\ 2 * Len(log) + 1 \in Nat
    <3>1. Positions \subseteq 1 .. 2 * Len(log) + 1
      BY Places
    <3>2. 2 * Len(log) + 1 \in Nat /\ 1 .. 2 * Len(log) + 1 \subseteq 0 .. 2 * Len(log) + 1
      BY <2>1
    <3> QED BY <1>1, <3>1, <3>2
  <2>3. M \in Starts(Messages) /\ \A j \in Starts(Messages) : j <= M
    BY <1>2, <2>2, MaxOf DEF M
  <2>4. \A j \in Starts(Messages) : j \in Nat
    BY <1>1
  <2> QED BY <2>3, <2>4
<1>4. TokensAfter(Messages, MessageTokens, Starts(Messages), M) = 0
  <2>1. After(M) = {}
    BY <1>3 DEF After
  <2> QED BY <2>1, SumEmpty, Sums2 DEF SumOf
<1>5. S \subseteq Nat /\ S # {}
  BY <1>1, <1>3, <1>4 DEF S
<1>6. WalkedBack(Messages, MessageTokens, keep) = Min(S)
  BY DEF WalkedBack, S
<1>7. Min(S) \in S
  BY <1>5, MinOf
<1> QED BY <1>1, <1>6, <1>7, Sums2 DEF S

(* The cut before a turn is made whole, and the cut. *)
LEMMA CutIs ==
  ASSUME TypeOK, NEW keep, NEW x \in Cuts(keep)
  PROVE  /\ Positions # {} /\ x \in Positions /\ Messages[x].role \in {"user", "assistant"}
         /\ \E y \in Positions :
              /\ y \in Candidate(Messages, WalkedBack(Messages, MessageTokens, keep))
              /\ x \in WholeTurn(Messages, MessageTokens, y, keep)
<1> DEFINE back == WalkedBack(Messages, MessageTokens, keep)
           cs == Candidate(Messages, back)
           y == Min(cs)
<1>1. DOMAIN Messages = Positions /\ Positions \subseteq Nat
  BY Places
<1>2. /\ Positions # {} /\ cs # {} /\ x \in WholeTurn(Messages, MessageTokens, y, keep)
      /\ Messages[x].role \in {"user", "assistant"}
  BY <1>1 DEF Cuts, FindCutPoint
<1>3. back \in Positions
  BY <1>2, WalkedBackIs
<1> HIDE DEF back
<1>4. cs \subseteq Positions
  BY <1>1, <1>3 DEF Candidate, PreviousUser, Starts
<1>5. y \in cs
  <2>1. cs \subseteq Nat
    BY <1>1, <1>4
  <2> HIDE DEF cs
  <2> QED BY <1>2, <2>1, MinOf
<1>6. y \in Positions
  BY <1>4, <1>5
<1> HIDE DEF y, cs
<1>7. x \in Positions
  BY <1>1, <1>2, <1>6 DEF WholeTurn, PreviousUser
<1> QED BY <1>2, <1>5, <1>6, <1>7 DEF y, cs, back

(* The entry of a cut that has something new before it. *)
LEMMA PlanIs ==
  ASSUME TypeOK, NEW keep, NEW c \in Plan(keep)
  PROVE  /\ Replayable(log, kept)
         /\ 2 * c \in Cuts(keep)
         /\ c \in FirstKept(kept) + 1 .. Len(log)
         /\ log[c].role \in {"user", "assistant"}
<1>1. PICK x \in Cuts(keep) :
        Replayable(log, kept) /\ EntryAt(x) > FirstKept(kept) /\ c = EntryAt(x)
  BY DEF Plan
<1>2. x \in Positions /\ Messages[x].role \in {"user", "assistant"}
  BY CutIs
<1>3. FirstKept(kept) \in Nat /\ Len(log) \in Nat /\ x \in Int
  BY <1>2, Counts, Places
<1>4. ~(x < 2 * FirstKept(kept))
  BY <1>1, <1>3 DEF EntryAt
<1>5. IsEntry(x)
  BY <1>2, <1>4, Places DEF IsPrompt, IsEarlier
<1>6. PICK p \in FirstKept(kept) .. Len(log) : x = 2 * p
  BY <1>5 DEF IsEntry
<1>7. EntryAt(x) = p
  <2>1. p \in Int
    BY <1>3
  <2> QED BY <1>6, <2>1, Halves
<1>8. c \in FirstKept(kept) + 1 .. Len(log) /\ x = 2 * c
  BY <1>1, <1>3, <1>6, <1>7
<1>9. Messages[x] = log[c]
  BY <1>6, <1>7, <1>1, Places
<1> QED BY <1>1, <1>2, <1>8, <1>9

-------------------------------------------------------------------------------
(* The properties, of every state the log can be in.                       *)
LEMMA AllowedHere == ASSUME TypeOK PROVE PlanAllowed
<1> SUFFICES ASSUME NEW keep \in Keeps, NEW c \in Plan(keep)
             PROVE  c \in CutPoints(log, kept) /\ Replayable(log, c)
  BY DEF PlanAllowed
<1>1. /\ Replayable(log, kept) /\ c \in FirstKept(kept) + 1 .. Len(log)
      /\ log[c].role \in {"user", "assistant"}
  BY PlanIs
<1>2. FirstKept(kept) \in Nat \ {0} /\ Len(log) \in Nat
  BY Counts
<1>3. c \in Nat /\ FirstKept(kept) \in 1 .. c /\ FirstKept(c) = c
  BY <1>1, <1>2 DEF FirstKept
<1>4. PairsValidIn(log, c, Len(log))
  BY <1>1, <1>2, <1>3, KeptPairs DEF Replayable
<1> QED BY <1>1, <1>3, <1>4 DEF CutPoints, Replayable

LEMMA WholeHere == ASSUME TypeOK PROVE TurnsKeptWhole
<1> SUFFICES ASSUME NEW keep \in Keeps, NEW x \in Cuts(keep),
                    Messages[x].role = "assistant",
                    NEW u \in PreviousUser(Messages, x)
             PROVE  /\ SumFunctionOnSet(MessageTokens, Turn(Messages, u)) > keep
                    /\ \A i \in Turn(Messages, u) : ~Incomplete(Messages, i)
  BY DEF TurnsKeptWhole
<1>1. PICK c \in Positions : x \in WholeTurn(Messages, MessageTokens, c, keep)
  BY CutIs
<1> DEFINE stays(y) == {v \in PreviousUser(Messages, y) :
                          TurnStays(Messages, MessageTokens, v, keep)}
<1>2. x = c /\ stays(x) = {}
  <2>1. \A v \in stays(c) : Messages[v].role = "user"
    BY DEF PreviousUser
  <2>2. IF Messages[c].role = "assistant" /\ stays(c) # {} THEN x \in stays(c) ELSE x = c
    BY <1>1 DEF WholeTurn
  <2> HIDE DEF stays
  <2> QED BY <2>1, <2>2
<1>3. ~TurnStays(Messages, MessageTokens, u, keep)
  BY <1>2
<1>4. /\ \A i \in Turn(Messages, u) : i \in Starts(Messages) => ~Incomplete(Messages, i)
      /\ ~(SumOf(Turn(Messages, u)) <= keep)
  BY <1>3 DEF TurnStays, SumOf
<1>5. Turn(Messages, u) \subseteq Positions
  BY Places DEF Turn
<1>6. ASSUME NEW i \in Turn(Messages, u), Incomplete(Messages, i) PROVE FALSE
  <2>1. i \in Positions /\ Messages[i].role = "assistant"
    BY <1>5, <1>6 DEF Incomplete
  <2>2. i \in Starts(Messages)
    BY <2>1, OthersStart
  <2> QED BY <1>4, <1>6, <2>2
<1>7. SumOf(Turn(Messages, u)) \in Nat /\ keep \in Nat
  BY <1>5, Sums2, Constants
<1>8. SumOf(Turn(Messages, u)) > keep
  BY <1>4, <1>7
<1> QED BY <1>6, <1>8 DEF SumOf

(* What is kept of the log is part of what is kept of the projection. *)
LEMMA FewerTokens ==
  ASSUME TypeOK, NEW c \in FirstKept(kept) .. Len(log)
  PROVE  TokensFrom(tokens, c) \in Nat /\ TokensFrom(tokens, c) <= SumOf(From(2 * c))
<1> DEFINE S == c .. Len(log)
           E == {2 * k : k \in S}
<1>1. /\ Len(log) \in Nat /\ FirstKept(kept) \in Nat \ {0} /\ c \in Nat /\ FirstKept(kept) <= c
      /\ DOMAIN tokens = 1 .. Len(log)
  BY Counts
<1>2. \A k \in S : /\ k \in Nat /\ tokens[k] \in Nat
                   /\ 2 * k \in Positions /\ MessageTokens[2 * k] = tokens[k]
  <2> TAKE k \in S
  <2>1. k \in FirstKept(kept) .. Len(log) /\ k \in 1 .. Len(log)
    BY <1>1
  <2> QED BY <2>1, Places, Counts
<1>3. IsFiniteSet(S) /\ S \subseteq Nat
  BY <1>1, FS_Interval
<1>4. TokensFrom(tokens, c) = SumFunctionOnSet(tokens, S)
  <2>1. {k \in DOMAIN tokens : k >= c} = S
    BY <1>1
  <2> QED BY <2>1 DEF TokensFrom
<1>5. E \in SUBSET From(2 * c) /\ From(2 * c) \in SUBSET Positions
  <2>1. \A k \in S : 2 * k \in Positions /\ 2 * k >= 2 * c
    BY <1>1, <1>2
  <2> QED BY <2>1 DEF From
<1>6. \A k \in S : tokens[k] \in Nat /\ MessageTokens[2 * k] = tokens[k]
  BY <1>2
<1> HIDE DEF S
<1>7. SumFunctionOnSet(MessageTokens, E) = SumFunctionOnSet(tokens, S)
  BY <1>3, <1>6, SumDoubled
<1>8. SumFunctionOnSet(tokens, S) \in Nat
  BY <1>3, <1>6, SumNat
<1> HIDE DEF E
<1>9. SumOf(E) <= SumOf(From(2 * c))
  BY <1>5, Sums2
<1> QED BY <1>4, <1>7, <1>8, <1>9 DEF SumOf

(* A segment of the log is one of the projection. *)
LEMMA SameStarts ==
  ASSUME IInv, NEW c \in FirstKept(kept) .. Len(log), log[c].role # "tool",
         NEW j \in Starts(log), c < j
  PROVE  2 * j \in Starts(Messages)
<1>1. TypeOK /\ Len(log) \in Nat /\ DOMAIN log = 1 .. Len(log) /\ FirstKept(kept) \in Nat \ {0}
      /\ DOMAIN Messages = Positions /\ Positions \subseteq Int
  BY Counts, Places DEF IInv
<1>2. j \in FirstKept(kept) .. Len(log) /\ j \in 1 .. Len(log)
  BY <1>1 DEF Starts
<1>3. 2 * j \in Positions /\ Messages[2 * j] = log[j]
  BY <1>1, <1>2, Places
<1>4. ASSUME NEW a \in Positions, a < 2 * j,
             Messages[a].role = "assistant" /\ Messages[a].number > 0,
             \A k \in Between(Messages, a, 2 * j) : Messages[k].role = "tool"
      PROVE  FALSE
  <2>1. PICK p \in FirstKept(kept) .. Len(log) : a = 2 * p /\ Messages[a] = log[p]
    BY <1>1, <1>4, EntryOf
  <2>2. \A k \in p + 1 .. j : log[k].role = "tool"
    BY <1>2, <1>4, <2>1, SameBatch
  <2>3. p \in 1 .. Len(log) /\ p < j
    BY <1>1, <1>2, <1>4, <2>1
  <2>4. \A k \in Between(log, p, j) : log[k].role = "tool"
    BY <1>1, <2>2, <2>3 DEF Between
  <2> QED BY <1>1, <1>4, <2>1, <2>3, <2>4 DEF Starts
<1> QED BY <1>1, <1>3, <1>4 DEF Starts

(* When nothing after a segment has tokens, nothing after it in the log has. *)
LEMMA NothingAfter ==
  ASSUME IInv, NEW c \in FirstKept(kept) .. Len(log), log[c].role # "tool",
         SumOf(After(2 * c)) = 0
  PROVE  TokensAfter(log, tokens, Starts(log), c) = 0
<1> DEFINE A == {k \in DOMAIN tokens : \E j \in Starts(log) : c < j /\ j <= k}
           B == {k \in DOMAIN log : \E j \in Starts(log) : c < j /\ j <= k}
<1>1. TypeOK /\ Len(log) \in Nat /\ DOMAIN log = 1 .. Len(log) /\ DOMAIN tokens = 1 .. Len(log)
      /\ FirstKept(kept) \in Nat \ {0} /\ c \in Nat
  BY Counts DEF IInv
<1>2. After(2 * c) \in SUBSET Positions
  BY DEF After
<1>3. \A i \in After(2 * c) : MessageTokens[i] = 0
  <2>1. IsFiniteSet(After(2 * c)) /\ \A i \in After(2 * c) : MessageTokens[i] \in Nat
    BY <1>1, <1>2, Sums2, Places
  <2> QED BY <2>1, SumZero DEF SumOf
<1>4. ASSUME NEW k \in B PROVE tokens[k] = 0
  <2>1. PICK j \in Starts(log) : c < j /\ j <= k
    OBVIOUS
  <2>2. k \in 1 .. Len(log) /\ j \in 1 .. Len(log) /\ k \in FirstKept(kept) .. Len(log)
    BY <1>1, <2>1 DEF Starts
  <2>3. 2 * j \in Starts(Messages)
    BY <2>1, SameStarts
  <2>4. 2 * k \in Positions /\ MessageTokens[2 * k] = tokens[k]
    BY <1>1, <2>2, Places
  <2>5. 2 * c < 2 * j /\ 2 * j <= 2 * k
    BY <1>1, <2>1, <2>2
  <2>6. 2 * k \in After(2 * c)
    BY <2>3, <2>4, <2>5 DEF After
  <2> QED BY <1>3, <2>4, <2>6
<1>5. IsFiniteSet(B)
  <2>1. IsFiniteSet(1 .. Len(log)) /\ B \subseteq 1 .. Len(log)
    BY <1>1, FS_Interval
  <2> HIDE DEF B
  <2> QED BY <2>1, FS_Subset
<1>6. TokensAfter(log, tokens, Starts(log), c) = SumFunctionOnSet(tokens, B)
  BY DEF TokensAfter
<1> HIDE DEF B
<1> QED BY <1>4, <1>5, <1>6, SumZero

LEMMA BoundedHere == ASSUME IInv PROVE KeptBounded
<1> SUFFICES ASSUME NEW keep \in Keeps, NEW c \in Plan(keep)
             PROVE  \/ TokensFrom(tokens, c) <= 2 * keep
                    \/ TokensAfter(log, tokens, Starts(log), c) = 0
  BY DEF KeptBounded
<1> DEFINE x == 2 * c
           back == WalkedBack(Messages, MessageTokens, keep)
           turn == Turn(Messages, x)
<1>0. TypeOK
  BY DEF IInv
<1>1. /\ Replayable(log, kept) /\ x \in Cuts(keep) /\ c \in FirstKept(kept) .. Len(log)
      /\ log[c].role \in {"user", "assistant"} /\ keep \in Nat
  <2>1. c \in FirstKept(kept) + 1 .. Len(log) /\ FirstKept(kept) \in Nat /\ Len(log) \in Nat
    BY <1>0, PlanIs, Counts
  <2> QED BY <1>0, <2>1, PlanIs, Constants
<1>2. x \in Positions /\ Positions # {}
  BY <1>0, <1>1, CutIs
<1>3. PICK y \in Positions :
        y \in Candidate(Messages, back) /\ x \in WholeTurn(Messages, MessageTokens, y, keep)
  BY <1>0, <1>1, CutIs
<1>4. back \in Starts(Messages) /\ back \in Positions
      /\ (SumOf(From(back)) <= keep \/ SumOf(After(back)) = 0)
  BY <1>0, <1>2, WalkedBackIs
<1>5. \A i \in Positions : ~Incomplete(Messages, i)
  BY <1>1, NoneIncomplete
<1>6. DOMAIN Messages = Positions /\ Positions \subseteq Int
  BY <1>0, Places
<1> HIDE DEF x, back
<1>7. y = back \/ (y \in Starts(Messages) /\ y > back)
  BY <1>3, <1>4, <1>5, <1>6 DEF Candidate
<1>8. \A i : From(i) \in SUBSET Positions /\ After(i) \in SUBSET Positions
  BY DEF From, After
<1>9. \A i : SumOf(From(i)) \in Nat /\ SumOf(After(i)) \in Nat
  BY <1>0, <1>8, Sums2
<1>10. SumOf(From(y)) <= keep \/ (y = back /\ SumOf(After(y)) = 0)
  <2>1. CASE y = back
    BY <1>4, <2>1
  <2>2. CASE y \in Starts(Messages) /\ y > back
    <3>1. From(y) \in SUBSET From(back) /\ From(y) \in SUBSET After(back)
      <4>1. y \in Int /\ back \in Int
        BY <1>4, <1>6
      <4>2. ASSUME NEW k \in From(y) PROVE k \in From(back) /\ k \in After(back)
        <5>1. k \in Positions /\ k \in Int /\ k >= y
          BY <1>6 DEF From
        <5>2. k >= back /\ back < y /\ y <= k
          BY <2>2, <4>1, <5>1
        <5> QED BY <2>2, <5>1, <5>2 DEF From, After
      <4> QED BY <4>2
    <3>2. SumOf(From(y)) <= SumOf(From(back)) /\ SumOf(From(y)) <= SumOf(After(back))
      BY <1>0, <1>8, <3>1, Sums2
    <3> QED BY <1>1, <1>4, <1>9, <3>2
  <2> QED BY <1>7, <2>1, <2>2
<1>11. TokensFrom(tokens, c) \in Nat /\ TokensFrom(tokens, c) <= SumOf(From(x))
  BY <1>0, <1>1, FewerTokens DEF x
<1>12. CASE x = y
  <2>1. SumOf(After(x)) = 0 => TokensAfter(log, tokens, Starts(log), c) = 0
    BY <1>1, NothingAfter DEF x
  <2> QED BY <1>1, <1>9, <1>10, <1>11, <1>12, <2>1
<1>13. CASE /\ x \in PreviousUser(Messages, y) /\ Messages[y].role = "assistant"
            /\ TurnStays(Messages, MessageTokens, x, keep)
  <2>1. x < y /\ Messages[x].role = "user"
        /\ \A k \in Between(Messages, x, y) \ {y} : Messages[k].role # "user"
    BY <1>13 DEF PreviousUser
  <2>2. turn \in SUBSET Positions
    BY <1>6 DEF Turn
  <2>3. SumOf(turn) \in Nat /\ SumOf(turn) <= keep
    <3>1. SumOf(turn) <= keep
      BY <1>5, <1>13, <2>2 DEF TurnStays, SumOf
    <3> QED BY <1>0, <2>2, <3>1, Sums2
  <2>4. CASE SumOf(From(y)) <= keep
    <3> DEFINE part == From(x) \ From(y)
    <3>1. x \in Int /\ y \in Int /\ \A k \in Positions : k \in Int
      BY <1>2, <1>6
    <3>2. \A k \in part : k \in turn
      <4> TAKE k \in part
      <4>1. k \in Positions /\ k >= x /\ k < y
        BY <3>1 DEF From
      <4>2. ASSUME NEW j \in Between(Messages, x, k) PROVE j \in Between(Messages, x, y) \ {y}
        <5>1. j \in Positions /\ x < j /\ j <= k
          BY <1>6 DEF Between
        <5>2. j <= y /\ j # y
          BY <3>1, <4>1, <5>1
        <5> QED BY <1>6, <5>1, <5>2 DEF Between
      <4> QED BY <1>6, <2>1, <4>1, <4>2 DEF Turn
    <3>3. part \in SUBSET turn /\ part \in SUBSET Positions /\ part \cap From(y) = {}
      BY <1>8, <3>2
    <3>4. From(x) = part \cup From(y)
      <4>1. \A k \in From(y) : k \in From(x)
        BY <2>1, <3>1 DEF From
      <4> QED BY <4>1
    <3> HIDE DEF part, turn
    <3>5. SumOf(part) <= SumOf(turn) /\ SumOf(part) \in Nat
      BY <1>0, <2>2, <3>3, Sums2
    <3>6. SumOf(From(x)) = SumOf(part) + SumOf(From(y))
      BY <1>0, <1>8, <3>3, <3>4, Sums2
    <3> QED BY <1>1, <1>9, <1>11, <2>3, <2>4, <3>5, <3>6
  <2>5. CASE SumOf(After(y)) = 0
    <3> DEFINE part == From(x) \ turn
    <3>1. ASSUME NEW k \in part PROVE k \in After(y)
      <4>1. k \in Positions /\ k >= x /\ k \notin turn
        BY DEF From
      <4>2. PICK j \in Between(Messages, x, k) : Messages[j].role = "user"
        BY <1>6, <4>1 DEF Turn
      <4>3. j \in Positions /\ x < j /\ j <= k
        BY <1>6 DEF Between
      <4>4. j \notin Between(Messages, x, y) \ {y} /\ j # y
        BY <1>13, <2>1, <4>2
      <4>5. y < j
        BY <1>6, <4>3, <4>4 DEF Between
      <4>6. j \in Starts(Messages)
        BY <1>0, <4>2, <4>3, OthersStart
      <4> QED BY <4>1, <4>3, <4>5, <4>6 DEF After
    <3>2. part \in SUBSET After(y) /\ part \in SUBSET Positions
      BY <1>8, <3>1
    <3> DEFINE rest == From(x) \cap turn
    <3>3. rest \in SUBSET turn /\ rest \in SUBSET Positions /\ From(x) = rest \cup part
          /\ rest \cap part = {}
      BY <2>2
    <3> HIDE DEF part, rest, turn
    <3>4. SumOf(part) <= SumOf(After(y)) /\ SumOf(part) \in Nat
          /\ SumOf(rest) <= SumOf(turn) /\ SumOf(rest) \in Nat
      BY <1>0, <1>8, <2>2, <3>2, <3>3, Sums2
    <3>5. SumOf(From(x)) = SumOf(rest) + SumOf(part)
      BY <1>0, <3>2, <3>3, Sums2
    <3> QED BY <1>1, <1>11, <2>3, <2>5, <3>4, <3>5
  <2> QED BY <1>10, <2>4, <2>5
<1>14. x = y \/ /\ x \in PreviousUser(Messages, y) /\ Messages[y].role = "assistant"
                /\ TurnStays(Messages, MessageTokens, x, keep)
  BY <1>3 DEF WholeTurn
<1> QED BY <1>12, <1>13, <1>14

(* A request is the prompt, the summary, what the cut would take and what it *)
(* would keep.                                                             *)
LEMMA PartsOfRequest ==
  ASSUME TypeOK, NEW c \in FirstKept(kept) + 1 .. Len(log)
  PROVE  /\ RegionTokens(c) \in Nat /\ TokensFrom(tokens, c) \in Nat
         /\ RequestTokens = SystemTokens + (IF kept = 0 THEN 0 ELSE SummaryTokens)
                              + (RegionTokens(c) + TokensFrom(tokens, c))
<1> DEFINE F == FirstKept(kept)
           N == Len(log)
<1>1. N \in Nat /\ F \in Nat \ {0} /\ c \in Nat /\ F <= c /\ c <= N /\ DOMAIN tokens = 1 .. N
      /\ \A i \in 1 .. N : tokens[i] \in Nat
  <2>1. N \in Nat /\ F \in Nat \ {0} /\ DOMAIN tokens = 1 .. N
        /\ \A i \in 1 .. N : tokens[i] \in Nat
    BY Counts
  <2>2. c \in Nat /\ F <= c /\ c <= N
    BY <2>1
  <2> QED BY <2>1, <2>2
<1> HIDE DEF F, N
<1>2. TokensFrom(tokens, F) = SumFunctionOnSet(tokens, F .. N)
      /\ TokensFrom(tokens, c) = SumFunctionOnSet(tokens, c .. N)
  <2>1. {k \in DOMAIN tokens : k >= F} = F .. N /\ {k \in DOMAIN tokens : k >= c} = c .. N
    BY <1>1
  <2> QED BY <2>1 DEF TokensFrom
<1>3. RegionTokens(c) = SumFunctionOnSet(tokens, F .. c - 1)
  BY DEF RegionTokens, Region, F
<1>4. SumFunctionOnSet(tokens, F .. N)
        = SumFunctionOnSet(tokens, F .. c - 1) + SumFunctionOnSet(tokens, c .. N)
  <2>1. F \in Int /\ N \in Int /\ c \in F .. N + 1 /\ \A i \in F .. N : tokens[i] \in Nat
    BY <1>1
  <2> QED BY <2>1, SumSplit
<1>5. SumFunctionOnSet(tokens, F .. c - 1) \in Nat /\ SumFunctionOnSet(tokens, c .. N) \in Nat
  <2>1. IsFiniteSet(F .. c - 1) /\ IsFiniteSet(c .. N)
    BY <1>1, FS_Interval
  <2>2. (\A i \in F .. c - 1 : tokens[i] \in Nat) /\ \A i \in c .. N : tokens[i] \in Nat
    BY <1>1
  <2> QED BY <2>1, <2>2, SumNat
<1> QED BY <1>2, <1>3, <1>4, <1>5 DEF RequestTokens, F

LEMMA InputIsNat ==
  ASSUME TypeOK, NEW c \in FirstKept(kept) + 1 .. Len(log)
  PROVE  SummaryInput(c) \in Nat
<1> DEFINE sh == [i \in Region(c) |->
             IF log[i].role = "tool" THEN Min({tokens[i], ResultTokens}) ELSE tokens[i]]
<1>1. \A i \in Region(c) : tokens[i] \in Nat
  <2>1. FirstKept(kept) \in Nat \ {0} /\ Len(log) \in Nat
    BY Counts
  <2>2. \A i \in Region(c) : i \in 1 .. Len(log)
    BY <2>1 DEF Region
  <2> QED BY <2>2, Counts
<1>2. \A i \in Region(c) : Min({tokens[i], ResultTokens}) \in Nat
  <2> TAKE i \in Region(c)
  <2>1. {tokens[i], ResultTokens} \subseteq Nat /\ {tokens[i], ResultTokens} # {}
    BY <1>1, Constants
  <2>2. Min({tokens[i], ResultTokens}) \in {tokens[i], ResultTokens}
    BY <2>1, MinOf
  <2> QED BY <2>1, <2>2
<1>3. \A i \in Region(c) : sh[i] \in Nat
  BY <1>1, <1>2
<1>4. IsFiniteSet(Region(c)) /\ DOMAIN sh = Region(c)
  <2>1. FirstKept(kept) \in Int /\ c - 1 \in Int
    BY Counts
  <2> QED BY <2>1, FS_Interval DEF Region
<1>5. SummaryInput(c) = TemplateTokens + SumFunction(sh) + (IF kept = 0 THEN 0 ELSE SummaryTokens)
  BY DEF SummaryInput
<1> HIDE DEF sh
<1>6. SumFunction(sh) \in Nat
  BY <1>3, <1>4, SumNat DEF SumFunction
<1> QED BY <1>5, <1>6, Constants

LEMMA PaysHere == ASSUME TypeOK PROVE CompactionPays
<1> SUFFICES ASSUME NEW c \in Plan(CostKeep), WorthIt(c), NEW new \in 0 .. SummaryOutput
             PROVE  SummaryInput(c) + new
                      + Remaining * (SystemTokens + new + TokensFrom(tokens, c))
                    < Remaining * RequestTokens
  BY DEF CompactionPays
<1> DEFINE R == Remaining
           out == SummaryOutput
           in == SummaryInput(c)
           reg == RegionTokens(c)
           rest == TokensFrom(tokens, c)
           sum == IF kept = 0 THEN 0 ELSE SummaryTokens
           sys == SystemTokens
<1>1. c \in FirstKept(kept) + 1 .. Len(log)
  BY PlanIs
<1>2. R \in Nat /\ out \in Nat /\ in \in Nat /\ reg \in Nat /\ rest \in Nat /\ sum \in Nat
      /\ sys \in Nat
  BY <1>1, PartsOfRequest, InputIsNat, Constants DEF SummaryOutput
<1>3. RequestTokens = sys + sum + (reg + rest)
  BY <1>1, PartsOfRequest
<1>4. SavedPerRequest(c) = reg - out /\ SavedPerRequest(c) > 0
  <2>1. SavedPerRequest(c) \in {0, reg - out}
    <3>1. reg - out <= 0 \/ 0 <= reg - out
      BY <1>2
    <3>2. \E z \in {0, reg - out} : \A y \in {0, reg - out} : z >= y
      BY <1>2, <3>1
    <3> QED BY <3>2 DEF SavedPerRequest, Max
  <2>2. SavedPerRequest(c) > 0
    BY DEF WorthIt
  <2> QED BY <2>1, <2>2
<1>5. (reg - out) * R > in + out
  BY <1>4 DEF WorthIt
<1>6. new \in Nat /\ new <= out
  BY <1>2
<1> HIDE DEF R, out, in, reg, rest, sum, sys
<1>7. R * (sys + new + rest) <= R * (sys + out + rest)
  <2>1. R * ((sys + out + rest) - (sys + new + rest)) >= 0
    BY <1>2, <1>6
  <2> QED BY <1>2, <1>6, <2>1
<1>8. R * (sys + out + rest) + (reg - out) * R = R * (sys + reg + rest)
  BY <1>2
<1>9. R * (sys + sum + (reg + rest)) = R * (sys + reg + rest) + R * sum /\ R * sum \in Nat
  BY <1>2
<1>10. R * (sys + new + rest) \in Int /\ R * (sys + out + rest) \in Int
       /\ (reg - out) * R \in Int /\ R * (sys + reg + rest) \in Int
  BY <1>2, <1>6
<1>11. in + new + R * (sys + new + rest) < R * (sys + sum + (reg + rest))
  BY <1>2, <1>5, <1>6, <1>7, <1>8, <1>9, <1>10
<1> QED BY <1>3, <1>11 DEF R, in, rest, sys

-------------------------------------------------------------------------------
(* The log and its tokens stay in step.                                    *)
LEMMA RecordTypes ==
  ASSUME IInv, NEW ms, ms \in Seq(Message), Record(ms),
         Len(log) + 1 \in DOMAIN rules => Len(ms) > 0 /\ ms[1].role = "user"
  PROVE  IInv'
<1>0. TypeOK /\ RulesBeforeTasks
  BY DEF IInv
<1>1. PICK ws \in [DOMAIN ms -> Weights] : tokens' = tokens \o ws
  BY DEF Record
<1>2. log' = log \o ms /\ kept' = kept /\ rules' = rules
  BY DEF Record
<1>3. DOMAIN ms = 1 .. Len(ms) /\ Len(ms) \in Nat
  OBVIOUS
<1>4. ws \in Seq(Weights) /\ Len(ws) = Len(ms)
  <2> DEFINE n == Len(ms)
  <2>1. n \in Nat /\ ws \in [1 .. n -> Weights]
    BY <1>1, <1>3
  <2> HIDE DEF n
  <2>2. ws \in Seq(Weights) /\ Len(ws) = n
    BY <2>1
  <2> QED BY <2>2 DEF n
<1>5. log \in Seq(Message) /\ tokens \in Seq(Weights) /\ Len(tokens) = Len(log)
      /\ Len(log) \in Nat /\ kept \in {0} \cup 2 .. Len(log)
  BY <1>0, Counts DEF TypeOK
<1>6. /\ log' \in Seq(Message) /\ Len(log') = Len(log) + Len(ms)
      /\ \A p \in 1 .. Len(log) : log'[p] = log[p]
      /\ Len(ms) > 0 => log'[Len(log) + 1] = ms[1]
  BY <1>2, <1>5
<1>7. tokens' \in Seq(Weights) /\ Len(tokens') = Len(tokens) + Len(ws)
  <2>1. tokens' = tokens \o ws /\ tokens \in Seq(Weights)
    BY <1>1, <1>5
  <2>2. ws \in Seq(Weights)
    BY <1>4
  <2>3. tokens \o ws \in Seq(Weights) /\ Len(tokens \o ws) = Len(tokens) + Len(ws)
    BY <2>1, <2>2
  <2> QED BY <2>1, <2>3
<1>8. kept' \in {0} \cup 2 .. Len(log')
  <2>1. Len(log') \in Nat /\ Len(log) <= Len(log')
    BY <1>3, <1>5, <1>6
  <2> QED BY <1>2, <1>5, <2>1
<1>9. \A p \in DOMAIN rules : p \in 1 .. Len(log) + 1 /\ rules[p] \in RuleWeights
  BY <1>0 DEF TypeOK
<1>10. ASSUME NEW p \in DOMAIN rules'
       PROVE  /\ p \in 1 .. Len(log') + 1 /\ rules'[p] \in RuleWeights
              /\ p <= Len(log') => log'[p].role = "user"
  <2>1. p \in DOMAIN rules /\ p \in 1 .. Len(log) + 1 /\ rules'[p] \in RuleWeights
    BY <1>2, <1>9
  <2>2. p \in 1 .. Len(log') + 1
    BY <1>3, <1>5, <1>6, <2>1
  <2>3. CASE p \in 1 .. Len(log)
    BY <1>0, <1>5, <1>6, <2>1, <2>2, <2>3 DEF RulesBeforeTasks
  <2>4. CASE p = Len(log) + 1
    BY <1>6, <2>1, <2>2, <2>4
  <2> QED BY <1>5, <2>1, <2>2, <2>3, <2>4
<1>11. TypeOK'
  BY <1>4, <1>5, <1>6, <1>7, <1>8, <1>10 DEF TypeOK
<1>12. RulesBeforeTasks'
  BY <1>10 DEF RulesBeforeTasks
<1> QED BY <1>11, <1>12 DEF IInv

LEMMA ReplyIsMessages ==
  ASSUME NEW step \in Nat, NEW n \in Nat, NEW answered \in Nat
  PROVE  <<AssistantMessage(step, n, "stop")>>
           \o [i \in 1 .. answered |-> ToolMessage(step, i, "ok")] \in Seq(Message)
<1> DEFINE r == [i \in 1 .. answered |-> ToolMessage(step, i, "ok")]
<1>1. AssistantMessage(step, n, "stop") \in Message
  BY DEF AssistantMessage, Message, Roles, Notes, StopReasons
<1>2. \A i \in 1 .. answered : ToolMessage(step, i, "ok") \in Message
  BY DEF ToolMessage, Message, Roles, Notes, Observations
<1>3. r \in Seq(Message)
  BY <1>2
<1>4. <<AssistantMessage(step, n, "stop")>> \in Seq(Message)
  BY <1>1
<1> HIDE DEF r
<1>5. <<AssistantMessage(step, n, "stop")>> \o r \in Seq(Message)
  BY <1>3, <1>4
<1> QED BY <1>5 DEF r

LEMMA CompactTypes ==
  ASSUME IInv, NEW keep, NEW c, Compact(keep, c)
  PROVE  IInv'
<1>0. TypeOK /\ RulesBeforeTasks
  BY DEF IInv
<1>1. c \in Plan(keep) /\ kept' = c /\ log' = log /\ tokens' = tokens /\ rules' = rules
  BY DEF Compact
<1>2. c \in FirstKept(kept) + 1 .. Len(log)
  BY <1>0, <1>1, PlanIs
<1>3. FirstKept(kept) \in Nat \ {0} /\ Len(log) \in Nat
  BY <1>0, Counts
<1>4. c \in 2 .. Len(log)
  BY <1>2, <1>3
<1>5. TypeOK'
  BY <1>0, <1>1, <1>4 DEF TypeOK
<1>6. RulesBeforeTasks'
  BY <1>0, <1>1 DEF RulesBeforeTasks
<1> QED BY <1>5, <1>6 DEF IInv

LEMMA RulesTypes == ASSUME IInv, Rules PROVE IInv'
<1>0. TypeOK /\ RulesBeforeTasks /\ Len(log) \in Nat
  BY Counts DEF IInv
<1>1. PICK w \in RuleWeights :
        rules' = [p \in DOMAIN rules \cup {Len(log) + 1} |->
                    IF p = Len(log) + 1 THEN w ELSE rules[p]]
  BY DEF Rules
<1>2. log' = log /\ kept' = kept /\ tokens' = tokens
  BY DEF Rules
<1>3. DOMAIN rules' = DOMAIN rules \cup {Len(log) + 1}
      /\ \A p \in DOMAIN rules' : rules'[p] = IF p = Len(log) + 1 THEN w ELSE rules[p]
  BY <1>1
<1>4. \A p \in DOMAIN rules : p \in 1 .. Len(log) + 1 /\ rules[p] \in RuleWeights
  BY <1>0 DEF TypeOK
<1>5. \A p \in DOMAIN rules' : p \in 1 .. Len(log) + 1 /\ rules'[p] \in RuleWeights
  BY <1>0, <1>3, <1>4
<1>6. TypeOK'
  BY <1>0, <1>2, <1>5 DEF TypeOK
<1>7. ASSUME NEW p \in DOMAIN rules', p <= Len(log) PROVE p \in DOMAIN rules
  BY <1>0, <1>3, <1>7
<1>8. RulesBeforeTasks'
  BY <1>0, <1>2, <1>7 DEF RulesBeforeTasks
<1> QED BY <1>6, <1>8 DEF IInv

LEMMA Invariant == Spec => []IInv
<1>1. Init => IInv
  BY DEF Init, IInv, TypeOK, RulesBeforeTasks
<1>2. ASSUME IInv, [Next]_vars PROVE IInv'
  <2>1. CASE Rules
    BY <1>2, <2>1, RulesTypes
  <2>2. CASE Task
    <3>1. <<UserMessage>> \in Seq(Message) /\ Len(<<UserMessage>>) > 0
          /\ <<UserMessage>>[1].role = "user"
      BY DEF UserMessage, Message, Roles, Notes
    <3> QED BY <1>2, <2>2, <3>1, RecordTypes DEF Task
  <2>3. CASE Turns
    <3>1. PICK n \in 0 .. MaxCalls : \E answered \in {n, n - 1} \cap Nat :
            Record(<<AssistantMessage(Len(log) + 1, n, "stop")>>
                     \o [i \in 1 .. answered |-> ToolMessage(Len(log) + 1, i, "ok")])
      BY <2>3 DEF Turns
    <3>2. PICK answered \in Nat :
            Record(<<AssistantMessage(Len(log) + 1, n, "stop")>>
                     \o [i \in 1 .. answered |-> ToolMessage(Len(log) + 1, i, "ok")])
      BY <3>1
    <3>3. Len(log) + 1 \in Nat /\ n \in Nat /\ Len(log) + 1 \notin DOMAIN rules
      BY <1>2, <2>3, Constants, Counts DEF IInv, Turns
    <3> QED BY <1>2, <3>2, <3>3, ReplyIsMessages, RecordTypes
  <2>4. CASE ManualCompact
    BY <1>2, <2>4, CompactTypes DEF ManualCompact
  <2>5. CASE WindowCompact
    BY <1>2, <2>5, CompactTypes DEF WindowCompact
  <2>6. CASE CostCompact
    BY <1>2, <2>6, CompactTypes DEF CostCompact
  <2>7. CASE UNCHANGED vars
    BY <1>2, <2>7 DEF vars, IInv, TypeOK, RulesBeforeTasks
  <2> QED BY <1>2, <2>1, <2>2, <2>3, <2>4, <2>5, <2>6, <2>7 DEF Next
<1> QED BY <1>1, <1>2, PTL DEF Spec

\* Every log, whatever was recorded and compacted, has tokens for each of its
\* messages and keeps from a message it has (the projection's indices).
THEOREM TypeCorrect == Spec => []TypeOK
<1>1. IInv => TypeOK
  BY DEF IInv
<1> QED BY <1>1, Invariant, PTL

\* However often a session was compacted, the entry the next compaction keeps
\* from is a user or assistant message after the last one, and what it leaves
\* has a result for each call, so that a new process can replay it
\* (prepare_compaction).
THEOREM PlansAllowed == Spec => []PlanAllowed
  BY TypeCorrect, AllowedHere, PTL

\* A turn whose tokens fit the budget, or which has a call without result, is
\* never cut inside (find_cut_point's two corrections of the walk back).
THEOREM TurnsStayWhole == Spec => []TurnsKeptWhole
  BY TypeCorrect, WholeHere, PTL

\* For any weights and budget, what a compaction keeps is at most twice the
\* budget, unless all its tokens are in its first segment (the walk back and the
\* turn added in front of it).
THEOREM KeptIsBounded == Spec => []KeptBounded
  BY Invariant, BoundedHere, PTL

\* Whenever the estimate says that old tool results are worth a compaction, the
\* requests that follow are cheaper, the summary's own cost included, for any
\* number of remaining requests (decide_cost_aware_compaction).
THEOREM CompactionAlwaysPays == Spec => []CompactionPays
  BY TypeCorrect, PaysHere, PTL
===============================================================================
