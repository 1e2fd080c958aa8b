----------------------------- MODULE SumLemmas -----------------------------
(***************************************************************************)
(* Laws of SumFunctionOnSet, the sum of a function's values over a finite  *)
(* set, that the proofs about amounts of money cite: its recursive         *)
(* equation, the empty set, taking out an element, changing one value,     *)
(* comparing two functions and two sets.  The community module defines the *)
(* sum by a fold; a fold is a recursive function on the subsets of the     *)
(* set, and that such a function exists is shown here level by level.      *)
(***************************************************************************)
EXTENDS Functions, FiniteSets, Integers, FiniteSetTheorems, WellFoundedInduction, TLAPS

\* Every set of naturals that is not empty has a least member.
LEMMA LeastNatural ==
  ASSUME NEW C, C # {}, C \subseteq Nat
  PROVE  \E x \in C : \A y \in C : ~(y < x)
<1>1. PICK x \in C : \A y \in C : ~(<<y, x>> \in OpToRel(<, Nat))
  BY NatLessThanWellFounded, WFMin
<1>2. \A y \in C : ~(y < x)
  BY <1>1 DEF OpToRel
<1> QED BY <1>2

\* Every set of finite sets that is not empty has a smallest member.
LEMMA SmallestSet ==
  ASSUME NEW W, W # {}, \A T \in W : IsFiniteSet(T)
  PROVE  \E T \in W : \A U \in W : ~(Cardinality(U) < Cardinality(T))
<1> DEFINE C == {Cardinality(T) : T \in W}
<1>1. C \subseteq Nat /\ C # {}
  BY FS_CardinalityType
<1>2. PICK x \in C : \A y \in C : ~(y < x)
  <2> HIDE DEF C
  <2> QED BY <1>1, LeastNatural
<1> QED BY <1>2

Chosen(s) == CHOOSE x \in s : TRUE

\* The equation of the fold: g sums f over the sets in D.
Sums(g, f, D) == g = [s \in D |-> IF s = {} THEN 0 ELSE f[Chosen(s)] + g[s \ {Chosen(s)}]]

\* The sum as the fold that the community module defines.
LEMMA SumIsFold ==
  ASSUME NEW f, NEW S
  PROVE  SumFunctionOnSet(f, S) = (CHOOSE g : Sums(g, f, SUBSET S))[S]
BY DEF SumFunctionOnSet, FoldFunctionOnSet, MapThenFoldSet, Sums, Chosen

\* The subsets of S with at most n elements.
Level(S, n) == {s \in SUBSET S : Cardinality(s) <= n}

\* The element that the fold takes out next is one of the set.
LEMMA ChosenIsMember ==
  ASSUME NEW s, s # {}
  PROVE  Chosen(s) \in s
BY DEF Chosen

\* A sum over the sets of a level extends to the next level.
LEMMA LevelExtends ==
  ASSUME NEW f, NEW S, IsFiniteSet(S), NEW n \in Nat, NEW g, Sums(g, f, Level(S, n))
  PROVE  \E h : Sums(h, f, Level(S, n + 1))
<1> DEFINE h == [s \in Level(S, n + 1) |-> IF s = {} THEN 0 ELSE f[Chosen(s)] + g[s \ {Chosen(s)}]]
<1>1. ASSUME NEW s \in Level(S, n + 1), s # {}
      PROVE  h[s \ {Chosen(s)}] = g[s \ {Chosen(s)}]
  <2> DEFINE t == s \ {Chosen(s)}
  <2>1. IsFiniteSet(s) /\ Chosen(s) \in s /\ s \in SUBSET S
    BY <1>1, FS_Subset, ChosenIsMember DEF Level
  <2>2. Cardinality(t) = Cardinality(s) - 1 /\ Cardinality(s) \in Nat
    BY <2>1, FS_RemoveElement, FS_CardinalityType
  <2>3. t \in Level(S, n) /\ t \in Level(S, n + 1)
    BY <2>1, <2>2, <1>1 DEF Level
  <2>4. g[t] = IF t = {} THEN 0 ELSE f[Chosen(t)] + g[t \ {Chosen(t)}]
    <3> HIDE DEF t
    <3> QED BY <2>3 DEF Sums
  <2>5. h[t] = IF t = {} THEN 0 ELSE f[Chosen(t)] + g[t \ {Chosen(t)}]
    <3> HIDE DEF t
    <3> QED BY <2>3
  <2> QED BY <2>4, <2>5
<1>2. h = [s \in Level(S, n + 1) |-> IF s = {} THEN 0 ELSE f[Chosen(s)] + h[s \ {Chosen(s)}]]
  <2>1. \A s \in Level(S, n + 1) :
          (IF s = {} THEN 0 ELSE f[Chosen(s)] + g[s \ {Chosen(s)}])
          = (IF s = {} THEN 0 ELSE f[Chosen(s)] + h[s \ {Chosen(s)}])
    BY <1>1
  <2>2. PICK k : k = h
    OBVIOUS
  <2>3. \A s \in Level(S, n + 1) : h[s] = IF s = {} THEN 0 ELSE f[Chosen(s)] + k[s \ {Chosen(s)}]
    BY <2>1, <2>2
  <2> QED BY <2>2, <2>3
<1> QED BY <1>2 DEF Sums

\* A function that sums f over the subsets of a finite set exists.
LEMMA SumsExist ==
  ASSUME NEW f, NEW S, IsFiniteSet(S)
  PROVE  \E g : Sums(g, f, SUBSET S)
<1> DEFINE Missing == {n \in Nat : ~\E g : Sums(g, f, Level(S, n))}
<1>1. 0 \notin Missing
  <2> DEFINE z == [s \in Level(S, 0) |-> 0]
  <2>1. \A s \in Level(S, 0) : s = {}
    BY FS_Subset, FS_EmptySet, FS_CardinalityType DEF Level
  <2>2. Sums(z, f, Level(S, 0))
    BY <2>1 DEF Sums
  <2> QED BY <2>2
<1>2. Missing = {}
  <2> SUFFICES ASSUME Missing # {} PROVE FALSE
    OBVIOUS
  <2>0. Missing \subseteq Nat
    OBVIOUS
  <2>1. PICK n \in Missing : \A m \in Missing : ~(m < n)
    <3> HIDE DEF Missing
    <3> QED BY <2>0, LeastNatural
  <2>2. n - 1 \in Nat /\ n - 1 \notin Missing
    <3> HIDE DEF Missing
    <3> QED BY <1>1, <2>0, <2>1
  <2>3. PICK g : Sums(g, f, Level(S, n - 1))
    BY <2>2
  <2>4. \E h : Sums(h, f, Level(S, (n - 1) + 1))
    BY <2>2, <2>3, LevelExtends
  <2>5. (n - 1) + 1 = n
    BY <2>0
  <2>6. \E h : Sums(h, f, Level(S, n))
    BY <2>4, <2>5
  <2> QED BY <2>6
<1>3. Cardinality(S) \in Nat /\ Level(S, Cardinality(S)) = SUBSET S
  BY FS_CardinalityType, FS_Subset DEF Level
<1> QED BY <1>2, <1>3

\* The sets of E are finite, in D, and closed under taking out what is chosen.
Closed(D, E) == \A s \in E : s \in D /\ IsFiniteSet(s) /\ s \ {Chosen(s)} \in E

\* Two such functions agree where both are defined.
LEMMA SumsAgree ==
  ASSUME NEW f, NEW D, NEW E, Closed(D, E),
         NEW g, Sums(g, f, D), NEW h, Sums(h, f, E)
  PROVE  \A s \in E : g[s] = h[s]
<1> DEFINE W == {s \in E : g[s] # h[s]}
<1> SUFFICES ASSUME W # {} PROVE FALSE
  OBVIOUS
<1>1. \A s \in W : IsFiniteSet(s)
  BY DEF Closed
<1>2. PICK s \in W : \A u \in W : ~(Cardinality(u) < Cardinality(s))
  BY <1>1, SmallestSet
<1>3. /\ g[s] = IF s = {} THEN 0 ELSE f[Chosen(s)] + g[s \ {Chosen(s)}]
      /\ h[s] = IF s = {} THEN 0 ELSE f[Chosen(s)] + h[s \ {Chosen(s)}]
  BY DEF Sums, Closed
<1>4. s # {}
  BY <1>3
<1>5. Cardinality(s \ {Chosen(s)}) < Cardinality(s)
  <2>1. IsFiniteSet(s) /\ Chosen(s) \in s
    BY <1>1, <1>4, ChosenIsMember
  <2> HIDE DEF W
  <2>2. Cardinality(s \ {Chosen(s)}) = Cardinality(s) - 1 /\ Cardinality(s) \in Nat
    BY <2>1, FS_RemoveElement, FS_CardinalityType
  <2> QED BY <2>2
<1>6. g[s \ {Chosen(s)}] = h[s \ {Chosen(s)}]
  BY <1>2, <1>5 DEF Closed
<1> QED BY <1>3, <1>4, <1>6

\* The recursive equation of the sum.
LEMMA SumEquation ==
  ASSUME NEW f, NEW S, IsFiniteSet(S)
  PROVE  SumFunctionOnSet(f, S) =
           IF S = {} THEN 0 ELSE f[Chosen(S)] + SumFunctionOnSet(f, S \ {Chosen(S)})
<1>1. PICK g : g = CHOOSE k : Sums(k, f, SUBSET S)
  OBVIOUS
<1>2. Sums(g, f, SUBSET S)
  BY <1>1, SumsExist
<1>3. SumFunctionOnSet(f, S) = g[S]
  BY <1>1, SumIsFold
<1>4. g[S] = IF S = {} THEN 0 ELSE f[Chosen(S)] + g[S \ {Chosen(S)}]
  BY <1>2 DEF Sums
<1>5. PICK T : T = S \ {Chosen(S)}
  OBVIOUS
<1>6. IsFiniteSet(T) /\ T \in SUBSET S
  BY <1>5, FS_RemoveElement
<1>7. PICK h : h = CHOOSE k : Sums(k, f, SUBSET T)
  OBVIOUS
<1>8. Sums(h, f, SUBSET T)
  BY <1>6, <1>7, SumsExist
<1>9. SumFunctionOnSet(f, T) = h[T]
  BY <1>7, SumIsFold
<1>10. g[T] = h[T]
  <2>1. PICK D : D = SUBSET S
    OBVIOUS
  <2>2. PICK E : E = SUBSET T
    OBVIOUS
  <2>3. Closed(D, E)
    BY <1>6, <2>1, <2>2, FS_Subset DEF Closed
  <2>4. T \in E /\ Sums(g, f, D) /\ Sums(h, f, E)
    BY <1>2, <1>8, <2>1, <2>2
  <2>5. \A s \in E : g[s] = h[s]
    BY <2>3, <2>4, SumsAgree
  <2> QED BY <2>4, <2>5
<1> QED BY <1>3, <1>4, <1>5, <1>9, <1>10

-----------------------------------------------------------------------------
\* The function is integer, or natural, on a finite set.
IntOn(f, S) == IsFiniteSet(S) /\ \A x \in S : f[x] \in Int
NatOn(f, S) == IsFiniteSet(S) /\ \A x \in S : f[x] \in Nat

\* What can be summed over a set can be summed over its subsets.
LEMMA IntOnSubset ==
  ASSUME NEW f, NEW S, IntOn(f, S), NEW x
  PROVE  IntOn(f, S \ {x})
BY FS_RemoveElement DEF IntOn

\* Naturals are integers.
LEMMA NatOnIsIntOn ==
  ASSUME NEW f, NEW S, NatOn(f, S)
  PROVE  IntOn(f, S)
BY DEF IntOn, NatOn

\* The sum over no element is zero.
LEMMA SumEmpty ==
  ASSUME NEW f
  PROVE  SumFunctionOnSet(f, {}) = 0
BY SumEquation, FS_EmptySet

\* A smaller set: what is left when an element is taken out.
LEMMA TakenOut ==
  ASSUME NEW S, IsFiniteSet(S), NEW x \in S
  PROVE  IsFiniteSet(S \ {x}) /\ Cardinality(S \ {x}) < Cardinality(S)
<1>1. /\ IsFiniteSet(S \ {x}) /\ Cardinality(S \ {x}) = Cardinality(S) - 1
      /\ Cardinality(S) \in Nat
  BY FS_RemoveElement, FS_CardinalityType
<1> QED BY <1>1

\* The sum of integers is an integer.
LEMMA SumType ==
  ASSUME NEW f, NEW S, IntOn(f, S)
  PROVE  SumFunctionOnSet(f, S) \in Int
<1> DEFINE W == {T \in SUBSET S : SumFunctionOnSet(f, T) \notin Int}
<1>0. IsFiniteSet(S) /\ \A x \in S : f[x] \in Int
  BY DEF IntOn
<1> SUFFICES ASSUME W # {} PROVE FALSE
  OBVIOUS
<1>1. \A T \in W : IsFiniteSet(T)
  BY <1>0, FS_Subset
<1>2. PICK T \in W : \A U \in W : ~(Cardinality(U) < Cardinality(T))
  BY <1>1, SmallestSet
<1>3. SumFunctionOnSet(f, T) =
        IF T = {} THEN 0 ELSE f[Chosen(T)] + SumFunctionOnSet(f, T \ {Chosen(T)})
  BY <1>1, SumEquation
<1>4. T # {} /\ Chosen(T) \in T
  BY <1>3, ChosenIsMember
<1>5. Cardinality(T \ {Chosen(T)}) < Cardinality(T)
  BY <1>1, <1>4, TakenOut
<1>6. SumFunctionOnSet(f, T \ {Chosen(T)}) \in Int
  BY <1>2, <1>5
<1> QED BY <1>0, <1>3, <1>4, <1>6

\* Any element may be taken out of the sum.
LEMMA SumTakeOut ==
  ASSUME NEW f, NEW S, IntOn(f, S), NEW x \in S
  PROVE  SumFunctionOnSet(f, S) = f[x] + SumFunctionOnSet(f, S \ {x})
<1> DEFINE W == {T \in SUBSET S :
     \E y \in T : SumFunctionOnSet(f, T) # f[y] + SumFunctionOnSet(f, T \ {y})}
<1>0. IsFiniteSet(S) /\ \A y \in S : f[y] \in Int
  BY DEF IntOn
<1> SUFFICES ASSUME W # {} PROVE FALSE
  OBVIOUS
<1>1. \A T \in SUBSET S : IsFiniteSet(T) /\ IntOn(f, T) /\ SumFunctionOnSet(f, T) \in Int
  BY <1>0, FS_Subset, SumType DEF IntOn
<1>2. PICK T \in W : \A U \in W : ~(Cardinality(U) < Cardinality(T))
  BY <1>1, SmallestSet
<1>3. T \in SUBSET S
  OBVIOUS
<1>4. PICK y \in T : SumFunctionOnSet(f, T) # f[y] + SumFunctionOnSet(f, T \ {y})
  OBVIOUS
<1>5. PICK c : c = Chosen(T)
  OBVIOUS
<1>6. c \in T /\ SumFunctionOnSet(f, T) = f[c] + SumFunctionOnSet(f, T \ {c})
  BY <1>1, <1>3, <1>4, <1>5, SumEquation, ChosenIsMember
<1>7. c # y
  BY <1>4, <1>6
<1>8. /\ Cardinality(T \ {c}) < Cardinality(T)
      /\ Cardinality(T \ {y}) < Cardinality(T)
  BY <1>1, <1>3, <1>6, TakenOut
<1>9. SumFunctionOnSet(f, T \ {c}) = f[y] + SumFunctionOnSet(f, (T \ {c}) \ {y})
  <2>1. T \ {c} \notin W /\ T \ {c} \in SUBSET S /\ y \in T \ {c}
    <3>1. T \ {c} \in SUBSET S /\ y \in T \ {c}
      BY <1>3, <1>7
    <3> HIDE DEF W
    <3> QED BY <1>2, <1>8, <3>1
  <2> QED BY <2>1
<1>10. SumFunctionOnSet(f, T \ {y}) = f[c] + SumFunctionOnSet(f, (T \ {y}) \ {c})
  <2>1. T \ {y} \notin W /\ T \ {y} \in SUBSET S /\ c \in T \ {y}
    <3>1. T \ {y} \in SUBSET S /\ c \in T \ {y}
      BY <1>3, <1>6, <1>7
    <3> HIDE DEF W
    <3> QED BY <1>2, <1>8, <3>1
  <2> QED BY <2>1
<1>11. PICK V : V = (T \ {y}) \ {c}
  OBVIOUS
<1>12. V = (T \ {c}) \ {y} /\ V \in SUBSET S
  BY <1>3, <1>11
<1>13. f[c] \in Int /\ f[y] \in Int /\ SumFunctionOnSet(f, V) \in Int
  BY <1>0, <1>1, <1>3, <1>6, <1>12
<1>14. SumFunctionOnSet(f, T \ {c}) = f[y] + SumFunctionOnSet(f, V)
  BY <1>9, <1>12
<1>15. SumFunctionOnSet(f, T \ {y}) = f[c] + SumFunctionOnSet(f, V)
  BY <1>10, <1>11
<1>16. SumFunctionOnSet(f, T) = f[c] + (f[y] + SumFunctionOnSet(f, V))
  BY <1>6, <1>14
<1>17. f[c] + (f[y] + SumFunctionOnSet(f, V)) = f[y] + (f[c] + SumFunctionOnSet(f, V))
  BY <1>13
<1> HIDE DEF W
<1> QED BY <1>4, <1>15, <1>16, <1>17

\* Adding an element.
LEMMA SumAddOne ==
  ASSUME NEW f, NEW S, IntOn(f, S), NEW x, x \notin S, f[x] \in Int
  PROVE  SumFunctionOnSet(f, S \cup {x}) = SumFunctionOnSet(f, S) + f[x]
<1>1. PICK T : T = S \cup {x}
  OBVIOUS
<1>2. IntOn(f, T) /\ x \in T
  BY <1>1, FS_AddElement DEF IntOn
<1>3. T \ {x} = S
  BY <1>1
<1>4. SumFunctionOnSet(f, T) = f[x] + SumFunctionOnSet(f, S)
  BY <1>2, <1>3, SumTakeOut
<1> QED BY <1>1, <1>4, SumType

\* Functions that agree on a set have the same sum over it.
LEMMA SumSame ==
  ASSUME NEW f, NEW g, NEW S, IsFiniteSet(S), \A x \in S : f[x] = g[x]
  PROVE  SumFunctionOnSet(f, S) = SumFunctionOnSet(g, S)
<1> DEFINE W == {T \in SUBSET S : SumFunctionOnSet(f, T) # SumFunctionOnSet(g, T)}
<1> SUFFICES ASSUME W # {} PROVE FALSE
  OBVIOUS
<1>1. \A T \in W : IsFiniteSet(T)
  BY FS_Subset
<1>2. PICK T \in W : \A U \in W : ~(Cardinality(U) < Cardinality(T))
  BY <1>1, SmallestSet
<1>3. /\ SumFunctionOnSet(f, T) =
           IF T = {} THEN 0 ELSE f[Chosen(T)] + SumFunctionOnSet(f, T \ {Chosen(T)})
      /\ SumFunctionOnSet(g, T) =
           IF T = {} THEN 0 ELSE g[Chosen(T)] + SumFunctionOnSet(g, T \ {Chosen(T)})
  BY <1>1, SumEquation
<1>4. T # {} /\ Chosen(T) \in T
  BY <1>3, ChosenIsMember
<1>5. Cardinality(T \ {Chosen(T)}) < Cardinality(T)
  BY <1>1, <1>4, TakenOut
<1>6. SumFunctionOnSet(f, T \ {Chosen(T)}) = SumFunctionOnSet(g, T \ {Chosen(T)})
  BY <1>2, <1>5
<1> QED BY <1>3, <1>4, <1>6

\* A function that is nowhere larger has no larger sum.
LEMMA SumLeq ==
  ASSUME NEW f, NEW g, NEW S, IntOn(f, S), IntOn(g, S), \A x \in S : f[x] <= g[x]
  PROVE  SumFunctionOnSet(f, S) <= SumFunctionOnSet(g, S)
<1> DEFINE W == {T \in SUBSET S : ~(SumFunctionOnSet(f, T) <= SumFunctionOnSet(g, T))}
<1> SUFFICES ASSUME W # {} PROVE FALSE
  OBVIOUS
<1>1. \A T \in SUBSET S : /\ IsFiniteSet(T)
                          /\ SumFunctionOnSet(f, T) \in Int /\ SumFunctionOnSet(g, T) \in Int
  BY FS_Subset, SumType DEF IntOn
<1>2. PICK T \in W : \A U \in W : ~(Cardinality(U) < Cardinality(T))
  BY <1>1, SmallestSet
<1>3. /\ SumFunctionOnSet(f, T) =
           IF T = {} THEN 0 ELSE f[Chosen(T)] + SumFunctionOnSet(f, T \ {Chosen(T)})
      /\ SumFunctionOnSet(g, T) =
           IF T = {} THEN 0 ELSE g[Chosen(T)] + SumFunctionOnSet(g, T \ {Chosen(T)})
  BY <1>1, SumEquation
<1>4. T # {}
  BY <1>3
<1>5. PICK c : c = Chosen(T)
  OBVIOUS
<1>6. c \in T /\ c \in S /\ T \ {c} \in SUBSET S
  BY <1>4, <1>5, ChosenIsMember
<1>7. Cardinality(T \ {c}) < Cardinality(T)
  BY <1>1, <1>6, TakenOut
<1>8. SumFunctionOnSet(f, T \ {c}) <= SumFunctionOnSet(g, T \ {c})
  BY <1>2, <1>6, <1>7
<1>9. /\ f[c] \in Int /\ g[c] \in Int /\ f[c] <= g[c]
      /\ SumFunctionOnSet(f, T \ {c}) \in Int /\ SumFunctionOnSet(g, T \ {c}) \in Int
  BY <1>1, <1>6 DEF IntOn
<1>10. f[c] + SumFunctionOnSet(f, T \ {c}) <= g[c] + SumFunctionOnSet(g, T \ {c})
  BY <1>8, <1>9
<1>11. SumFunctionOnSet(f, T) <= SumFunctionOnSet(g, T)
  BY <1>3, <1>4, <1>5, <1>10
<1> QED BY <1>11

\* The sum of naturals is a natural.
LEMMA SumNat ==
  ASSUME NEW f, NEW S, NatOn(f, S)
  PROVE  SumFunctionOnSet(f, S) \in Nat
<1> DEFINE W == {T \in SUBSET S : SumFunctionOnSet(f, T) \notin Nat}
<1>0. IsFiniteSet(S) /\ \A x \in S : f[x] \in Nat
  BY DEF NatOn
<1> SUFFICES ASSUME W # {} PROVE FALSE
  OBVIOUS
<1>1. \A T \in W : IsFiniteSet(T)
  BY <1>0, FS_Subset
<1>2. PICK T \in W : \A U \in W : ~(Cardinality(U) < Cardinality(T))
  BY <1>1, SmallestSet
<1>3. SumFunctionOnSet(f, T) =
        IF T = {} THEN 0 ELSE f[Chosen(T)] + SumFunctionOnSet(f, T \ {Chosen(T)})
  BY <1>1, SumEquation
<1>4. T # {} /\ Chosen(T) \in T
  BY <1>3, ChosenIsMember
<1>5. Cardinality(T \ {Chosen(T)}) < Cardinality(T)
  BY <1>1, <1>4, TakenOut
<1>6. SumFunctionOnSet(f, T \ {Chosen(T)}) \in Nat
  BY <1>2, <1>5
<1> QED BY <1>0, <1>3, <1>4, <1>6

\* One value changes.
LEMMA SumChange ==
  ASSUME NEW f, NEW g, NEW S, IntOn(f, S), IntOn(g, S), NEW x \in S,
         \A y \in S \ {x} : g[y] = f[y]
  PROVE  SumFunctionOnSet(g, S) = SumFunctionOnSet(f, S) - f[x] + g[x]
<1>1. /\ SumFunctionOnSet(f, S) = f[x] + SumFunctionOnSet(f, S \ {x})
      /\ SumFunctionOnSet(g, S) = g[x] + SumFunctionOnSet(g, S \ {x})
  BY SumTakeOut
<1>2. PICK T : T = S \ {x}
  OBVIOUS
<1>3. IsFiniteSet(T) /\ IntOn(f, T) /\ \A y \in T : f[y] = g[y]
  BY <1>2, IntOnSubset, FS_RemoveElement DEF IntOn
<1>4. SumFunctionOnSet(f, T) = SumFunctionOnSet(g, T)
  BY <1>3, SumSame
<1>5. SumFunctionOnSet(f, T) \in Int /\ f[x] \in Int /\ g[x] \in Int
  BY <1>3, SumType DEF IntOn
<1> QED BY <1>1, <1>2, <1>4, <1>5

\* The sum over a set is the sum over its parts in and out of another.
LEMMA SumSplit ==
  ASSUME NEW f, NEW S, IntOn(f, S), NEW P
  PROVE  SumFunctionOnSet(f, S) = SumFunctionOnSet(f, S \cap P) + SumFunctionOnSet(f, S \ P)
<1> DEFINE W == {T \in SUBSET S :
     SumFunctionOnSet(f, T) # SumFunctionOnSet(f, T \cap P) + SumFunctionOnSet(f, T \ P)}
<1> SUFFICES ASSUME W # {} PROVE FALSE
  OBVIOUS
<1>1. \A T \in SUBSET S : IsFiniteSet(T) /\ IntOn(f, T) /\ SumFunctionOnSet(f, T) \in Int
  BY FS_Subset, SumType DEF IntOn
<1>2. PICK T \in W : \A U \in W : ~(Cardinality(U) < Cardinality(T))
  BY <1>1, SmallestSet
<1>3. T \in SUBSET S /\ T \cap P \in SUBSET S /\ T \ P \in SUBSET S
  OBVIOUS
<1>4. T # {}
  BY SumEmpty
<1>5. PICK x : x \in T
  BY <1>4
<1>6. PICK U : U = T \ {x}
  OBVIOUS
<1>7. U \in SUBSET S /\ U \cap P \in SUBSET S /\ U \ P \in SUBSET S
  BY <1>6
<1>8. SumFunctionOnSet(f, U) = SumFunctionOnSet(f, U \cap P) + SumFunctionOnSet(f, U \ P)
  BY <1>1, <1>2, <1>5, <1>6, <1>7, TakenOut
<1>9. SumFunctionOnSet(f, T) = f[x] + SumFunctionOnSet(f, U)
  BY <1>1, <1>3, <1>5, <1>6, SumTakeOut
<1>10. /\ f[x] \in Int
       /\ SumFunctionOnSet(f, U \cap P) \in Int /\ SumFunctionOnSet(f, U \ P) \in Int
  BY <1>1, <1>5, <1>7 DEF IntOn
<1>11. SumFunctionOnSet(f, T) = SumFunctionOnSet(f, T \cap P) + SumFunctionOnSet(f, T \ P)
  <2>1. CASE x \in P
    <3>1. x \in T \cap P /\ (T \cap P) \ {x} = U \cap P /\ T \ P = U \ P
      BY <1>5, <1>6, <2>1
    <3>2. SumFunctionOnSet(f, T \cap P) = f[x] + SumFunctionOnSet(f, U \cap P)
      BY <1>1, <1>3, <3>1, SumTakeOut
    <3>3. SumFunctionOnSet(f, T \ P) = SumFunctionOnSet(f, U \ P)
      BY <3>1
    <3>4. SumFunctionOnSet(f, T)
            = f[x] + (SumFunctionOnSet(f, U \cap P) + SumFunctionOnSet(f, U \ P))
      BY <1>8, <1>9
    <3> QED BY <1>10, <3>2, <3>3, <3>4
  <2>2. CASE x \notin P
    <3>1. x \in T \ P /\ (T \ P) \ {x} = U \ P /\ T \cap P = U \cap P
      BY <1>5, <1>6, <2>2
    <3>2. SumFunctionOnSet(f, T \ P) = f[x] + SumFunctionOnSet(f, U \ P)
      BY <1>1, <1>3, <3>1, SumTakeOut
    <3>3. SumFunctionOnSet(f, T \cap P) = SumFunctionOnSet(f, U \cap P)
      BY <3>1
    <3>4. SumFunctionOnSet(f, T)
            = f[x] + (SumFunctionOnSet(f, U \cap P) + SumFunctionOnSet(f, U \ P))
      BY <1>8, <1>9
    <3> QED BY <1>10, <3>2, <3>3, <3>4
  <2> QED BY <2>1, <2>2
<1> QED BY <1>11

\* A part of a set has no larger sum of naturals.
LEMMA SumSubset ==
  ASSUME NEW f, NEW S, NatOn(f, S), NEW T \in SUBSET S
  PROVE  SumFunctionOnSet(f, T) <= SumFunctionOnSet(f, S)
<1>1. IntOn(f, S)
  BY NatOnIsIntOn
<1>2. S \cap T = T
  OBVIOUS
<1>3. SumFunctionOnSet(f, S) = SumFunctionOnSet(f, T) + SumFunctionOnSet(f, S \ T)
  BY <1>1, <1>2, SumSplit
<1>4. NatOn(f, T) /\ NatOn(f, S \ T)
  BY FS_Subset, FS_Difference DEF NatOn
<1> QED BY <1>3, <1>4, SumNat

\* The sum of zeros is zero.
LEMMA SumZero ==
  ASSUME NEW f, NEW S, IsFiniteSet(S), \A x \in S : f[x] = 0
  PROVE  SumFunctionOnSet(f, S) = 0
<1> DEFINE W == {T \in SUBSET S : SumFunctionOnSet(f, T) # 0}
<1> SUFFICES ASSUME W # {} PROVE FALSE
  OBVIOUS
<1>1. \A T \in W : IsFiniteSet(T)
  BY FS_Subset
<1>2. PICK T \in W : \A U \in W : ~(Cardinality(U) < Cardinality(T))
  BY <1>1, SmallestSet
<1>3. SumFunctionOnSet(f, T) =
        IF T = {} THEN 0 ELSE f[Chosen(T)] + SumFunctionOnSet(f, T \ {Chosen(T)})
  BY <1>1, SumEquation
<1>4. T # {} /\ Chosen(T) \in T
  BY <1>3, ChosenIsMember
<1>5. Cardinality(T \ {Chosen(T)}) < Cardinality(T)
  BY <1>1, <1>4, TakenOut
<1>6. SumFunctionOnSet(f, T \ {Chosen(T)}) = 0
  BY <1>2, <1>5
<1> QED BY <1>3, <1>4, <1>6

\* A function has a greatest value on a finite set that is not empty.
LEMMA GreatestValue ==
  ASSUME NEW f, NEW S, IntOn(f, S), S # {}
  PROVE  \E x \in S : \A y \in S : f[y] <= f[x]
<1> DEFINE W == {T \in SUBSET S : T # {} /\ ~\E x \in T : \A y \in T : f[y] <= f[x]}
<1>0. IsFiniteSet(S) /\ \A x \in S : f[x] \in Int
  BY DEF IntOn
<1> SUFFICES ASSUME W # {} PROVE FALSE
  OBVIOUS
<1>1. \A T \in W : IsFiniteSet(T)
  BY <1>0, FS_Subset
<1>2. PICK T \in W : \A U \in W : ~(Cardinality(U) < Cardinality(T))
  BY <1>1, SmallestSet
<1>3. PICK x : x \in T
  OBVIOUS
<1>4. PICK U : U = T \ {x}
  OBVIOUS
<1>5. Cardinality(U) < Cardinality(T) /\ U \in SUBSET S
  BY <1>1, <1>3, <1>4, TakenOut
<1>6. CASE U = {}
  BY <1>0, <1>3, <1>4, <1>6
<1>7. CASE U # {}
  <2>1. PICK m \in U : \A y \in U : f[y] <= f[m]
    BY <1>2, <1>5, <1>7
  <2>2. f[m] \in Int /\ f[x] \in Int /\ \A y \in T : y \in U \/ y = x
    BY <1>0, <1>3, <1>4
  <2>3. \A y \in U : f[y] \in Int
    BY <1>0, <1>5
  <2>4. CASE f[m] <= f[x]
    BY <1>3, <2>1, <2>2, <2>3, <2>4
  <2>5. CASE f[x] <= f[m]
    BY <1>4, <2>1, <2>2, <2>3, <2>5
  <2> QED BY <2>2, <2>4, <2>5
<1> QED BY <1>6, <1>7
=============================================================================
