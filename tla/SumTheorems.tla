------------------------------ MODULE SumTheorems -----------------------------
(***************************************************************************)
(* Facts about sums over finite sets, by induction on the set.  An induction *)
(* is stated of a set of cases instead of a predicate, and rests on a         *)
(* smallest counterexample (WFMin).                                         *)
(***************************************************************************)
EXTENDS Integers, Functions, FiniteSets, FiniteSetTheorems, TLAPS

LEMMA NatInductive ==
  ASSUME NEW P, 0 \in P, \A n \in Nat : n \in P => n + 1 \in P
  PROVE  Nat \subseteq P
<1> SUFFICES ASSUME Nat \ P # {} PROVE FALSE
  OBVIOUS
<1> DEFINE R == OpToRel(<, Nat)
           T == Nat \ P
<1>1. IsWellFoundedOn(R, Nat)
  BY NatLessThanWellFounded
<1>2. PICK n \in T : \A m \in T : <<m, n>> \notin R
  <2> HIDE DEF R
  <2> QED  BY <1>1, WFMin
<1>3. \A m \in T : ~ (m < n)
  BY <1>2 DEF OpToRel
<1>4. n # 0 /\ n \in Nat
  OBVIOUS
<1>5. n - 1 \in Nat /\ n - 1 < n /\ (n - 1) + 1 = n
  BY <1>4
<1>6. n - 1 \in P
  BY <1>3, <1>5
<1>7. n \in P
  BY <1>5, <1>6
<1> QED  BY <1>7

LEMMA SetInductive ==
  ASSUME NEW S, IsFiniteSet(S), NEW P, {} \in P,
         \A T \in SUBSET S : T # {} /\ (\A x \in T : T \ {x} \in P) => T \in P
  PROVE  SUBSET S \subseteq P
<1> SUFFICES ASSUME (SUBSET S) \ P # {} PROVE FALSE
  OBVIOUS
<1> DEFINE R == StrictSubsetOrdering(S)
           Bad == (SUBSET S) \ P
<1>1. IsWellFoundedOn(R, SUBSET S)
  BY FS_StrictSubsetOrderingWellFounded, FS_FiniteSubsetsOfFinite
<1>2. PICK T \in Bad : \A U \in Bad : <<U, T>> \notin R
  <2> HIDE DEF R
  <2> QED  BY <1>1, WFMin
<1>3. \A x \in T : T \ {x} \in P
  <2> SUFFICES ASSUME NEW x \in T, T \ {x} \notin P PROVE FALSE
    OBVIOUS
  <2>1. T \ {x} \in Bad /\ T \ {x} \subseteq T /\ T \ {x} # T
    OBVIOUS
  <2>2. <<T \ {x}, T>> \in R
    BY <2>1 DEF StrictSubsetOrdering
  <2> QED  BY <1>2, <2>1, <2>2
<1>4. T # {} /\ T \in SUBSET S
  OBVIOUS
<1> QED  BY <1>3, <1>4

(***************************************************************************)
(* The recursion that SumFunctionOnSet stands for has a solution, one only. *)
(***************************************************************************)
FirstOf(s) == CHOOSE x \in s : TRUE
SumBody(f, g, s) == IF s = {} THEN 0 ELSE f[FirstOf(s)] + g[s \ {FirstOf(s)}]
SolvesSum(f, g, S) == g = [s \in SUBSET S |-> SumBody(f, g, s)]

LEMMA FirstIn == \A s : s # {} => FirstOf(s) \in s
BY DEF FirstOf

LEMMA SumUnfold ==
  ASSUME NEW f, NEW S
  PROVE  SumFunctionOnSet(f, S) = (CHOOSE g : g = [s \in SUBSET S |->
           IF s = {} THEN 0 ELSE f[CHOOSE x \in s : TRUE] + g[s \ {CHOOSE x \in s : TRUE}]])[S]
BY Zenon DEF SumFunctionOnSet, FoldFunctionOnSet, MapThenFoldSet

LEMMA SumChosen ==
  ASSUME NEW f, NEW S
  PROVE  SumFunctionOnSet(f, S) = (CHOOSE g : SolvesSum(f, g, S))[S]
BY SumUnfold, Zenon DEF SolvesSum, SumBody, FirstOf

SubsetsUpTo(S, n) == {s \in SUBSET S : Cardinality(s) <= n}
LEMMA SumExists ==
  ASSUME NEW f, NEW S, IsFiniteSet(S)
  PROVE  \E g : SolvesSum(f, g, S)
<1> DEFINE Upto(n) == \E g : g = [s \in SubsetsUpTo(S, n) |-> SumBody(f, g, s)]
           P == {n \in Nat : Upto(n)}
<1>0. \A s \in SUBSET S : IsFiniteSet(s) /\ Cardinality(s) \in Nat
                          /\ (Cardinality(s) = 0 => s = {})
                          /\ \A x \in s : Cardinality(s \ {x}) = Cardinality(s) - 1
  BY FS_Subset, FS_CardinalityType, FS_EmptySet, FS_RemoveElement
<1>1. 0 \in P
  <2> DEFINE g == [s \in SubsetsUpTo(S, 0) |-> 0]
  <2>1. \A s \in SubsetsUpTo(S, 0) : s = {}
    BY <1>0 DEF SubsetsUpTo
  <2>2. \A s \in SubsetsUpTo(S, 0) : SumBody(f, g, s) = 0
    BY <2>1 DEF SumBody
  <2>3. g = [s \in SubsetsUpTo(S, 0) |-> SumBody(f, g, s)]
    BY <2>2
  <2> QED  BY <2>3
<1>2. ASSUME NEW n \in Nat, n \in P PROVE n + 1 \in P
  <2>1. PICK g : g = [s \in SubsetsUpTo(S, n) |-> SumBody(f, g, s)]
    BY <1>2
  <2> DEFINE h == [s \in SubsetsUpTo(S, n + 1) |-> SumBody(f, g, s)]
  <2>2. \A s \in SubsetsUpTo(S, n) : s \in SubsetsUpTo(S, n + 1)
    BY <1>0 DEF SubsetsUpTo
  <2>3. \A s \in SubsetsUpTo(S, n) : h[s] = g[s]
    BY <2>1, <2>2
  <2>4. \A s \in SubsetsUpTo(S, n + 1) : s # {} => s \ {FirstOf(s)} \in SubsetsUpTo(S, n)
    BY <1>0, FirstIn DEF SubsetsUpTo
  <2>5. \A s \in SubsetsUpTo(S, n + 1) : SumBody(f, g, s) = SumBody(f, h, s)
    <3> HIDE DEF h
    <3> QED  BY <2>3, <2>4 DEF SumBody
  <2>6. h = [s \in SubsetsUpTo(S, n + 1) |-> SumBody(f, h, s)]
    BY <2>5
  <2> HIDE DEF h
  <2>7. Upto(n + 1)
    BY <2>6
  <2> QED  BY <2>7
<1>3. Cardinality(S) \in P
  <2> HIDE DEF P
  <2>1. Nat \subseteq P
    BY <1>1, <1>2, NatInductive
  <2> QED  BY <2>1, <1>0
<1>4. SubsetsUpTo(S, Cardinality(S)) = SUBSET S
  BY FS_Subset DEF SubsetsUpTo
<1> QED  BY <1>3, <1>4 DEF SolvesSum

LEMMA SumUnique ==
  ASSUME NEW f, NEW S, IsFiniteSet(S), NEW T \in SUBSET S,
         NEW g, SolvesSum(f, g, S), NEW h, SolvesSum(f, h, T)
  PROVE  g[T] = h[T]
<1> DEFINE P == {s \in SUBSET T : g[s] = h[s]}
<1>1. \A s \in SUBSET T : g[s] = SumBody(f, g, s) /\ h[s] = SumBody(f, h, s)
  BY DEF SolvesSum
<1>2. {} \in P
  BY <1>1 DEF SumBody
<1>3. \A s \in SUBSET T : s # {} /\ (\A x \in s : s \ {x} \in P) => s \in P
  BY <1>1, FirstIn DEF SumBody
<1>4. IsFiniteSet(T)
  BY FS_Subset
<1>5. SUBSET T \subseteq P
  <2> HIDE DEF P
  <2> QED  BY <1>2, <1>3, <1>4, SetInductive
<1> QED  BY <1>5

(***************************************************************************)
(* Sums.                                                                   *)
(***************************************************************************)
LEMMA SumFirst ==
  ASSUME NEW f, NEW S, IsFiniteSet(S)
  PROVE  SumFunctionOnSet(f, S) = IF S = {} THEN 0 ELSE f[FirstOf(S)] + SumFunctionOnSet(f, S \ {FirstOf(S)})
<1> DEFINE T == S \ {FirstOf(S)}
           g == CHOOSE u : SolvesSum(f, u, S)
           h == CHOOSE u : SolvesSum(f, u, T)
<1>1. SolvesSum(f, g, S) /\ SumFunctionOnSet(f, S) = g[S]
  BY SumExists, SumChosen
<1>2. IsFiniteSet(T) /\ T \in SUBSET S
  BY FS_Subset
<1>3. SolvesSum(f, h, T) /\ SumFunctionOnSet(f, T) = h[T]
  BY <1>2, SumExists, SumChosen
<1> HIDE DEF g, h
<1>4. g[T] = h[T]
  BY <1>1, <1>2, <1>3, SumUnique
<1>5. g[S] = SumBody(f, g, S)
  BY <1>1 DEF SolvesSum
<1> QED  BY <1>1, <1>3, <1>4, <1>5 DEF SumBody

\* The sum over nothing.
LEMMA SumEmpty == \A f : SumFunctionOnSet(f, {}) = 0
BY SumFirst, FS_EmptySet

LEMMA SumIsInt ==
  ASSUME NEW f, NEW S, IsFiniteSet(S), \A x \in S : f[x] \in Int
  PROVE  SumFunctionOnSet(f, S) \in Int
<1> DEFINE P == {T \in SUBSET S : SumFunctionOnSet(f, T) \in Int}
<1>1. {} \in P
  BY SumEmpty
<1>2. ASSUME NEW T \in SUBSET S, T # {}, \A x \in T : T \ {x} \in P PROVE T \in P
  <2> DEFINE c == FirstOf(T)
  <2>1. c \in T /\ T \ {c} \in P
    BY <1>2, FirstIn
  <2>2. SumFunctionOnSet(f, T) = f[c] + SumFunctionOnSet(f, T \ {c})
    BY <1>2, SumFirst, FS_Subset
  <2> HIDE DEF c
  <2> QED  BY <2>1, <2>2
<1>3. SUBSET S \subseteq P
  <2> HIDE DEF P
  <2> QED  BY <1>1, <1>2, SetInductive
<1> QED  BY <1>3

LEMMA SumIsNat ==
  ASSUME NEW f, NEW S, IsFiniteSet(S), \A x \in S : f[x] \in Nat
  PROVE  SumFunctionOnSet(f, S) \in Nat
<1> DEFINE P == {T \in SUBSET S : SumFunctionOnSet(f, T) \in Nat}
<1>1. {} \in P
  BY SumEmpty
<1>2. ASSUME NEW T \in SUBSET S, T # {}, \A x \in T : T \ {x} \in P PROVE T \in P
  <2> DEFINE c == FirstOf(T)
  <2>1. c \in T /\ T \ {c} \in P
    BY <1>2, FirstIn
  <2>2. SumFunctionOnSet(f, T) = f[c] + SumFunctionOnSet(f, T \ {c})
    BY <1>2, SumFirst, FS_Subset
  <2> HIDE DEF c
  <2> QED  BY <2>1, <2>2
<1>3. SUBSET S \subseteq P
  <2> HIDE DEF P
  <2> QED  BY <1>1, <1>2, SetInductive
<1> QED  BY <1>3

\* Nothing but zeros.
LEMMA SumZero ==
  ASSUME NEW f, NEW S, IsFiniteSet(S), \A x \in S : f[x] = 0
  PROVE  SumFunctionOnSet(f, S) = 0
<1> DEFINE P == {T \in SUBSET S : SumFunctionOnSet(f, T) = 0}
<1>1. {} \in P
  BY SumEmpty
<1>2. ASSUME NEW T \in SUBSET S, T # {}, \A x \in T : T \ {x} \in P PROVE T \in P
  <2> DEFINE c == FirstOf(T)
  <2>1. c \in T /\ T \ {c} \in P
    BY <1>2, FirstIn
  <2>2. SumFunctionOnSet(f, T) = f[c] + SumFunctionOnSet(f, T \ {c})
    BY <1>2, SumFirst, FS_Subset
  <2> HIDE DEF c
  <2> QED  BY <2>1, <2>2
<1>3. SUBSET S \subseteq P
  <2> HIDE DEF P
  <2> QED  BY <1>1, <1>2, SetInductive
<1> QED  BY <1>3

\* Any member may be counted first.
LEMMA SumRemove ==
  ASSUME NEW f, NEW S, IsFiniteSet(S), \A x \in S : f[x] \in Int, NEW y \in S
  PROVE  SumFunctionOnSet(f, S) = f[y] + SumFunctionOnSet(f, S \ {y})
<1> DEFINE Fine(T) == \A z \in T : SumFunctionOnSet(f, T) = f[z] + SumFunctionOnSet(f, T \ {z})
           P == {T \in SUBSET S : Fine(T)}
<1>1. {} \in P
  OBVIOUS
<1>2. ASSUME NEW T \in SUBSET S, T # {}, \A x \in T : T \ {x} \in P PROVE T \in P
  <2> SUFFICES ASSUME NEW z \in T PROVE SumFunctionOnSet(f, T) = f[z] + SumFunctionOnSet(f, T \ {z})
    OBVIOUS
  <2> DEFINE c == FirstOf(T)
  <2>1. c \in T /\ SumFunctionOnSet(f, T) = f[c] + SumFunctionOnSet(f, T \ {c})
    BY <1>2, SumFirst, FirstIn, FS_Subset
  <2> HIDE DEF c
  <2>2. CASE c = z
    BY <2>1, <2>2
  <2>3. CASE c # z
    <3>1. z \in T \ {c} /\ c \in T \ {z}
      BY <2>1, <2>3
    <3>2. (T \ {c}) \ {z} = (T \ {z}) \ {c}
      OBVIOUS
    <3>3. SumFunctionOnSet(f, T \ {c}) = f[z] + SumFunctionOnSet(f, (T \ {c}) \ {z})
      BY <1>2, <2>1, <3>1
    <3>4. SumFunctionOnSet(f, T \ {z}) = f[c] + SumFunctionOnSet(f, (T \ {z}) \ {c})
      BY <1>2, <3>1
    <3>5. SumFunctionOnSet(f, (T \ {z}) \ {c}) \in Int
      <4>1. IsFiniteSet((T \ {z}) \ {c}) /\ \A x \in (T \ {z}) \ {c} : f[x] \in Int
        BY FS_Subset
      <4> QED  BY <4>1, SumIsInt
    <3>6. f[c] \in Int /\ f[z] \in Int
      BY <2>1
    <3> DEFINE rest == SumFunctionOnSet(f, (T \ {z}) \ {c})
    <3>7. SumFunctionOnSet(f, T) = f[c] + (f[z] + rest) /\ SumFunctionOnSet(f, T \ {z}) = f[c] + rest
      BY <2>1, <3>2, <3>3, <3>4
    <3>8. rest \in Int
      BY <3>5
    <3> HIDE DEF rest
    <3> QED  BY <3>6, <3>7, <3>8
  <2> QED  BY <2>2, <2>3
<1>3. SUBSET S \subseteq P
  <2> HIDE DEF P
  <2> QED  BY <1>1, <1>2, SetInductive
<1> QED  BY <1>3

\* One more member.
LEMMA SumAdd ==
  ASSUME NEW f, NEW S, IsFiniteSet(S), NEW y, y \notin S, \A x \in S \cup {y} : f[x] \in Int
  PROVE  SumFunctionOnSet(f, S \cup {y}) = SumFunctionOnSet(f, S) + f[y]
<1>1. IsFiniteSet(S \cup {y}) /\ (S \cup {y}) \ {y} = S
  BY FS_AddElement
<1>2. SumFunctionOnSet(f, S \cup {y}) = f[y] + SumFunctionOnSet(f, (S \cup {y}) \ {y})
  BY <1>1, SumRemove
<1>3. SumFunctionOnSet(f, S) \in Int /\ f[y] \in Int
  BY SumIsInt
<1>4. SumFunctionOnSet(f, S \cup {y}) = f[y] + SumFunctionOnSet(f, S)
  BY <1>1, <1>2
<1> QED  BY <1>3, <1>4

\* Only the values at the members count.
LEMMA SumSame ==
  ASSUME NEW f, NEW g, NEW S, IsFiniteSet(S), \A x \in S : f[x] = g[x]
  PROVE  SumFunctionOnSet(f, S) = SumFunctionOnSet(g, S)
<1> DEFINE P == {T \in SUBSET S : SumFunctionOnSet(f, T) = SumFunctionOnSet(g, T)}
<1>1. {} \in P
  BY SumEmpty
<1>2. ASSUME NEW T \in SUBSET S, T # {}, \A x \in T : T \ {x} \in P PROVE T \in P
  <2> DEFINE c == FirstOf(T)
  <2>1. c \in T /\ T \ {c} \in P
    BY <1>2, FirstIn
  <2>2. SumFunctionOnSet(f, T) = f[c] + SumFunctionOnSet(f, T \ {c}) /\ SumFunctionOnSet(g, T) = g[c] + SumFunctionOnSet(g, T \ {c})
    BY <1>2, SumFirst, FS_Subset
  <2> HIDE DEF c
  <2> QED  BY <2>1, <2>2
<1>3. SUBSET S \subseteq P
  <2> HIDE DEF P
  <2> QED  BY <1>1, <1>2, SetInductive
<1> QED  BY <1>3

\* One value changed.
LEMMA SumChange ==
  ASSUME NEW f, NEW g, NEW S, IsFiniteSet(S), NEW y \in S,
         \A x \in S : f[x] \in Int /\ g[x] \in Int,
         \A x \in S \ {y} : f[x] = g[x]
  PROVE  SumFunctionOnSet(g, S) = SumFunctionOnSet(f, S) - f[y] + g[y]
<1>1. IsFiniteSet(S \ {y})
  BY FS_Subset
<1>2. SumFunctionOnSet(f, S \ {y}) = SumFunctionOnSet(g, S \ {y}) /\ SumFunctionOnSet(f, S \ {y}) \in Int
  BY <1>1, SumSame, SumIsInt
<1>3. SumFunctionOnSet(f, S) = f[y] + SumFunctionOnSet(f, S \ {y}) /\ SumFunctionOnSet(g, S) = g[y] + SumFunctionOnSet(g, S \ {y})
  BY SumRemove
<1> QED  BY <1>2, <1>3

\* No part exceeds the whole, nor a sum of smaller values.
LEMMA SumPart ==
  ASSUME NEW f, NEW S, IsFiniteSet(S), \A x \in S : f[x] \in Nat, NEW U \in SUBSET S
  PROVE  SumFunctionOnSet(f, U) <= SumFunctionOnSet(f, S)
<1> DEFINE P == {T \in SUBSET S : U \subseteq T => SumFunctionOnSet(f, U) <= SumFunctionOnSet(f, T)}
<1>0. \A T \in SUBSET S : IsFiniteSet(T) /\ SumFunctionOnSet(f, T) \in Nat
  <2> TAKE T \in SUBSET S
  <2>1. IsFiniteSet(T) /\ \A x \in T : f[x] \in Nat
    BY FS_Subset
  <2> QED  BY <2>1, SumIsNat
<1>1. {} \in P
  <2>1. U \subseteq {} => U = {}
    OBVIOUS
  <2> QED  BY <2>1, SumEmpty
<1>2. ASSUME NEW T \in SUBSET S, T # {}, \A x \in T : T \ {x} \in P PROVE T \in P
  <2> SUFFICES ASSUME U \subseteq T PROVE SumFunctionOnSet(f, U) <= SumFunctionOnSet(f, T)
    OBVIOUS
  <2>1. CASE U = T
    BY <1>0, <2>1
  <2>2. CASE U # T
    <3>1. PICK z \in T : z \notin U
      BY <2>2
    <3>2. U \subseteq T \ {z} /\ T \ {z} \in P
      BY <1>2, <3>1
    <3>3. SumFunctionOnSet(f, U) <= SumFunctionOnSet(f, T \ {z})
      BY <3>2
    <3>4. SumFunctionOnSet(f, T) = f[z] + SumFunctionOnSet(f, T \ {z})
      BY <1>0, <3>1, SumRemove
    <3>5. f[z] \in Nat /\ SumFunctionOnSet(f, T \ {z}) \in Nat /\ SumFunctionOnSet(f, U) \in Nat
      BY <1>0, <3>1
    <3> QED  BY <3>3, <3>4, <3>5
  <2> QED  BY <2>1, <2>2
<1>3. SUBSET S \subseteq P
  <2> HIDE DEF P
  <2> QED  BY <1>1, <1>2, SetInductive
<1> QED  BY <1>3
=============================================================================
