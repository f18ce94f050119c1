------------------------------ MODULE SumLemmas ------------------------------
(* What the community modules' SumFunctionOnSet computes over a finite set:  *)
(* the fold picks the elements in an order of its own, and the sum does not  *)
(* depend on it. Induction is by the least counterexample in size (WFMin),   *)
(* and the fold's function is built up to a size first, so that the CHOOSE   *)
(* of its recursive definition has something to choose.                      *)
EXTENDS Integers, FiniteSets, Functions, FiniteSetTheorems, WellFoundedInduction, TLAPS

Chosen(S) == CHOOSE x \in S : TRUE

(* g sums f over the subsets of S, over those of at most n elements. *)
SumsTo(f, S, g) ==
    g = [s \in SUBSET S |-> IF s = {} THEN 0 ELSE f[Chosen(s)] + g[s \ {Chosen(s)}]]

UpTo(S, n) == {s \in SUBSET S : Cardinality(s) <= n}

SumsUpTo(f, S, n, g) ==
    g = [s \in UpTo(S, n) |-> IF s = {} THEN 0 ELSE f[Chosen(s)] + g[s \ {Chosen(s)}]]

(* A set of numbers that is not empty has a least one. *)
LEMMA Least ==
    ASSUME NEW S, S \subseteq Nat, S # {}
    PROVE  \E n \in S : \A m \in S : n <= m
<1> DEFINE R == OpToRel(<, Nat)
<1>1. IsWellFoundedOn(R, Nat)
  BY NatLessThanWellFounded
<1> HIDE DEF R
<1>2. PICK x \in S : \A y \in S : ~(<<y, x>> \in R)
  BY <1>1, WFMin
<1>3. \A y \in S : y < x => <<y, x>> \in R
  BY DEF R, OpToRel
<1>4. \A y \in S : ~(y < x)
  BY <1>2, <1>3, Zenon
<1>5. QED
  BY <1>4

(* Of sets that are finite, some set is a smallest one. *)
LEMMA LeastSet ==
    ASSUME NEW F, F # {}, \A s \in F : IsFiniteSet(s)
    PROVE  \E s \in F : \A t \in F : Cardinality(s) <= Cardinality(t)
<1> DEFINE N == {Cardinality(s) : s \in F}
<1>1. N \subseteq Nat /\ N # {}
  BY FS_CardinalityType
<1>2. PICK n \in N : \A m \in N : n <= m
  BY <1>1, Least
<1>3. QED
  BY <1>2

(* The element the fold takes first, and what it leaves. *)
LEMMA TakeFirst ==
    ASSUME NEW S, IsFiniteSet(S), S # {}
    PROVE  /\ Chosen(S) \in S
           /\ IsFiniteSet(S \ {Chosen(S)})
           /\ Cardinality(S) \in Nat /\ Cardinality(S \ {Chosen(S)}) \in Nat
           /\ Cardinality(S \ {Chosen(S)}) = Cardinality(S) - 1
<1>1. Chosen(S) \in S
  BY DEF Chosen
<1>2. QED
  BY <1>1, FS_RemoveElement, FS_CardinalityType

LEMMA SumUnfold ==
    ASSUME NEW f, NEW S
    PROVE  SumFunctionOnSet(f, S) = (CHOOSE g : SumsTo(f, S, g))[S]
BY DEF SumFunctionOnSet, FoldFunctionOnSet, MapThenFoldSet, SumsTo, Chosen

LEMMA SumsUpToSome ==
    ASSUME NEW f, NEW S, IsFiniteSet(S), NEW n \in Nat
    PROVE  \E g : SumsUpTo(f, S, n, g)
<1> DEFINE Bad == {m \in Nat : ~ \E g : SumsUpTo(f, S, m, g)}
<1>1. SUFFICES ASSUME Bad # {} PROVE FALSE
  OBVIOUS
<1>2. PICK m \in Bad : \A o \in Bad : m <= o
  BY <1>1, Least
<1>3. \A s \in SUBSET S : /\ IsFiniteSet(s) /\ Cardinality(s) \in Nat
                          /\ s # {} => /\ s \ {Chosen(s)} \in SUBSET S
                                       /\ Cardinality(s \ {Chosen(s)}) = Cardinality(s) - 1
  BY TakeFirst, FS_Subset, FS_CardinalityType
<1>4. CASE m = 0
  <2> DEFINE g == [s \in UpTo(S, 0) |-> 0]
  <2>1. ASSUME NEW s \in UpTo(S, 0)
        PROVE  s = {}
    <3>1. s \in SUBSET S /\ Cardinality(s) <= 0
      BY DEF UpTo
    <3>2. IsFiniteSet(s) /\ Cardinality(s) \in Nat
      BY <1>3, <3>1
    <3>3. Cardinality(s) = 0
      BY <3>1, <3>2
    <3>4. QED
      BY <3>2, <3>3, FS_EmptySet
  <2>2. SumsUpTo(f, S, 0, g)
    BY <2>1 DEF SumsUpTo
  <2>3. QED
    BY <1>4, <2>2
<1>5. CASE m # 0
  <2>1. m - 1 \in Nat /\ m - 1 \notin Bad
    BY <1>2, <1>5
  <2>2. PICK h : SumsUpTo(f, S, m - 1, h)
    BY <2>1
  <2> DEFINE g == [s \in UpTo(S, m) |-> IF s = {} THEN 0 ELSE f[Chosen(s)] + h[s \ {Chosen(s)}]]
  <2>3. ASSUME NEW s \in UpTo(S, m), s # {}
        PROVE  g[s \ {Chosen(s)}] = h[s \ {Chosen(s)}]
    <3> DEFINE t == s \ {Chosen(s)}
    <3>1. t \in UpTo(S, m - 1) /\ t \in UpTo(S, m)
      <4>1. s \in SUBSET S /\ Cardinality(s) <= m /\ m \in Nat
        BY <2>3 DEF UpTo
      <4>2. t \in SUBSET S /\ Cardinality(t) = Cardinality(s) - 1 /\ Cardinality(s) \in Nat
        BY <1>3, <2>3, <4>1
      <4>3. QED
        BY <4>1, <4>2 DEF UpTo
    <3>2. h[t] = IF t = {} THEN 0 ELSE f[Chosen(t)] + h[t \ {Chosen(t)}]
      BY <2>2, <3>1 DEF SumsUpTo
    <3>3. QED
      BY <3>1, <3>2
  <2>4. SumsUpTo(f, S, m, g)
    BY <2>3 DEF SumsUpTo
  <2>5. QED
    BY <2>4
<1>6. QED
  BY <1>4, <1>5

LEMMA SumsSome ==
    ASSUME NEW f, NEW S, IsFiniteSet(S)
    PROVE  \E g : SumsTo(f, S, g)
<1>1. Cardinality(S) \in Nat /\ UpTo(S, Cardinality(S)) = SUBSET S
  BY FS_Subset, FS_CardinalityType DEF UpTo
<1>2. PICK g : SumsUpTo(f, S, Cardinality(S), g)
  BY <1>1, SumsUpToSome
<1>3. SumsTo(f, S, g)
  BY <1>1, <1>2 DEF SumsUpTo, SumsTo
<1>4. QED
  BY <1>3

(* It is the same over the subsets of a smaller set, and for a function that *)
(* agrees there.                                                             *)
LEMMA SumsAgree ==
    ASSUME NEW S, IsFiniteSet(S), NEW T, T \subseteq S, NEW d, NEW f,
           \A x \in T : d[x] = f[x],
           NEW g, SumsTo(d, S, g), NEW h, SumsTo(f, T, h)
    PROVE  \A s \in SUBSET T : g[s] = h[s]
<1> DEFINE Bad == {s \in SUBSET T : g[s] # h[s]}
<1>1. SUFFICES ASSUME Bad # {} PROVE FALSE
  OBVIOUS
<1>2. \A s \in SUBSET T : IsFiniteSet(s)
  BY FS_Subset
<1>3. PICK s \in Bad : \A t \in Bad : Cardinality(s) <= Cardinality(t)
  BY <1>1, <1>2, LeastSet
<1>4. CASE s = {}
  BY <1>3, <1>4 DEF SumsTo
<1>5. CASE s # {}
  <2> DEFINE t == s \ {Chosen(s)}
  <2>1. /\ Chosen(s) \in T /\ t \in SUBSET T
        /\ Cardinality(s) \in Nat /\ Cardinality(t) = Cardinality(s) - 1
    BY <1>2, <1>5, TakeFirst
  <2>2. g[t] = h[t]
    BY <1>3, <2>1
  <2>3. g[s] = d[Chosen(s)] + g[t] /\ h[s] = f[Chosen(s)] + h[t]
    BY <1>5 DEF SumsTo
  <2>4. QED
    BY <2>1, <2>2, <2>3
<1>6. QED
  BY <1>4, <1>5

LEMMA SumEmpty == ASSUME NEW f PROVE SumFunctionOnSet(f, {}) = 0
<1>1. PICK g : g = CHOOSE h : SumsTo(f, {}, h)
  OBVIOUS
<1>2. SumsTo(f, {}, g)
  BY <1>1, SumsSome, FS_EmptySet
<1>3. g[{}] = 0
  BY <1>2 DEF SumsTo
<1>4. QED
  BY <1>1, <1>3, SumUnfold

LEMMA SumFirst ==
    ASSUME NEW f, NEW S, IsFiniteSet(S), S # {}
    PROVE  SumFunctionOnSet(f, S) = f[Chosen(S)] + SumFunctionOnSet(f, S \ {Chosen(S)})
<1> DEFINE T == S \ {Chosen(S)}
<1>1. PICK g : g = CHOOSE e : SumsTo(f, S, e)
  OBVIOUS
<1>2. PICK h : h = CHOOSE e : SumsTo(f, T, e)
  OBVIOUS
<1>3. SumsTo(f, S, g) /\ SumsTo(f, T, h)
  BY <1>1, <1>2, SumsSome, TakeFirst
<1>4. g[T] = h[T]
  <2>1. T \subseteq S /\ T \in SUBSET T /\ \A x \in T : f[x] = f[x]
    OBVIOUS
  <2> HIDE DEF T
  <2>2. \A s \in SUBSET T : g[s] = h[s]
    BY <1>3, <2>1, SumsAgree
  <2>3. QED
    BY <2>1, <2>2
<1>5. g[S] = f[Chosen(S)] + g[T]
  BY <1>3 DEF SumsTo
<1>6. QED
  BY <1>1, <1>2, <1>4, <1>5, SumUnfold

(* A sum looks at the function on its set only. *)
LEMMA SumSame ==
    ASSUME NEW f, NEW g, NEW S, IsFiniteSet(S), \A x \in S : f[x] = g[x]
    PROVE  SumFunctionOnSet(f, S) = SumFunctionOnSet(g, S)
<1>1. PICK d : d = CHOOSE e : SumsTo(f, S, e)
  OBVIOUS
<1>2. PICK h : h = CHOOSE e : SumsTo(g, S, e)
  OBVIOUS
<1>3. SumsTo(f, S, d) /\ SumsTo(g, S, h)
  BY <1>1, <1>2, SumsSome
<1>4. d[S] = h[S]
  BY <1>3, SumsAgree
<1>5. QED
  BY <1>1, <1>2, <1>4, SumUnfold

(* Sums of numbers are numbers. *)
LEMMA SumType ==
    ASSUME NEW f, NEW S, IsFiniteSet(S), \A x \in S : f[x] \in Nat
    PROVE  SumFunctionOnSet(f, S) \in Nat
<1> DEFINE Bad == {s \in SUBSET S : SumFunctionOnSet(f, s) \notin Nat}
<1>1. SUFFICES ASSUME Bad # {} PROVE FALSE
  OBVIOUS
<1>2. \A s \in SUBSET S : IsFiniteSet(s)
  BY FS_Subset
<1>3. PICK s \in Bad : \A t \in Bad : Cardinality(s) <= Cardinality(t)
  BY <1>1, <1>2, LeastSet
<1>4. s # {}
  BY <1>3, SumEmpty
<1> DEFINE t == s \ {Chosen(s)}
<1>5. /\ Chosen(s) \in S /\ t \in SUBSET S
      /\ Cardinality(s) \in Nat /\ Cardinality(t) = Cardinality(s) - 1
  BY <1>2, <1>4, TakeFirst
<1>6. SumFunctionOnSet(f, t) \in Nat /\ f[Chosen(s)] \in Nat
  BY <1>3, <1>5
<1>7. SumFunctionOnSet(f, s) = f[Chosen(s)] + SumFunctionOnSet(f, t)
  BY <1>2, <1>4, SumFirst
<1>8. QED
  BY <1>6, <1>7

(* Any element may be taken out first. *)
LEMMA SumTake ==
    ASSUME NEW f, NEW S, IsFiniteSet(S), \A x \in S : f[x] \in Nat, NEW a \in S
    PROVE  SumFunctionOnSet(f, S) = f[a] + SumFunctionOnSet(f, S \ {a})
<1> DEFINE Bad == {s \in SUBSET S : \E b \in s : SumFunctionOnSet(f, s) # f[b] + SumFunctionOnSet(f, s \ {b})}
<1>1. SUFFICES ASSUME Bad # {} PROVE FALSE
  OBVIOUS
<1>2. \A s \in SUBSET S : IsFiniteSet(s) /\ SumFunctionOnSet(f, s) \in Nat
  BY FS_Subset, SumType
<1>3. PICK s \in Bad : \A t \in Bad : Cardinality(s) <= Cardinality(t)
  BY <1>1, <1>2, LeastSet
<1>4. PICK b \in s : SumFunctionOnSet(f, s) # f[b] + SumFunctionOnSet(f, s \ {b})
  BY <1>3
<1> DEFINE c == Chosen(s)  t == s \ {c}  u == s \ {b}  v == s \ {b, c}
<1>5. /\ c \in s /\ t \in SUBSET S /\ u \in SUBSET S /\ v \in SUBSET S
      /\ Cardinality(s) \in Nat
      /\ Cardinality(t) = Cardinality(s) - 1 /\ Cardinality(u) = Cardinality(s) - 1
  BY <1>2, <1>4, TakeFirst, FS_RemoveElement
<1>6. SumFunctionOnSet(f, s) = f[c] + SumFunctionOnSet(f, t)
  BY <1>2, <1>4, SumFirst
<1>7. t \notin Bad /\ u \notin Bad
  BY <1>3, <1>5
<1> HIDE DEF c
<1>8. b # c
  BY <1>4, <1>6
<1>9. SumFunctionOnSet(f, t) = f[b] + SumFunctionOnSet(f, v)
  <2>1. b \in t /\ t \ {b} = v
    BY <1>4, <1>8
  <2>2. QED
    BY <1>5, <1>7, <2>1
<1>10. SumFunctionOnSet(f, u) = f[c] + SumFunctionOnSet(f, v)
  <2>1. c \in u /\ u \ {c} = v
    BY <1>5, <1>8
  <2>2. QED
    BY <1>5, <1>7, <2>1
<1>11. /\ f[b] \in Nat /\ f[c] \in Nat
       /\ SumFunctionOnSet(f, t) \in Nat /\ SumFunctionOnSet(f, u) \in Nat /\ SumFunctionOnSet(f, v) \in Nat
  BY <1>2, <1>4, <1>5
<1>12. QED
  BY <1>4, <1>6, <1>9, <1>10, <1>11

(* One value changes. *)
LEMMA SumChange ==
    ASSUME NEW S, IsFiniteSet(S), NEW f, \A x \in S : f[x] \in Nat,
           NEW g, \A x \in S : g[x] \in Nat,
           NEW a \in S, \A x \in S \ {a} : g[x] = f[x]
    PROVE  SumFunctionOnSet(g, S) = SumFunctionOnSet(f, S) - f[a] + g[a]
<1>1. IsFiniteSet(S \ {a})
  BY FS_RemoveElement
<1>2. SumFunctionOnSet(g, S \ {a}) = SumFunctionOnSet(f, S \ {a})
  BY <1>1, SumSame
<1>3. SumFunctionOnSet(f, S \ {a}) \in Nat
  BY <1>1, SumType
<1>4. /\ SumFunctionOnSet(f, S) = f[a] + SumFunctionOnSet(f, S \ {a})
      /\ SumFunctionOnSet(g, S) = g[a] + SumFunctionOnSet(g, S \ {a})
  BY SumTake
<1>5. QED
  BY <1>2, <1>3, <1>4

(* One element is added. *)
LEMMA SumAdd ==
    ASSUME NEW S, IsFiniteSet(S), NEW f, NEW a, a \notin S, \A x \in S \cup {a} : f[x] \in Nat
    PROVE  SumFunctionOnSet(f, S \cup {a}) = f[a] + SumFunctionOnSet(f, S)
<1>1. IsFiniteSet(S \cup {a}) /\ (S \cup {a}) \ {a} = S
  BY FS_AddElement
<1>2. QED
  BY <1>1, SumTake

LEMMA SumZero ==
    ASSUME NEW f, NEW S, IsFiniteSet(S), \A x \in S : f[x] = 0
    PROVE  SumFunctionOnSet(f, S) = 0
<1> DEFINE Bad == {s \in SUBSET S : SumFunctionOnSet(f, s) # 0}
<1>1. SUFFICES ASSUME Bad # {} PROVE FALSE
  OBVIOUS
<1>2. \A s \in SUBSET S : IsFiniteSet(s)
  BY FS_Subset
<1>3. PICK s \in Bad : \A t \in Bad : Cardinality(s) <= Cardinality(t)
  BY <1>1, <1>2, LeastSet
<1>4. s # {}
  BY <1>3, SumEmpty
<1> DEFINE t == s \ {Chosen(s)}
<1>5. /\ Chosen(s) \in S /\ t \in SUBSET S
      /\ Cardinality(s) \in Nat /\ Cardinality(t) = Cardinality(s) - 1
  BY <1>2, <1>4, TakeFirst
<1>6. SumFunctionOnSet(f, t) = 0 /\ f[Chosen(s)] = 0
  BY <1>3, <1>5
<1>7. SumFunctionOnSet(f, s) = f[Chosen(s)] + SumFunctionOnSet(f, t)
  BY <1>2, <1>4, SumFirst
<1>8. QED
  BY <1>6, <1>7

(* A sum of smaller numbers is no greater. *)
LEMMA SumLess ==
    ASSUME NEW f, NEW g, NEW S, IsFiniteSet(S),
           \A x \in S : f[x] \in Nat /\ g[x] \in Nat /\ g[x] <= f[x]
    PROVE  SumFunctionOnSet(g, S) <= SumFunctionOnSet(f, S)
<1> DEFINE Bad == {s \in SUBSET S : ~(SumFunctionOnSet(g, s) <= SumFunctionOnSet(f, s))}
<1>1. SUFFICES ASSUME Bad # {} PROVE FALSE
  OBVIOUS
<1>2. \A s \in SUBSET S : IsFiniteSet(s)
  BY FS_Subset
<1>3. PICK s \in Bad : \A t \in Bad : Cardinality(s) <= Cardinality(t)
  BY <1>1, <1>2, LeastSet
<1>4. s # {}
  BY <1>3, SumEmpty
<1> DEFINE t == s \ {Chosen(s)}
<1>5. /\ Chosen(s) \in S /\ t \in SUBSET S /\ s \in SUBSET S
      /\ Cardinality(s) \in Nat /\ Cardinality(t) = Cardinality(s) - 1
  BY <1>2, <1>3, <1>4, TakeFirst
<1>6. SumFunctionOnSet(g, t) <= SumFunctionOnSet(f, t)
  BY <1>3, <1>5
<1>7. SumFunctionOnSet(f, t) \in Nat /\ SumFunctionOnSet(g, t) \in Nat
  BY <1>2, <1>5, SumType
<1>8. /\ SumFunctionOnSet(f, s) = f[Chosen(s)] + SumFunctionOnSet(f, t)
      /\ SumFunctionOnSet(g, s) = g[Chosen(s)] + SumFunctionOnSet(g, t)
  BY <1>2, <1>4, <1>5, SumFirst
<1>9. SumFunctionOnSet(g, s) <= SumFunctionOnSet(f, s)
  BY <1>5, <1>6, <1>7, <1>8
<1>10. QED
  BY <1>3, <1>9

(* A sum of numbers is zero only if each is. *)
LEMMA SumOfNone ==
    ASSUME NEW f, NEW S, IsFiniteSet(S), \A x \in S : f[x] \in Nat, SumFunctionOnSet(f, S) = 0, NEW a \in S
    PROVE  f[a] = 0
<1>1. SumFunctionOnSet(f, S) = f[a] + SumFunctionOnSet(f, S \ {a})
  BY SumTake
<1>2. IsFiniteSet(S \ {a})
  BY FS_RemoveElement
<1>3. SumFunctionOnSet(f, S \ {a}) \in Nat
  BY <1>2, SumType
<1>4. QED
  BY <1>1, <1>3
=============================================================================
