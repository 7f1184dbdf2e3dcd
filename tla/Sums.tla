--------------------------------- MODULE Sums ---------------------------------
(***************************************************************************)
(* Facts about the sums of the ledger: what SumFunction of the community   *)
(* modules is on a finite domain, and how it follows a change of one       *)
(* summand.  The library's induction theorems take an operator; these take *)
(* the set of the sets a fact is true of, which comes to the same.         *)
(***************************************************************************)
EXTENDS Integers, Functions, FiniteSetTheorems, TLAPS

\* What is true of a set as soon as it is true of all its smaller subsets is true
\* of every finite set.
LEMMA SmallerFirst ==
    ASSUME NEW S, IsFiniteSet(S), NEW C,
           \A T \in SUBSET S : (\A U \in SUBSET T : U # T => U \in C) => T \in C
    PROVE  \A T \in SUBSET S : T \in C
<1> DEFINE Bad == { T \in SUBSET S : T \notin C }
<1> SUFFICES ASSUME Bad # {} PROVE FALSE
    OBVIOUS
<1>1. IsWellFoundedOn(StrictSubsetOrdering(S), SUBSET S)
    <2>1. IsWellFoundedOn(StrictSubsetOrdering(S), FiniteSubsetsOf(S))
        BY FS_StrictSubsetOrderingWellFounded
    <2>2. FiniteSubsetsOf(S) = SUBSET S
        BY FS_FiniteSubsetsOfFinite
    <2> QED
        BY <2>1, <2>2
<1>2. Bad \subseteq SUBSET S
    OBVIOUS
<1> HIDE DEF Bad
<1>3. PICK T \in Bad : \A U \in Bad : ~ (<<U, T>> \in StrictSubsetOrdering(S))
    BY <1>1, <1>2, WFMin
<1> USE DEF Bad
<1>4. \A U \in SUBSET T : U # T => U \in C
    BY <1>3 DEF StrictSubsetOrdering
<1> QED
    BY <1>3, <1>4

\* What is true of the empty set, and stays true when one element joins.
LEMMA OneByOne ==
    ASSUME NEW S, IsFiniteSet(S), NEW C, {} \in C,
           \A T \in SUBSET S : \A x \in S \ T : T \in C => T \cup {x} \in C
    PROVE  S \in C
<1> SUFFICES ASSUME NEW T \in SUBSET S, \A U \in SUBSET T : U # T => U \in C
             PROVE  T \in C
    BY SmallerFirst
<1>1. CASE T = {}
    BY <1>1
<1>2. CASE T # {}
    <2>1. PICK x \in T : TRUE
        BY <1>2
    <2>2. T \ {x} \in C /\ T \ {x} \in SUBSET S /\ x \in S \ (T \ {x})
        BY <2>1
    <2>3. (T \ {x}) \cup {x} = T
        BY <2>1
    <2> QED
        BY <2>2, <2>3
<1> QED
    BY <1>1, <1>2

-----------------------------------------------------------------------------
(* The recursion behind SumFunction *)

FirstOf(s) == CHOOSE x \in s : TRUE
RestOf(s) == s \ {FirstOf(s)}

\* g sums f over each subset of S, in the order FirstOf takes the elements.
SumsUp(g, f, S) ==
    g = [s \in SUBSET S |-> IF s = {} THEN 0 ELSE f[FirstOf(s)] + g[RestOf(s)]]

LEMMA SumIs ==
    ASSUME NEW f, NEW S
    PROVE  SumFunctionOnSet(f, S) = (CHOOSE g : SumsUp(g, f, S))[S]
BY DEF SumFunctionOnSet, FoldFunctionOnSet, MapThenFoldSet, SumsUp, FirstOf, RestOf

LEMMA RestSmaller ==
    ASSUME NEW s, s # {}
    PROVE  /\ FirstOf(s) \in s
           /\ RestOf(s) \in SUBSET s /\ RestOf(s) # s
<1>1. FirstOf(s) \in s
    BY DEF FirstOf
<1> QED
    BY <1>1 DEF RestOf

\* Two of them agree wherever both are defined.
LEMMA SumsAgree ==
    ASSUME NEW f, NEW S, NEW T, NEW g, NEW h, IsFiniteSet(S),
           SumsUp(g, f, S), SumsUp(h, f, T)
    PROVE  \A s \in SUBSET S : s \in SUBSET T => g[s] = h[s]
<1> DEFINE C == { s \in SUBSET S : s \in SUBSET T => g[s] = h[s] }
<1>1. ASSUME NEW s \in SUBSET S, \A u \in SUBSET s : u # s => u \in C
      PROVE  s \in C
    <2>1. CASE s = {}
        BY <2>1 DEF SumsUp
    <2>2. CASE s # {} /\ s \in SUBSET T
        <3>1. g[RestOf(s)] = h[RestOf(s)]
            BY <1>1, <2>2, RestSmaller
        <3>2. g[s] = f[FirstOf(s)] + g[RestOf(s)] /\ h[s] = f[FirstOf(s)] + h[RestOf(s)]
            BY <2>2 DEF SumsUp
        <3> QED
            BY <3>1, <3>2
    <2> QED
        BY <2>1, <2>2
<1>2. \A s \in SUBSET S : s \in C
    <2> HIDE DEF C
    <2> QED
        BY <1>1, SmallerFirst
<1> QED
    BY <1>2

\* There is one on every finite set: what it says of a proper subset is what the
\* one on that subset says.
LEMMA SumsExist ==
    ASSUME NEW f, NEW S, IsFiniteSet(S)
    PROVE  \E g : SumsUp(g, f, S)
<1> DEFINE C == { s \in SUBSET S : \E g : SumsUp(g, f, s) }
<1>1. ASSUME NEW s \in SUBSET S, \A u \in SUBSET s : u # s => u \in C
      PROVE  s \in C
    <2> DEFINE G(u) == CHOOSE g : SumsUp(g, f, u)
               V(u) == IF u = {} THEN 0 ELSE f[FirstOf(u)] + G(RestOf(u))[RestOf(u)]
               h == [u \in SUBSET s |-> V(u)]
    <2>1. \A u \in SUBSET s : u # s => SumsUp(G(u), f, u)
        BY <1>1
    <2>2. \A u \in SUBSET s : u # {} => RestOf(u) \in SUBSET u /\ RestOf(u) \in SUBSET s /\ RestOf(u) # s
        BY RestSmaller
    <2> HIDE DEF G
    <2>3. \A u \in SUBSET s : u # s => G(u)[u] = V(u)
        <3> SUFFICES ASSUME NEW u \in SUBSET s, u # s PROVE G(u)[u] = V(u)
            OBVIOUS
        <3>1. CASE u = {}
            BY <2>1, <3>1 DEF SumsUp
        <3>2. CASE u # {}
            <4>1. SumsUp(G(u), f, u) /\ SumsUp(G(RestOf(u)), f, RestOf(u))
                BY <2>1, <2>2, <3>2
            <4>2. IsFiniteSet(u) /\ RestOf(u) \in SUBSET u
                BY <2>2, <3>2, FS_Subset
            <4>3. G(u)[RestOf(u)] = G(RestOf(u))[RestOf(u)]
                BY <4>1, <4>2, SumsAgree
            <4>4. G(u)[u] = f[FirstOf(u)] + G(u)[RestOf(u)]
                BY <4>1, <3>2 DEF SumsUp
            <4> QED
                BY <3>2, <4>3, <4>4
        <3> QED
            BY <3>1, <3>2
    <2>4. \A u \in SUBSET s : h[u] = IF u = {} THEN 0 ELSE f[FirstOf(u)] + h[RestOf(u)]
        <3> SUFFICES ASSUME NEW u \in SUBSET s, u # {}
                     PROVE  h[u] = f[FirstOf(u)] + h[RestOf(u)]
            OBVIOUS
        <3>1. h[u] = f[FirstOf(u)] + G(RestOf(u))[RestOf(u)]
            OBVIOUS
        <3>2. h[RestOf(u)] = V(RestOf(u))
            BY <2>2
        <3> HIDE DEF V, h
        <3> QED
            BY <2>2, <2>3, <3>1, <3>2
    <2>5. SumsUp(h, f, s)
        <3>1. h = [u \in SUBSET s |-> h[u]]
            OBVIOUS
        <3> HIDE DEF h
        <3> QED
            BY <2>4, <3>1 DEF SumsUp
    <2> QED
        BY <2>5
<1>2. \A s \in SUBSET S : s \in C
    <2> HIDE DEF C
    <2> QED
        BY <1>1, SmallerFirst
<1> QED
    BY <1>2

LEMMA SumChosen ==
    ASSUME NEW f, NEW S, IsFiniteSet(S)
    PROVE  \E g : SumsUp(g, f, S) /\ SumFunctionOnSet(f, S) = g[S]
BY SumsExist, SumIs

LEMMA SumEmpty == ASSUME NEW f PROVE SumFunctionOnSet(f, {}) = 0
<1>1. PICK g : SumsUp(g, f, {}) /\ SumFunctionOnSet(f, {}) = g[{}]
    BY SumChosen, FS_EmptySet
<1> QED
    BY <1>1 DEF SumsUp

LEMMA SumFirst ==
    ASSUME NEW f, NEW S, IsFiniteSet(S), S # {}
    PROVE  SumFunctionOnSet(f, S) = f[FirstOf(S)] + SumFunctionOnSet(f, RestOf(S))
<1>1. PICK g : SumsUp(g, f, S) /\ SumFunctionOnSet(f, S) = g[S]
    BY SumChosen
<1>2. RestOf(S) \in SUBSET S /\ IsFiniteSet(RestOf(S))
    BY RestSmaller, FS_Subset
<1>3. PICK h : SumsUp(h, f, RestOf(S)) /\ SumFunctionOnSet(f, RestOf(S)) = h[RestOf(S)]
    BY <1>2, SumChosen
<1>4. g[RestOf(S)] = h[RestOf(S)]
    BY <1>1, <1>2, <1>3, SumsAgree
<1>5. g[S] = f[FirstOf(S)] + g[RestOf(S)]
    BY <1>1 DEF SumsUp
<1> QED
    BY <1>1, <1>3, <1>4, <1>5

-----------------------------------------------------------------------------
(* What the proofs use *)

\* A sum of integers is one.
LEMMA SumInt ==
    ASSUME NEW S, IsFiniteSet(S), NEW f, \A x \in S : f[x] \in Int
    PROVE  SumFunctionOnSet(f, S) \in Int
<1> DEFINE C == { T \in SUBSET S : SumFunctionOnSet(f, T) \in Int }
<1>1. ASSUME NEW T \in SUBSET S, \A U \in SUBSET T : U # T => U \in C
      PROVE  T \in C
    <2>1. CASE T = {}
        BY <2>1, SumEmpty
    <2>2. CASE T # {}
        <3>1. SumFunctionOnSet(f, RestOf(T)) \in Int /\ f[FirstOf(T)] \in Int
            BY <1>1, <2>2, RestSmaller
        <3>2. SumFunctionOnSet(f, T) = f[FirstOf(T)] + SumFunctionOnSet(f, RestOf(T))
            BY <2>2, SumFirst, FS_Subset
        <3> QED
            BY <3>1, <3>2
    <2> QED
        BY <2>1, <2>2
<1>2. \A T \in SUBSET S : T \in C
    <2> HIDE DEF C
    <2> QED
        BY <1>1, SmallerFirst
<1> QED
    BY <1>2

\* Any summand may be taken first.
LEMMA SumTakeOut ==
    ASSUME NEW S, IsFiniteSet(S), NEW f, \A x \in S : f[x] \in Int, NEW a \in S
    PROVE  SumFunctionOnSet(f, S) = f[a] + SumFunctionOnSet(f, S \ {a})
<1> DEFINE C == { T \in SUBSET S : \A b \in T :
                      SumFunctionOnSet(f, T) = f[b] + SumFunctionOnSet(f, T \ {b}) }
<1>1. ASSUME NEW T \in SUBSET S, \A U \in SUBSET T : U # T => U \in C
      PROVE  T \in C
    <2> SUFFICES ASSUME NEW b \in T
                 PROVE  SumFunctionOnSet(f, T) = f[b] + SumFunctionOnSet(f, T \ {b})
        OBVIOUS
    <2> DEFINE c == FirstOf(T)
    <2>1. c \in T /\ IsFiniteSet(T)
        BY RestSmaller, FS_Subset
    <2>2. SumFunctionOnSet(f, T) = f[c] + SumFunctionOnSet(f, T \ {c})
        BY <2>1, SumFirst DEF RestOf
    <2> HIDE DEF c
    <2>3. CASE b # c
        <3>1. T \ {c} \in C /\ T \ {b} \in C
            BY <1>1, <2>1
        <3>2. SumFunctionOnSet(f, T \ {c}) = f[b] + SumFunctionOnSet(f, (T \ {c}) \ {b})
            BY <2>3, <3>1
        <3>3. SumFunctionOnSet(f, T \ {b}) = f[c] + SumFunctionOnSet(f, (T \ {b}) \ {c})
            BY <2>1, <2>3, <3>1
        <3>4. (T \ {c}) \ {b} = (T \ {b}) \ {c}
            OBVIOUS
        <3>5. SumFunctionOnSet(f, (T \ {b}) \ {c}) \in Int /\ f[b] \in Int /\ f[c] \in Int
            <4>1. IsFiniteSet((T \ {b}) \ {c}) /\ (T \ {b}) \ {c} \subseteq S
                BY <2>1, FS_Subset
            <4> QED
                BY <2>1, <4>1, SumInt
        <3>6. /\ SumFunctionOnSet(f, T) = f[c] + (f[b] + SumFunctionOnSet(f, (T \ {b}) \ {c}))
              /\ f[b] + SumFunctionOnSet(f, T \ {b}) = f[b] + (f[c] + SumFunctionOnSet(f, (T \ {b}) \ {c}))
            BY <2>2, <3>2, <3>3, <3>4, Zenon
        <3> QED
            BY <3>5, <3>6
    <2> QED
        BY <2>2, <2>3
<1>2. \A T \in SUBSET S : T \in C
    <2> HIDE DEF C
    <2> QED
        BY <1>1, SmallerFirst
<1> QED
    BY <1>2

\* A sum of sums, and of what does not grow.
LEMMA SumAdds ==
    ASSUME NEW S, IsFiniteSet(S), NEW f, NEW g, NEW h,
           \A x \in S : f[x] \in Int /\ g[x] \in Int /\ h[x] = f[x] + g[x]
    PROVE  SumFunctionOnSet(h, S) = SumFunctionOnSet(f, S) + SumFunctionOnSet(g, S)
<1> DEFINE C == { T \in SUBSET S : SumFunctionOnSet(h, T) =
                      SumFunctionOnSet(f, T) + SumFunctionOnSet(g, T) }
<1>1. ASSUME NEW T \in SUBSET S, \A U \in SUBSET T : U # T => U \in C
      PROVE  T \in C
    <2>1. CASE T = {}
        BY <2>1, SumEmpty
    <2>2. CASE T # {}
        <3>1. IsFiniteSet(T) /\ FirstOf(T) \in S /\ RestOf(T) \in C /\ RestOf(T) \subseteq S
            BY <1>1, <2>2, RestSmaller, FS_Subset
        <3>2. /\ SumFunctionOnSet(f, T) = f[FirstOf(T)] + SumFunctionOnSet(f, RestOf(T))
              /\ SumFunctionOnSet(g, T) = g[FirstOf(T)] + SumFunctionOnSet(g, RestOf(T))
              /\ SumFunctionOnSet(h, T) = h[FirstOf(T)] + SumFunctionOnSet(h, RestOf(T))
            BY <2>2, <3>1, SumFirst
        <3>3. SumFunctionOnSet(f, RestOf(T)) \in Int /\ SumFunctionOnSet(g, RestOf(T)) \in Int
            BY <3>1, SumInt, FS_Subset
        <3> QED
            BY <3>1, <3>2, <3>3
    <2> QED
        BY <2>1, <2>2
<1>2. \A T \in SUBSET S : T \in C
    <2> HIDE DEF C
    <2> QED
        BY <1>1, SmallerFirst
<1> QED
    BY <1>2

LEMMA SumAtMost ==
    ASSUME NEW S, IsFiniteSet(S), NEW f, NEW g,
           \A x \in S : f[x] \in Int /\ g[x] \in Int /\ f[x] <= g[x]
    PROVE  SumFunctionOnSet(f, S) <= SumFunctionOnSet(g, S)
<1> DEFINE C == { T \in SUBSET S : SumFunctionOnSet(f, T) <= SumFunctionOnSet(g, T) }
<1>1. ASSUME NEW T \in SUBSET S, \A U \in SUBSET T : U # T => U \in C
      PROVE  T \in C
    <2>1. CASE T = {}
        BY <2>1, SumEmpty
    <2>2. CASE T # {}
        <3>1. IsFiniteSet(T) /\ FirstOf(T) \in S /\ RestOf(T) \in C /\ RestOf(T) \subseteq S
            BY <1>1, <2>2, RestSmaller, FS_Subset
        <3>2. /\ SumFunctionOnSet(f, T) = f[FirstOf(T)] + SumFunctionOnSet(f, RestOf(T))
              /\ SumFunctionOnSet(g, T) = g[FirstOf(T)] + SumFunctionOnSet(g, RestOf(T))
            BY <2>2, <3>1, SumFirst
        <3>3. SumFunctionOnSet(f, RestOf(T)) \in Int /\ SumFunctionOnSet(g, RestOf(T)) \in Int
            BY <3>1, SumInt, FS_Subset
        <3> QED
            BY <3>1, <3>2, <3>3
    <2> QED
        BY <2>1, <2>2
<1>2. \A T \in SUBSET S : T \in C
    <2> HIDE DEF C
    <2> QED
        BY <1>1, SmallerFirst
<1> QED
    BY <1>2

LEMMA SumSame ==
    ASSUME NEW S, IsFiniteSet(S), NEW f, NEW g,
           \A x \in S : f[x] \in Int /\ f[x] = g[x]
    PROVE  SumFunctionOnSet(f, S) = SumFunctionOnSet(g, S)
<1>1. SumFunctionOnSet(f, S) \in Int /\ SumFunctionOnSet(g, S) \in Int
    BY SumInt
<1>2. SumFunctionOnSet(f, S) <= SumFunctionOnSet(g, S)
    BY SumAtMost
<1>3. SumFunctionOnSet(g, S) <= SumFunctionOnSet(f, S)
    BY SumAtMost
<1> QED
    BY <1>1, <1>2, <1>3

\* Summands below a bound.
LEMMA SumBounded ==
    ASSUME NEW S, IsFiniteSet(S), NEW f, NEW b \in Nat, \A x \in S : f[x] \in Int /\ f[x] <= b
    PROVE  SumFunctionOnSet(f, S) <= b * Cardinality(S)
<1> DEFINE C == { T \in SUBSET S : SumFunctionOnSet(f, T) <= b * Cardinality(T) }
<1>1. ASSUME NEW T \in SUBSET S, \A U \in SUBSET T : U # T => U \in C
      PROVE  T \in C
    <2>1. CASE T = {}
        BY <2>1, SumEmpty, FS_EmptySet
    <2>2. CASE T # {}
        <3>1. IsFiniteSet(T) /\ FirstOf(T) \in T /\ RestOf(T) \in C /\ IsFiniteSet(RestOf(T))
            BY <1>1, <2>2, RestSmaller, FS_Subset
        <3>2. Cardinality(RestOf(T)) = Cardinality(T) - 1 /\ Cardinality(T) \in Nat
            BY <3>1, FS_RemoveElement, FS_CardinalityType DEF RestOf
        <3>3. SumFunctionOnSet(f, T) = f[FirstOf(T)] + SumFunctionOnSet(f, RestOf(T))
            BY <2>2, <3>1, SumFirst
        <3>4. SumFunctionOnSet(f, RestOf(T)) \in Int
            BY <3>1, SumInt
        <3>5. \A n \in Nat : b * (n - 1) + b = b * n
            OBVIOUS
        <3>6. SumFunctionOnSet(f, RestOf(T)) <= b * (Cardinality(T) - 1)
            BY <3>1, <3>2
        <3>7. \A m, n, x, y, z \in Int : y <= m /\ x <= b /\ z = x + y /\ m + b = n => z <= n
            OBVIOUS
        <3> DEFINE m == b * (Cardinality(T) - 1)
                   n == b * Cardinality(T)
                   x == f[FirstOf(T)]
                   y == SumFunctionOnSet(f, RestOf(T))
                   z == SumFunctionOnSet(f, T)
        <3>8. m \in Int /\ n \in Int /\ x \in Int /\ y \in Int /\ z \in Int /\ x <= b
            BY <3>1, <3>2, <3>3, <3>4
        <3>9. y <= m /\ z = x + y /\ m + b = n
            BY <3>2, <3>3, <3>5, <3>6
        <3> HIDE DEF m, n, x, y, z
        <3>10. z <= n
            BY <3>7, <3>8, <3>9
        <3> QED
            BY <3>10 DEF z, n
    <2> QED
        BY <2>1, <2>2
<1>2. \A T \in SUBSET S : T \in C
    <2> HIDE DEF C
    <2> QED
        BY <1>1, SmallerFirst
<1> QED
    BY <1>2

\* Nothing but zeros, and nothing but zeros save at one place.
LEMMA SumZero ==
    ASSUME NEW S, IsFiniteSet(S), NEW f, \A x \in S : f[x] = 0
    PROVE  SumFunctionOnSet(f, S) = 0
<1>1. \A x \in S : f[x] \in Int /\ f[x] = f[x] + f[x]
    OBVIOUS
<1>2. SumFunctionOnSet(f, S) = SumFunctionOnSet(f, S) + SumFunctionOnSet(f, S)
    BY <1>1, SumAdds
<1>3. SumFunctionOnSet(f, S) \in Int
    BY <1>1, SumInt
<1>4. \A n \in Int : n = n + n => n = 0
    OBVIOUS
<1> QED
    BY <1>2, <1>3, <1>4

LEMMA SumOnly ==
    ASSUME NEW S, IsFiniteSet(S), NEW f, NEW a \in S, f[a] \in Int,
           \A x \in S \ {a} : f[x] = 0
    PROVE  SumFunctionOnSet(f, S) = f[a]
<1>1. \A x \in S : f[x] \in Int
    OBVIOUS
<1>2. SumFunctionOnSet(f, S) = f[a] + SumFunctionOnSet(f, S \ {a})
    BY <1>1, SumTakeOut
<1>3. SumFunctionOnSet(f, S \ {a}) = 0
    BY SumZero, FS_RemoveElement
<1> QED
    BY <1>2, <1>3

\* A sum follows the change of one summand.
LEMMA SumChange ==
    ASSUME NEW S, IsFiniteSet(S), NEW f, NEW g, NEW a \in S,
           \A x \in S : f[x] \in Int /\ g[x] \in Int,
           \A x \in S \ {a} : g[x] = f[x]
    PROVE  SumFunctionOnSet(g, S) = SumFunctionOnSet(f, S) - f[a] + g[a]
<1>1. /\ SumFunctionOnSet(f, S) = f[a] + SumFunctionOnSet(f, S \ {a})
      /\ SumFunctionOnSet(g, S) = g[a] + SumFunctionOnSet(g, S \ {a})
    BY SumTakeOut
<1>2. IsFiniteSet(S \ {a})
    BY FS_RemoveElement
<1>3. SumFunctionOnSet(f, S \ {a}) \in Int
    BY <1>2, SumInt
<1>4. SumFunctionOnSet(g, S \ {a}) = SumFunctionOnSet(f, S \ {a})
    BY <1>2, SumSame
<1> QED
    BY <1>1, <1>3, <1>4
=============================================================================
