-------------------------------- MODULE SumProofs --------------------------------
(***************************************************************************)
(* Facts about the sum of a function or sequence, FoldFunction(+, 0, s):   *)
(* the fold takes its elements in an order it does not tell, so that what  *)
(* the other proofs need is that the order does not matter.  Proofs go by  *)
(* induction on the number of elements.                                    *)
(***************************************************************************)
EXTENDS Functions, Sequences, FiniteSetTheorems, WellFoundedInduction, TLAPS

\* Induction over the natural numbers, for a set of them.
LEMMA Induction ==
  ASSUME NEW T, 0 \in T, \A n \in Nat : n \in T => n + 1 \in T
  PROVE  \A n \in Nat : n \in T
<1> SUFFICES ASSUME Nat \ T # {} PROVE FALSE
  OBVIOUS
<1>1. Nat \ T \subseteq Nat
  OBVIOUS
<1>2. PICK n \in Nat \ T : \A m \in Nat \ T : ~ (<<m, n>> \in OpToRel(<, Nat))
  BY <1>1, NatLessThanWellFounded, WFMin, Zenon
<1>3. \A m \in Nat \ T : ~(m < n)
  BY <1>2 DEF OpToRel
<1>4. n \in Nat /\ n \notin T
  OBVIOUS
<1>5. n # 0 /\ n - 1 \in Nat
  BY <1>4
<1>6. n - 1 \notin T
  <2>1. n - 1 + 1 = n
    BY <1>4
  <2> QED
    BY <1>4, <1>5, <2>1
<1> QED
  BY <1>3, <1>5, <1>6

-------------------------------------------------------------------------------

\* The element the fold takes next, and the sums over the subsets of the domain.
Chosen(t) == CHOOSE x \in t : TRUE

PartSums(s) ==
  CHOOSE f : f = [t \in SUBSET DOMAIN s |->
                    IF t = {} THEN 0 ELSE LET x == CHOOSE x \in t : TRUE IN s[x] + f[t \ {x}]]

LEMMA FoldIsSum == ASSUME NEW s PROVE FoldFunction(+, 0, s) = PartSums(s)[DOMAIN s]
  BY Zenon DEF PartSums, FoldFunction, FoldFunctionOnSet, MapThenFoldSet

\* One pass of the fold on the sums f over the subsets in D.
Pass(s, f, D) ==
  [t \in D |-> IF t = {} THEN 0 ELSE s[Chosen(t)] + f[t \ {Chosen(t)}]]

UpTo(D, n) == {t \in SUBSET D : Cardinality(t) <= n}

LEMMA ChosenSmaller ==
  ASSUME NEW D, IsFiniteSet(D), NEW t \in SUBSET D, t # {}
  PROVE  /\ Chosen(t) \in t /\ t \ {Chosen(t)} \in SUBSET D
         /\ Cardinality(t) \in Nat /\ Cardinality(t \ {Chosen(t)}) = Cardinality(t) - 1
<1>1. Chosen(t) \in t
  BY DEF Chosen
<1>2. IsFiniteSet(t)
  BY FS_Subset
<1> QED
  BY <1>1, <1>2, FS_RemoveElement, FS_CardinalityType

\* Sums that the fold's equation describes exist, for sets of up to n elements.
LEMMA SumsExist ==
  ASSUME NEW s, NEW D, IsFiniteSet(D)
  PROVE  \A n \in Nat : \E f : f = Pass(s, f, UpTo(D, n))
<1> DEFINE T == {n \in Nat : \E f : f = Pass(s, f, UpTo(D, n))}
<1>1. 0 \in T
  <2> DEFINE f == [t \in UpTo(D, 0) |-> 0]
  <2>1. \A t \in UpTo(D, 0) : t = {}
    <3> SUFFICES ASSUME NEW t \in SUBSET D, Cardinality(t) <= 0, t # {}
                 PROVE  FALSE
      BY DEF UpTo
    <3>1. Cardinality(t) \in Nat /\ Cardinality(t \ {Chosen(t)}) = Cardinality(t) - 1
          /\ IsFiniteSet(t \ {Chosen(t)})
      BY ChosenSmaller, FS_Subset
    <3>2. Cardinality(t \ {Chosen(t)}) \in Nat
      BY <3>1, FS_CardinalityType
    <3> QED
      BY <3>1, <3>2
  <2>2. f = Pass(s, f, UpTo(D, 0))
    BY <2>1 DEF Pass
  <2> QED
    BY <2>2
<1>2. ASSUME NEW n \in Nat, n \in T
      PROVE  n + 1 \in T
  <2>1. PICK f : f = Pass(s, f, UpTo(D, n))
    BY <1>2
  <2> DEFINE g == Pass(s, f, UpTo(D, n + 1))
  <2>2. ASSUME NEW t \in UpTo(D, n + 1), t # {}
        PROVE  f[t \ {Chosen(t)}] = g[t \ {Chosen(t)}]
    <3> DEFINE u == t \ {Chosen(t)}
    <3>1. u \in UpTo(D, n) /\ u \in UpTo(D, n + 1)
      BY <2>2, ChosenSmaller DEF UpTo
    <3>2. f[u] = IF u = {} THEN 0 ELSE s[Chosen(u)] + f[u \ {Chosen(u)}]
      BY <2>1, <3>1, Zenon DEF Pass
    <3>3. g[u] = IF u = {} THEN 0 ELSE s[Chosen(u)] + f[u \ {Chosen(u)}]
      BY <3>1, Zenon DEF Pass
    <3> QED
      BY <3>2, <3>3
  <2>3. g = Pass(s, g, UpTo(D, n + 1))
    BY <2>2 DEF Pass
  <2> QED
    BY <2>3
<1> HIDE DEF T
<1>3. \A n \in Nat : n \in T
  BY <1>1, <1>2, Induction, Zenon
<1> QED
  BY <1>3 DEF T

\* The sums satisfy the fold's equation.
LEMMA SumsEquation ==
  ASSUME NEW s, IsFiniteSet(DOMAIN s)
  PROVE  PartSums(s) = Pass(s, PartSums(s), SUBSET DOMAIN s)
<1> DEFINE D == DOMAIN s
<1>1. UpTo(D, Cardinality(D)) = SUBSET D
  BY FS_Subset, FS_CardinalityType DEF UpTo
<1>2. PICK f : f = Pass(s, f, SUBSET D)
  BY <1>1, SumsExist, FS_CardinalityType
<1>3. f = [t \in SUBSET DOMAIN s |->
             IF t = {} THEN 0 ELSE LET x == CHOOSE x \in t : TRUE IN s[x] + f[t \ {x}]]
  BY <1>2, Zenon DEF Pass, Chosen
<1>4. PartSums(s) = [t \in SUBSET DOMAIN s |->
         IF t = {} THEN 0 ELSE LET x == CHOOSE x \in t : TRUE IN s[x] + PartSums(s)[t \ {x}]]
  BY <1>3, Zenon DEF PartSums
<1> QED
  BY <1>4, Zenon DEF Pass, Chosen

\* Induction over the subsets of a finite set.
LEMMA SubsetInduction ==
  ASSUME NEW D, IsFiniteSet(D), NEW S,
         \A t \in SUBSET D : (\A x \in t : t \ {x} \in S) => t \in S
  PROVE  \A t \in SUBSET D : t \in S
<1> DEFINE T == {n \in Nat : UpTo(D, n) \subseteq S}
<1>1. ASSUME NEW t \in SUBSET D, NEW x \in t
      PROVE  /\ t \ {x} \in SUBSET D /\ Cardinality(t) \in Nat
             /\ Cardinality(t \ {x}) \in Nat /\ Cardinality(t \ {x}) = Cardinality(t) - 1
  BY FS_Subset, FS_RemoveElement, FS_CardinalityType
<1>2. 0 \in T
  <2> SUFFICES ASSUME NEW t \in SUBSET D, Cardinality(t) <= 0
               PROVE  t \in S
    BY DEF UpTo
  <2>1. ASSUME NEW x \in t
        PROVE  FALSE
    <3>1. /\ Cardinality(t \ {x}) \in Nat /\ Cardinality(t) \in Nat
          /\ Cardinality(t \ {x}) = Cardinality(t) - 1
      BY <1>1
    <3> QED
      BY <3>1
  <2>2. \A x \in t : t \ {x} \in S
    BY <2>1
  <2> QED
    BY <2>2
<1>3. ASSUME NEW n \in Nat, n \in T
      PROVE  n + 1 \in T
  <2> SUFFICES ASSUME NEW t \in SUBSET D, Cardinality(t) <= n + 1, NEW x \in t
               PROVE  t \ {x} \in S
    BY DEF UpTo
  <2>1. t \ {x} \in UpTo(D, n)
    BY <1>1 DEF UpTo
  <2> QED
    BY <1>3, <2>1
<1> HIDE DEF T
<1>4. \A n \in Nat : n \in T
  BY <1>2, <1>3, Induction, Zenon
<1>5. ASSUME NEW t \in SUBSET D
      PROVE  t \in S
  <2>1. Cardinality(t) \in Nat
    BY FS_Subset, FS_CardinalityType
  <2>2. t \in UpTo(D, Cardinality(t))
    BY <2>1 DEF UpTo
  <2> QED
    BY <1>4, <2>1, <2>2 DEF T
<1> QED
  BY <1>5

LEMMA SumOfNone == ASSUME NEW s, IsFiniteSet(DOMAIN s) PROVE PartSums(s)[{}] = 0
<1>1. {} \in SUBSET DOMAIN s
  OBVIOUS
<1> QED
  BY <1>1, SumsEquation, Zenon DEF Pass

LEMMA SumOfSome ==
  ASSUME NEW s, IsFiniteSet(DOMAIN s), NEW t \in SUBSET DOMAIN s, t # {}
  PROVE  PartSums(s)[t] = s[Chosen(t)] + PartSums(s)[t \ {Chosen(t)}]
  BY SumsEquation, Zenon DEF Pass

\* The sum of integers is one.
LEMMA PartSumsType ==
  ASSUME NEW s, IsFiniteSet(DOMAIN s), \A x \in DOMAIN s : s[x] \in Int
  PROVE  \A t \in SUBSET DOMAIN s : PartSums(s)[t] \in Int
<1> DEFINE S == {t \in SUBSET DOMAIN s : PartSums(s)[t] \in Int}
<1>1. ASSUME NEW t \in SUBSET DOMAIN s, \A x \in t : t \ {x} \in S
      PROVE  t \in S
  <2>1. CASE t = {}
    BY <2>1, SumOfNone
  <2>2. CASE t # {}
    <3>1. Chosen(t) \in t
      BY <2>2 DEF Chosen
    <3>2. PartSums(s)[t \ {Chosen(t)}] \in Int /\ s[Chosen(t)] \in Int
      BY <1>1, <3>1
    <3>3. PartSums(s)[t] = s[Chosen(t)] + PartSums(s)[t \ {Chosen(t)}]
      BY <2>2, SumOfSome
    <3> QED
      BY <3>2, <3>3
  <2> QED
    BY <2>1, <2>2
<1> HIDE DEF S
<1>2. \A t \in SUBSET DOMAIN s : t \in S
  BY <1>1, SubsetInduction, Zenon
<1> QED
  BY <1>2 DEF S

\* Any element may be taken first.
LEMMA PartSumsSplit ==
  ASSUME NEW s, IsFiniteSet(DOMAIN s), \A x \in DOMAIN s : s[x] \in Int
  PROVE  \A t \in SUBSET DOMAIN s : \A y \in t : PartSums(s)[t] = s[y] + PartSums(s)[t \ {y}]
<1> DEFINE f == PartSums(s)
           S == {t \in SUBSET DOMAIN s : \A y \in t : f[t] = s[y] + f[t \ {y}]}
<1>1. \A t \in SUBSET DOMAIN s : f[t] \in Int
  BY PartSumsType
<1>2. \A t \in SUBSET DOMAIN s : t # {} => f[t] = s[Chosen(t)] + f[t \ {Chosen(t)}]
  BY SumOfSome
<1> HIDE DEF f
<1>3. ASSUME NEW t \in SUBSET DOMAIN s, \A x \in t : t \ {x} \in S
      PROVE  t \in S
  <2> SUFFICES ASSUME NEW y \in t, y # Chosen(t)
               PROVE  f[t] = s[y] + f[t \ {y}]
    BY <1>2
  <2> DEFINE c == Chosen(t)
             u == t \ {y, c}
  <2>1. c \in t
    BY DEF Chosen
  <2> HIDE DEF c
  <2>2. t \ {c} \in S /\ t \ {y} \in S /\ (t \ {c}) \ {y} = u /\ (t \ {y}) \ {c} = u
    BY <1>3, <2>1
  <2>3. y \in t \ {c} /\ c \in t \ {y}
    BY <2>1 DEF c
  <2>4. f[t \ {c}] = s[y] + f[u]
    BY <2>2, <2>3
  <2>5. f[t \ {y}] = s[c] + f[u]
    BY <2>1, <2>2, <2>3
  <2>6. f[t] = s[c] + f[t \ {c}]
    BY <1>2 DEF c
  <2>7. f[u] \in Int /\ s[y] \in Int /\ s[c] \in Int
    BY <1>1, <2>1
  <2> HIDE DEF u
  <2> QED
    BY <2>4, <2>5, <2>6, <2>7
<1> HIDE DEF S
<1>4. \A t \in SUBSET DOMAIN s : t \in S
  BY <1>3, SubsetInduction, Zenon
<1> QED
  BY <1>4 DEF S, f

\* Only the values at the elements matter.
LEMMA PartSumsAgree ==
  ASSUME NEW s, IsFiniteSet(DOMAIN s), NEW r, IsFiniteSet(DOMAIN r),
         NEW E, E \subseteq DOMAIN s, E \subseteq DOMAIN r, \A x \in E : s[x] = r[x]
  PROVE  PartSums(s)[E] = PartSums(r)[E]
<1> DEFINE S == {t \in SUBSET E : PartSums(s)[t] = PartSums(r)[t]}
<1>1. ASSUME NEW t \in SUBSET E, \A x \in t : t \ {x} \in S
      PROVE  t \in S
  <2>1. t \in SUBSET DOMAIN s /\ t \in SUBSET DOMAIN r
    OBVIOUS
  <2>2. CASE t = {}
    BY <2>2, SumOfNone
  <2>3. CASE t # {}
    <3>1. Chosen(t) \in t
      BY <2>3 DEF Chosen
    <3>2. PartSums(s)[t \ {Chosen(t)}] = PartSums(r)[t \ {Chosen(t)}]
          /\ s[Chosen(t)] = r[Chosen(t)]
      BY <1>1, <3>1
    <3>3. PartSums(s)[t] = s[Chosen(t)] + PartSums(s)[t \ {Chosen(t)}]
      BY <2>1, <2>3, SumOfSome
    <3>4. PartSums(r)[t] = r[Chosen(t)] + PartSums(r)[t \ {Chosen(t)}]
      BY <2>1, <2>3, SumOfSome
    <3> QED
      BY <3>2, <3>3, <3>4
  <2> QED
    BY <2>2, <2>3
<1>2. IsFiniteSet(E)
  BY FS_Subset
<1> HIDE DEF S
<1>3. \A t \in SUBSET E : t \in S
  BY <1>1, <1>2, SubsetInduction, Zenon
<1> QED
  BY <1>3 DEF S

\* Parts that are each at most a hundredth of r times their weight are together
\* at most a hundredth of r times all the weights.
LEMMA PartSumsBound ==
  ASSUME NEW s, IsFiniteSet(DOMAIN s), NEW w, DOMAIN w = DOMAIN s, NEW r \in Nat,
         \A x \in DOMAIN s : s[x] \in Int /\ w[x] \in Int /\ 100 * s[x] <= r * w[x]
  PROVE  \A t \in SUBSET DOMAIN s : 100 * PartSums(s)[t] <= r * PartSums(w)[t]
<1> DEFINE S == {t \in SUBSET DOMAIN s : 100 * PartSums(s)[t] <= r * PartSums(w)[t]}
<1>1. \A t \in SUBSET DOMAIN s : PartSums(s)[t] \in Int /\ PartSums(w)[t] \in Int
  BY PartSumsType
<1>2. ASSUME NEW t \in SUBSET DOMAIN s, \A x \in t : t \ {x} \in S
      PROVE  t \in S
  <2>1. CASE t = {}
    BY <2>1, SumOfNone
  <2>2. CASE t # {}
    <3> DEFINE c == Chosen(t)
               u == t \ {Chosen(t)}
    <3>1. c \in t
      BY <2>2 DEF Chosen
    <3>2. PartSums(s)[t] = s[c] + PartSums(s)[u] /\ PartSums(w)[t] = w[c] + PartSums(w)[u]
      BY <2>2, SumOfSome
    <3>3. 100 * PartSums(s)[u] <= r * PartSums(w)[u] /\ 100 * s[c] <= r * w[c]
      BY <1>2, <3>1
    <3>4. /\ PartSums(s)[u] \in Int /\ PartSums(w)[u] \in Int
          /\ s[c] \in Int /\ w[c] \in Int
      BY <1>1, <3>1
    <3> HIDE DEF c, u
    <3>5. \A a, b \in Int : r * (a + b) = r * a + r * b /\ 100 * (a + b) = 100 * a + 100 * b
      OBVIOUS
    <3>6. \A a, b, c1, d \in Int : a <= b /\ c1 <= d => a + c1 <= b + d
      OBVIOUS
    <3> QED
      BY <3>2, <3>3, <3>4, <3>5, <3>6
  <2> QED
    BY <2>1, <2>2
<1> HIDE DEF S
<1>3. \A t \in SUBSET DOMAIN s : t \in S
  BY <1>2, SubsetInduction, Zenon
<1> QED
  BY <1>3 DEF S

\* The sum of numbers that are not negative is none.
LEMMA PartSumsNat ==
  ASSUME NEW s, IsFiniteSet(DOMAIN s), \A x \in DOMAIN s : s[x] \in Nat
  PROVE  \A t \in SUBSET DOMAIN s : PartSums(s)[t] \in Nat
<1> DEFINE S == {t \in SUBSET DOMAIN s : PartSums(s)[t] \in Nat}
<1>1. ASSUME NEW t \in SUBSET DOMAIN s, \A x \in t : t \ {x} \in S
      PROVE  t \in S
  <2>1. CASE t = {}
    BY <2>1, SumOfNone
  <2>2. CASE t # {}
    <3>1. Chosen(t) \in t
      BY <2>2 DEF Chosen
    <3>2. PartSums(s)[t \ {Chosen(t)}] \in Nat /\ s[Chosen(t)] \in Nat
      BY <1>1, <3>1
    <3>3. PartSums(s)[t] = s[Chosen(t)] + PartSums(s)[t \ {Chosen(t)}]
      BY <2>2, SumOfSome
    <3> QED
      BY <3>2, <3>3
  <2> QED
    BY <2>1, <2>2
<1> HIDE DEF S
<1>2. \A t \in SUBSET DOMAIN s : t \in S
  BY <1>1, SubsetInduction, Zenon
<1> QED
  BY <1>2 DEF S

-------------------------------------------------------------------------------
(* Sequences *)

Total(s) == PartSums(s)[DOMAIN s]

LEMMA TotalNat == ASSUME NEW s \in Seq(Nat) PROVE Total(s) \in Nat
<1>1. IsFiniteSet(DOMAIN s)
  BY FS_Interval
<1> QED
  BY <1>1, PartSumsNat DEF Total

LEMMA TotalEmpty == Total(<<>>) = 0
<1>1. DOMAIN <<>> = {} /\ IsFiniteSet(DOMAIN <<>>)
  BY FS_EmptySet
<1> QED
  BY <1>1, SumOfNone DEF Total

LEMMA TotalAppend ==
  ASSUME NEW s \in Seq(Int), NEW x \in Int
  PROVE  Total(s) \in Int /\ Total(Append(s, x)) = Total(s) + x
<1> DEFINE r == Append(s, x)
           n == Len(s)
           D == 1 .. Len(s)
<1>1. /\ n \in Nat /\ DOMAIN s = D /\ DOMAIN r = 1 .. n + 1
      /\ \A i \in D : s[i] \in Int /\ r[i] = s[i]
      /\ r[n + 1] = x
      /\ IsFiniteSet(DOMAIN s) /\ IsFiniteSet(DOMAIN r)
  <2>1. /\ n \in Nat /\ DOMAIN s = D /\ DOMAIN r = 1 .. n + 1
        /\ \A i \in D : s[i] \in Int /\ r[i] = s[i]
        /\ r[n + 1] = x
    OBVIOUS
  <2>2. IsFiniteSet(1 .. n) /\ IsFiniteSet(1 .. n + 1)
    BY <2>1, FS_Interval
  <2> QED
    BY <2>1, <2>2
<1>2. \A i \in DOMAIN r : r[i] \in Int
  OBVIOUS
<1>3. (1 .. n + 1) \ {n + 1} = D /\ n + 1 \in 1 .. n + 1 /\ D \subseteq 1 .. n + 1
  BY <1>1
<1> HIDE DEF r, n, D
<1>4. PartSums(r)[DOMAIN r] = r[n + 1] + PartSums(r)[D]
  <2>1. \A t \in SUBSET DOMAIN r : \A y \in t :
          PartSums(r)[t] = r[y] + PartSums(r)[t \ {y}]
    BY <1>1, <1>2, PartSumsSplit, Zenon
  <2>2. DOMAIN r \in SUBSET DOMAIN r /\ n + 1 \in DOMAIN r /\ DOMAIN r \ {n + 1} = D
    BY <1>1, <1>3
  <2> QED
    BY <2>1, <2>2
<1>5. PartSums(r)[D] = PartSums(s)[D]
  <2>1. D \subseteq DOMAIN r /\ D \subseteq DOMAIN s /\ \A i \in D : r[i] = s[i]
    BY <1>1, <1>3
  <2>2. IsFiniteSet(DOMAIN r) /\ IsFiniteSet(DOMAIN s)
    BY <1>1
  <2> QED
    BY <2>1, <2>2, PartSumsAgree, Zenon
<1>6. PartSums(s)[D] \in Int
  BY <1>1, PartSumsType
<1> QED
  BY <1>1, <1>4, <1>5, <1>6 DEF Total, r

\* A sequence is summed up from any end.
LEMMA TotalFirst ==
  ASSUME NEW a \in Int, NEW s \in Seq(Int)
  PROVE  Total(<<a>> \o s) = a + Total(s)
<1> DEFINE T == {n \in Nat : \A r \in Seq(Int) : Len(r) = n => Total(<<a>> \o r) = a + Total(r)}
<1>1. 0 \in T
  <2> SUFFICES ASSUME NEW r \in Seq(Int), Len(r) = 0
               PROVE  Total(<<a>> \o r) = a + Total(r)
    OBVIOUS
  <2>1. r = <<>> /\ <<a>> \o r = Append(r, a)
    OBVIOUS
  <2>2. Total(Append(r, a)) = Total(r) + a /\ Total(r) \in Int
    BY TotalAppend
  <2> QED
    BY <2>1, <2>2
<1>2. ASSUME NEW n \in Nat, n \in T
      PROVE  n + 1 \in T
  <2> SUFFICES ASSUME NEW r \in Seq(Int), Len(r) = n + 1
               PROVE  Total(<<a>> \o r) = a + Total(r)
    OBVIOUS
  <2> DEFINE f == SubSeq(r, 1, n)
             x == r[n + 1]
  <2>1. f \in Seq(Int) /\ Len(f) = n /\ x \in Int /\ r = Append(f, x)
    OBVIOUS
  <2> HIDE DEF f, x
  <2>2. <<a>> \o f \in Seq(Int) /\ <<a>> \o r = Append(<<a>> \o f, x)
    BY <2>1
  <2>3. Total(<<a>> \o f) = a + Total(f)
    BY <1>2, <2>1
  <2>4. Total(r) = Total(f) + x /\ Total(f) \in Int
    BY <2>1, TotalAppend
  <2>5. Total(<<a>> \o r) = Total(<<a>> \o f) + x
    BY <2>1, <2>2, TotalAppend
  <2> QED
    BY <2>1, <2>3, <2>4, <2>5
<1> HIDE DEF T
<1>3. \A n \in Nat : n \in T
  BY <1>1, <1>2, Induction, Zenon
<1> QED
  BY <1>3 DEF T
===============================================================================
