-------------------------- MODULE BlockCacheProofs --------------------------
(***************************************************************************)
(* The theorems about BlockCache, from the lemmas of BlockCacheInvariant and *)
(* the facts about sums over a list and about finite sets that they assume. *)
(* MapThenSumSet chooses a function that satisfies the equation of a sum, so *)
(* that there is one has to be proved first.                               *)
(***************************************************************************)
EXTENDS BlockCacheInvariant, FiniteSetTheorems

USE Zenon

-----------------------------------------------------------------------------
\* Sums over the entries of a list.

Choice(s) == CHOOSE x \in s : TRUE

\* The equation of the function that MapThenSumSet chooses: the sum over s.
Sum(q, g, s) == IF s = {} THEN 0 ELSE q[Choice(s)].size + g[s \ {Choice(s)}]

Sums(q, g) == g = [s \in SUBSET DOMAIN q |-> Sum(q, g, s)]

\* The sizes of these can be added.
Sized(q) == IsFiniteSet(DOMAIN q) /\ \A i \in DOMAIN q : q[i].size \in Nat

\* A set of sets of places, if not empty, has one that is not in it any more when
\* a place is taken away.
LEMMA LeastSet ==
  ASSUME NEW D, IsFiniteSet(D), NEW T, T \subseteq SUBSET D, T # {}
  PROVE  \E r \in T : \A c \in r : r \ {c} \notin T
<1>1. IsWellFoundedOn(StrictSubsetOrdering(D), SUBSET D)
  BY FS_StrictSubsetOrderingWellFounded, FS_FiniteSubsetsOfFinite
<1>2. PICK r \in T : \A y \in T : ~(<<y, r>> \in StrictSubsetOrdering(D))
  BY <1>1, WFMin
<1>3. ASSUME NEW c \in r, r \ {c} \in T PROVE FALSE
  <2>1. r \ {c} \subseteq r /\ r \ {c} # r
    BY <1>3, SMT
  <2>2. <<r \ {c}, r>> \in (SUBSET D) \X (SUBSET D)
    BY <1>3
  <2>3. <<r \ {c}, r>> \in StrictSubsetOrdering(D)
    BY <2>1, <2>2, SMT DEF StrictSubsetOrdering
  <2> QED
    BY <1>2, <1>3, <2>3
<1> QED
  BY <1>2, <1>3

\* What is chosen from a set that is not empty is in it.
LEMMA ChoiceIn == ASSUME NEW s, s # {} PROVE Choice(s) \in s
  BY DEF Choice

\* A function that is the sum on the sets of at most n places.
SumsTo(q, g, n) ==
    /\ g \in [SUBSET DOMAIN q -> Nat]
    /\ \A r \in SUBSET DOMAIN q : Cardinality(r) <= n => g[r] = Sum(q, g, r)

\* One that is the sum on sets of one place more.
LEMMA SumsToNext ==
  ASSUME NEW q, Sized(q), NEW n \in Nat, NEW g, SumsTo(q, g, n)
  PROVE  \E h : SumsTo(q, h, n + 1)
<1> DEFINE h == [r \in SUBSET DOMAIN q |-> IF Cardinality(r) <= n THEN g[r] ELSE Sum(q, g, r)]
<1>1. ASSUME NEW r \in SUBSET DOMAIN q PROVE Sum(q, g, r) \in Nat
  <2>1. CASE r = {}
    BY <2>1, SMT DEF Sum
  <2>2. CASE r # {}
    <3>1. Choice(r) \in r /\ r \ {Choice(r)} \in SUBSET DOMAIN q
      BY <2>2, ChoiceIn
    <3>2. q[Choice(r)].size \in Nat /\ g[r \ {Choice(r)}] \in Nat
      BY <3>1 DEF SumsTo, Sized
    <3> QED
      BY <2>2, <3>2, SMT DEF Sum
  <2> QED
    BY <2>1, <2>2
<1>2. h \in [SUBSET DOMAIN q -> Nat]
  BY <1>1 DEF SumsTo
<1>3. ASSUME NEW r \in SUBSET DOMAIN q, Cardinality(r) <= n + 1 PROVE h[r] = Sum(q, h, r)
  <2>1. h[r] = Sum(q, g, r)
    BY DEF SumsTo
  <2>2. CASE r = {}
    BY <2>1, <2>2 DEF Sum
  <2>3. CASE r # {}
    <3>1. Choice(r) \in r /\ r \ {Choice(r)} \in SUBSET DOMAIN q
      BY <2>3, ChoiceIn
    <3>2. IsFiniteSet(r) /\ Cardinality(r) \in Nat
      BY FS_Subset, FS_CardinalityType DEF Sized
    <3>3. Cardinality(r \ {Choice(r)}) = Cardinality(r) - 1
      BY <3>1, <3>2, FS_RemoveElement
    <3>4. Cardinality(r \ {Choice(r)}) <= n
      BY <1>3, <3>2, <3>3, SMT
    <3>5. h[r \ {Choice(r)}] = g[r \ {Choice(r)}]
      BY <3>1, <3>4
    <3> QED
      BY <2>1, <2>3, <3>5 DEF Sum
  <2> QED
    BY <2>2, <2>3
<1> QED
  BY <1>2, <1>3 DEF SumsTo

\* There is such a function for every size.
LEMMA SumsToAny ==
  ASSUME NEW q, Sized(q), NEW n \in Nat
  PROVE  \E g : SumsTo(q, g, n)
<1> DEFINE T == {k \in Nat : ~\E g : SumsTo(q, g, k)}
<1> SUFFICES ASSUME T # {} PROVE FALSE
  OBVIOUS
<1>1. PICK k \in T : \A y \in T : ~(<<y, k>> \in OpToRel(<, Nat))
  <2>1. T \subseteq Nat
    OBVIOUS
  <2> HIDE DEF T
  <2> QED
    BY <2>1, NatLessThanWellFounded, WFMin
<1>2. ASSUME k = 0 PROVE FALSE
  <2> DEFINE g == [s \in SUBSET DOMAIN q |-> 0]
  <2>1. g \in [SUBSET DOMAIN q -> Nat]
    BY SMT
  <2>2. ASSUME NEW r \in SUBSET DOMAIN q, Cardinality(r) <= 0 PROVE g[r] = Sum(q, g, r)
    <3>1. IsFiniteSet(r) /\ Cardinality(r) \in Nat
      BY FS_Subset, FS_CardinalityType DEF Sized
    <3>2. Cardinality(r) = 0
      BY <2>2, <3>1, SMT
    <3> QED
      BY <3>1, <3>2, FS_EmptySet DEF Sum
  <2>3. SumsTo(q, g, 0)
    BY <2>1, <2>2 DEF SumsTo
  <2> QED
    BY <1>2, <2>3
<1>3. ASSUME k # 0 PROVE FALSE
  <2>1. k - 1 \in Nat /\ k - 1 < k /\ k - 1 + 1 = k
    BY <1>3, SMT
  <2>2. <<k - 1, k>> \in OpToRel(<, Nat)
    BY <2>1, SMT DEF OpToRel
  <2>3. k - 1 \notin T
    BY <1>1, <2>2
  <2>4. PICK g : SumsTo(q, g, k - 1)
    BY <2>1, <2>3
  <2>5. \E h : SumsTo(q, h, k - 1 + 1)
    BY <2>1, <2>4, SumsToNext
  <2> QED
    BY <2>1, <2>5
<1> QED
  BY <1>2, <1>3

\* SizeOf is the value of such a function for the set of all places.
LEMMA SizeIs ==
  ASSUME NEW q, Sized(q)
  PROVE  \E g : Sums(q, g) /\ SizeOf(q) = g[DOMAIN q]
<1> DEFINE it == CHOOSE g : g = [s \in SUBSET DOMAIN q |->
                    IF s = {} THEN 0
                    ELSE q[CHOOSE x \in s : TRUE].size + g[s \ {CHOOSE x \in s : TRUE}]]
<1>1. \E g : Sums(q, g)
  <2>1. Cardinality(DOMAIN q) \in Nat
    BY FS_CardinalityType DEF Sized
  <2>2. PICK g : SumsTo(q, g, Cardinality(DOMAIN q))
    BY <2>1, SumsToAny
  <2>3. \A r \in SUBSET DOMAIN q : Cardinality(r) <= Cardinality(DOMAIN q)
    BY FS_Subset DEF Sized
  <2>4. g \in [SUBSET DOMAIN q -> Nat] /\ \A r \in SUBSET DOMAIN q : g[r] = Sum(q, g, r)
    BY <2>2, <2>3 DEF SumsTo
  <2>5. g = [r \in SUBSET DOMAIN q |-> Sum(q, g, r)]
    BY <2>4
  <2> QED
    BY <2>5 DEF Sums
<1>2. it = [s \in SUBSET DOMAIN q |->
              IF s = {} THEN 0
              ELSE q[CHOOSE x \in s : TRUE].size + it[s \ {CHOOSE x \in s : TRUE}]]
  BY <1>1 DEF Sums, Sum, Choice
<1>3. SizeOf(q) = it[DOMAIN q]
  BY DEF SizeOf, MapThenSumSet, MapThenFoldSet
<1> QED
  BY <1>2, <1>3 DEF Sums, Sum, Choice

\* The sum over no place.
LEMMA SumNone == ASSUME NEW q, NEW g, Sums(q, g) PROVE g[{}] = 0
  BY DEF Sums, Sum

\* The sum over some places, and the sum over one less.
Splits(q, g, r, c) == r \ {c} \in SUBSET DOMAIN q /\ g[r] = q[c].size + g[r \ {c}]

\* A sum over some places splits.
LEMMA SumSome ==
  \A q, g, r : Sums(q, g) /\ r \in SUBSET DOMAIN q /\ r # {} => Splits(q, g, r, Choice(r)) /\ Choice(r) \in r
<1> TAKE q, g, r
<1> HAVE Sums(q, g) /\ r \in SUBSET DOMAIN q /\ r # {}
<1>1. g[r] = Sum(q, g, r)
  BY DEF Sums
<1>2. Choice(r) \in r
  BY ChoiceIn
<1> QED
  BY <1>1, <1>2 DEF Sum, Splits

\* Sums are natural numbers.
LEMMA SumsTyped ==
  ASSUME NEW q, Sized(q), NEW g, Sums(q, g)
  PROVE  \A r \in SUBSET DOMAIN q : g[r] \in Nat
<1> DEFINE T == {r \in SUBSET DOMAIN q : g[r] \notin Nat}
<1> SUFFICES ASSUME T # {} PROVE FALSE
  OBVIOUS
<1>1. PICK r \in T : \A c \in r : r \ {c} \notin T
  <2>1. T \subseteq SUBSET DOMAIN q
    OBVIOUS
  <2> HIDE DEF T
  <2> QED
    BY <2>1, LeastSet DEF Sized
<1>2. r \in SUBSET DOMAIN q /\ g[r] \notin Nat
  OBVIOUS
<1>3. r # {}
  <2>1. g[{}] = 0
    BY SumNone
  <2> QED
    BY <1>2, <2>1, SMT
<1>4. Choice(r) \in r /\ r \ {Choice(r)} \in SUBSET DOMAIN q /\ g[r] = q[Choice(r)].size + g[r \ {Choice(r)}]
  <2> HIDE DEF T
  <2>1. Splits(q, g, r, Choice(r)) /\ Choice(r) \in r
    BY <1>2, <1>3, SumSome
  <2> QED
    BY <2>1 DEF Splits
<1>5. q[Choice(r)].size \in Nat /\ g[r \ {Choice(r)}] \in Nat
  BY <1>1, <1>2, <1>4 DEF Sized
<1> QED
  BY <1>2, <1>4, <1>5, SMT

\* It does not matter which place is taken out.
LEMMA SumAny ==
  ASSUME NEW q, Sized(q), NEW g, Sums(q, g)
  PROVE  \A r \in SUBSET DOMAIN q : \A x \in r : Splits(q, g, r, x)
<1> DEFINE T == {r \in SUBSET DOMAIN q : ~\A x \in r : Splits(q, g, r, x)}
<1> SUFFICES ASSUME T # {} PROVE FALSE
  OBVIOUS
<1>1. PICK r \in T : \A c \in r : r \ {c} \notin T
  <2>1. T \subseteq SUBSET DOMAIN q
    OBVIOUS
  <2> HIDE DEF T
  <2> QED
    BY <2>1, LeastSet DEF Sized
<1>2. PICK x \in r : ~Splits(q, g, r, x)
  OBVIOUS
<1>3. r \in SUBSET DOMAIN q /\ r # {} /\ r \ {x} \in SUBSET DOMAIN q
  OBVIOUS
<1>4. PICK c : c = Choice(r)
  OBVIOUS
<1>5. Splits(q, g, r, c) /\ c \in r
  <2> HIDE DEF T
  <2> QED
    BY <1>3, <1>4, SumSome
<1>6. c # x
  BY <1>2, <1>5
<1>7. Splits(q, g, r \ {c}, x) /\ Splits(q, g, r \ {x}, c)
  <2>1. x \in r \ {c} /\ c \in r \ {x}
    BY <1>5, <1>6
  <2>2. r \ {c} \notin T /\ r \ {x} \notin T
    BY <1>1, <1>5
  <2>3. r \ {c} \in SUBSET DOMAIN q
    BY <1>3
  <2> QED
    BY <1>3, <2>1, <2>2, <2>3
<1>8. (r \ {c}) \ {x} = (r \ {x}) \ {c}
  OBVIOUS
<1>9. /\ g[r] = q[c].size + g[r \ {c}]
      /\ g[r \ {c}] = q[x].size + g[(r \ {x}) \ {c}]
      /\ g[r \ {x}] = q[c].size + g[(r \ {x}) \ {c}]
  BY <1>5, <1>7, <1>8 DEF Splits
<1>10. /\ q[c].size \in Nat /\ q[x].size \in Nat /\ g[r] \in Nat /\ g[r \ {x}] \in Nat /\ g[r \ {c}] \in Nat
       /\ g[(r \ {x}) \ {c}] \in Nat
  <2>1. c \in DOMAIN q /\ x \in DOMAIN q /\ r \ {c} \in SUBSET DOMAIN q /\ (r \ {x}) \ {c} \in SUBSET DOMAIN q
    BY <1>3, <1>5
  <2> QED
    BY <1>3, <2>1, SumsTyped DEF Sized
<1>11. g[r] = q[x].size + g[r \ {x}]
  BY <1>9, <1>10, SMT
<1> QED
  BY <1>2, <1>3, <1>11 DEF Splits

\* A list and one that lacks its k-th entry: m says where the entries of the
\* second are in the first.
Lacks(q, t, k, m) ==
    /\ m \in [DOMAIN t -> DOMAIN q \ {k}]
    /\ \A i, l \in DOMAIN t : m[i] = m[l] => i = l
    /\ \A x \in DOMAIN q \ {k} : \E i \in DOMAIN t : m[i] = x
    /\ \A i \in DOMAIN t : t[i].size = q[m[i]].size

\* Their sums differ by the size of that entry.
LEMMA OneLess ==
  ASSUME NEW q, Sized(q), NEW t, Sized(t), NEW k \in DOMAIN q, NEW m, Lacks(q, t, k, m)
  PROVE  SizeOf(q) \in Nat /\ SizeOf(t) \in Nat /\ SizeOf(q) = q[k].size + SizeOf(t)
<1> USE DEF Lacks
<1>1. PICK G : Sums(q, G) /\ SizeOf(q) = G[DOMAIN q]
  BY SizeIs
<1>2. PICK H : Sums(t, H) /\ SizeOf(t) = H[DOMAIN t]
  BY SizeIs
<1> DEFINE Image(r) == {m[i] : i \in r}
<1> DEFINE T == {r \in SUBSET DOMAIN t : H[r] # G[Image(r)]}
<1>3. ASSUME T # {} PROVE FALSE
  <2>1. PICK r \in T : \A c \in r : r \ {c} \notin T
    <3>1. T \subseteq SUBSET DOMAIN t
      OBVIOUS
    <3> HIDE DEF T
    <3> QED
      BY <1>3, <3>1, LeastSet DEF Sized
  <2>2. r \in SUBSET DOMAIN t /\ H[r] # G[Image(r)]
    OBVIOUS
  <2>3. r # {}
    <3>1. H[{}] = 0 /\ G[{}] = 0
      BY <1>1, <1>2, SumNone
    <3>2. Image({}) = {}
      BY SMT
    <3> QED
      BY <2>2, <3>1, <3>2
  <2>4. PICK c \in r : TRUE
    BY <2>3
  <2>5. m[c] \in Image(r) /\ Image(r) \in SUBSET DOMAIN q /\ c \in DOMAIN t
    BY <2>2, SMT
  <2>6. Image(r) \ {m[c]} = Image(r \ {c})
    BY <2>2, SMT
  <2>7. H[r \ {c}] = G[Image(r \ {c})]
    BY <2>1, <2>2
  <2>8. t[c].size = q[m[c]].size
    BY <2>5
  <2> HIDE DEF T, Image
  <2>9. Splits(t, H, r, c) /\ Splits(q, G, Image(r), m[c])
    BY <1>1, <1>2, <2>2, <2>5, SumAny
  <2> QED
    BY <2>2, <2>6, <2>7, <2>8, <2>9 DEF Splits
<1>4. H[DOMAIN t] = G[Image(DOMAIN t)]
  BY <1>3
<1>5. Image(DOMAIN t) = DOMAIN q \ {k}
  BY SMT
<1>6. Splits(q, G, DOMAIN q, k)
  BY <1>1, SumAny
<1>7. G[DOMAIN q] \in Nat /\ H[DOMAIN t] \in Nat
  BY <1>1, <1>2, SumsTyped
<1> QED
  BY <1>1, <1>2, <1>4, <1>5, <1>6, <1>7 DEF Splits

\* The size of a list without its k-th entry.
LEMMA ListLess ==
  ASSUME NEW q \in Seq(Entry), NEW t \in Seq(Entry), NEW k \in 1..Len(q), Len(t) = Len(q) - 1,
         \A i \in 1..Len(t) : t[i] = IF i < k THEN q[i] ELSE q[i + 1]
  PROVE  SizeOf(q) \in Nat /\ SizeOf(t) \in Nat /\ q[k].size \in Nat /\ SizeOf(q) = q[k].size + SizeOf(t)
<1> DEFINE m == [i \in DOMAIN t |-> IF i < k THEN i ELSE i + 1]
<1>1. DOMAIN q = 1..Len(q) /\ DOMAIN t = 1..Len(t) /\ Len(q) \in Nat /\ Len(t) \in Nat /\ k \in Nat
  BY SMT
<1>2. Sized(q) /\ Sized(t)
  <2>1. IsFiniteSet(1..Len(q)) /\ IsFiniteSet(1..Len(t))
    <3>1. 1 \in Int /\ Len(q) \in Int /\ Len(t) \in Int
      BY <1>1, SMT
    <3> QED
      BY <3>1, FS_Interval
  <2>2. \A i \in 1..Len(q) : q[i].size \in Nat
    <3>1. \A i \in 1..Len(q) : q[i] \in Entry
      BY SMT
    <3> QED
      BY <3>1 DEF Entry
  <2>3. \A i \in 1..Len(t) : t[i].size \in Nat
    <3>1. \A i \in 1..Len(t) : t[i] \in Entry
      BY SMT
    <3> QED
      BY <3>1 DEF Entry
  <2> QED
    BY <1>1, <2>1, <2>2, <2>3 DEF Sized
<1>3. k \in DOMAIN q /\ q[k].size \in Nat
  BY <1>1, <1>2 DEF Sized
<1>4. m \in [DOMAIN t -> DOMAIN q \ {k}]
  BY <1>1, SMT
<1>5. \A i, l \in DOMAIN t : m[i] = m[l] => i = l
  BY <1>1, SMT
<1>6. ASSUME NEW x \in DOMAIN q \ {k} PROVE \E i \in DOMAIN t : m[i] = x
  <2>1. CASE x < k
    BY <1>1, <2>1, SMT
  <2>2. CASE ~(x < k)
    <3>1. x - 1 \in DOMAIN t /\ m[x - 1] = x
      BY <1>1, <2>2, SMT
    <3> QED
      BY <3>1
  <2> QED
    BY <2>1, <2>2
<1>7. \A i \in DOMAIN t : t[i].size = q[m[i]].size
  BY <1>1, SMT
<1> HIDE DEF m
<1>8. Lacks(q, t, k, m)
  BY <1>4, <1>5, <1>6, <1>7 DEF Lacks
<1> QED
  BY <1>2, <1>3, <1>8, OneLess

\* The empty list has no bytes.
LEMMA EmptyList == SizeOf(<<>>) = 0
<1>1. DOMAIN <<>> = {}
  BY SMT
<1>2. IsFiniteSet(DOMAIN <<>>)
  BY <1>1, FS_EmptySet
<1>3. PICK q : q = <<>>
  OBVIOUS
<1>4. Sized(q)
  BY <1>1, <1>2, <1>3 DEF Sized
<1>5. PICK g : Sums(q, g) /\ SizeOf(q) = g[DOMAIN q]
  BY <1>4, SizeIs
<1> QED
  BY <1>1, <1>3, <1>5, SumNone

\* So the lemmas about the list have what they need.
LEMMA ListSumsHold == ListSums
<1>1. ASSUME NEW q \in Seq(Entry), NEW t \in Seq(Entry), NEW k \in 1..Len(q), OneOut(q, t, k)
      PROVE  SizeOf(q) \in Nat /\ SizeOf(t) \in Nat /\ q[k].size \in Nat /\ SizeOf(q) = q[k].size + SizeOf(t)
  <2>1. Len(t) = Len(q) - 1 /\ \A i \in 1..Len(t) : t[i] = IF i < k THEN q[i] ELSE q[i + 1]
    BY <1>1 DEF OneOut
  <2> QED
    BY <2>1, ListLess
<1> QED
  BY <1>1, EmptyList DEF ListSums

\* A list of nodes of one size.
LEMMA FullSum ==
  ASSUME NEW n \in Nat
  PROVE  \A q \in Seq(Entry) : (\A i \in DOMAIN q : q[i].size = n) => SizeOf(q) = Len(q) * n
<1> DEFINE Wrong(l) == \E q \in Seq(Entry) : Len(q) = l /\ (\A i \in DOMAIN q : q[i].size = n) /\ SizeOf(q) # l * n
           bad == {l \in Nat : Wrong(l)}
<1>1. SUFFICES bad = {}
  <2>1. \A q \in Seq(Entry) : Len(q) \in Nat
    BY SMT
  <2> QED
    BY <1>1, <2>1
<1>2. SUFFICES ASSUME bad # {} PROVE FALSE
  OBVIOUS
<1>3. PICK l \in bad : \A m \in bad : ~(<<m, l>> \in OpToRel(<, Nat))
  <2>1. bad \subseteq Nat
    OBVIOUS
  <2> HIDE DEF bad
  <2> QED
    BY <1>2, <2>1, WFMin, NatLessThanWellFounded
<1>4. PICK q \in Seq(Entry) : Len(q) = l /\ (\A i \in DOMAIN q : q[i].size = n) /\ SizeOf(q) # l * n
  OBVIOUS
<1>5. l \in Nat
  OBVIOUS
<1>6. CASE l = 0
  <2>1. q = <<>> /\ l * n = 0
    BY <1>4, <1>6, SMT
  <2> QED
    BY <1>4, <2>1, EmptyList
<1>7. CASE l # 0
  <2>1. q # <<>>
    BY <1>4, <1>7, SMT
  <2>2. PICK t : t = deletenode(q, Len(q))
    OBVIOUS
  <2>3. /\ t \in Seq(Entry) /\ Len(t) = Len(q) - 1 /\ Len(q) \in DOMAIN q /\ \A i \in 1..(Len(q) - 1) : t[i] = q[i]
        /\ SizeOf(t) \in Nat /\ SizeOf(q) = q[Len(q)].size + SizeOf(t)
    BY <2>1, <2>2, ListSumsHold, TailDeleted
  <2>4. l - 1 \in Nat /\ l - 1 < l /\ l * n = n + (l - 1) * n /\ (l - 1) * n \in Nat
    BY <1>5, <1>7, SMT
  <2>5. \A i \in DOMAIN t : t[i].size = n
    <3>1. \A i \in DOMAIN t : i \in 1..(Len(q) - 1) /\ i \in DOMAIN q
      BY <1>4, <2>3, SMT
    <3> QED
      BY <1>4, <2>3, <3>1
  <2>6. SizeOf(t) # (l - 1) * n
    BY <1>4, <2>3, <2>4
  <2>7. l - 1 \in bad
    BY <1>4, <2>3, <2>4, <2>5, <2>6
  <2>8. <<l - 1, l>> \in OpToRel(<, Nat)
    BY <1>5, <2>4, SMT DEF OpToRel
  <2> QED
    BY <1>3, <2>7, <2>8
<1> QED
  BY <1>6, <1>7

\* And those about one thread.
LEMMA EvenSumsHold == EvenSums
  BY FullSum DEF EvenSums

\* The set of running requests is finite, which one thread is counted by.
LEMMA FiniteSetFactsHold == FiniteSetFacts
<1>1. ASSUME NEW s, IsFiniteSet(s) PROVE Cardinality(s) \in Nat /\ (Cardinality(s) = 0 => s = {})
  BY <1>1, FS_CardinalityType, FS_EmptySet
<1>2. ASSUME NEW s, NEW t, NEW x, IsFiniteSet(s), t \subseteq s \cup {x} PROVE IsFiniteSet(t)
  <2>1. IsFiniteSet(s \cup {x})
    BY <1>2, FS_AddElement
  <2> QED
    BY <1>2, <2>1, FS_Subset
<1> QED
  BY <1>1, <1>2, FS_EmptySet DEF FiniteSetFacts

-----------------------------------------------------------------------------
\* The LRU list of the cache accounts for its size, within the capacity, and has
\* one node for a block, with any number of threads and requests.
THEOREM CacheAccounts == Spec => []ListAccounted
<1>1. Init => CacheInv
  BY InitCache, ListSumsHold
<1>2. CacheInv /\ [Next]_vars => CacheInv'
  BY StepCache, ListSumsHold
<1>3. CacheInv => ListAccounted
  BY DEF CacheInv
<1> QED
  BY <1>1, <1>2, <1>3, PTL DEF Spec

\* On one thread, and if no request is larger than the cache, every cached block
\* has its node whenever no request is under way.
THEOREM CacheListsCached == Spec => []CachedAreListed
<1>1. Init => CacheInv /\ OneThread
  BY InitCache, InitThread, ListSumsHold, FiniteSetFactsHold
<1>2. CacheInv /\ OneThread /\ [Next]_vars => CacheInv' /\ OneThread'
  BY StepCache, StepThread, ListSumsHold, EvenSumsHold, FiniteSetFactsHold
<1>3. OneThread => CachedAreListed
  <2> SUFFICES ASSUME OneThread, Single, \A j \in Job : ~Running(j),
                      NEW d \in DOMAIN caching_map, NEW b \in DOMAIN caching_map[d]
               PROVE  \E i \in DOMAIN lru : lru[i].key = d /\ lru[i].block = b
    BY DEF CachedAreListed, Single
  <2>1. ~BeingSet(d, b)
    BY DEF BeingSet, Running
  <2> QED
    BY <2>1 DEF OneThread, Listed, HasNode
<1> QED
  BY <1>1, <1>2, <1>3, PTL DEF Spec

\* A read that is answered, from the cache or the storage, gets bytes of its file and
\* its places, that the storage once had or that a request which failed left; if
\* directories have one file each, requests are for whole blocks, and writes begin at
\* position 0.
THEOREM CacheAnswersRight == Spec => []ReadsAreOfTheFile
<1>1. Init => CacheInv /\ BytesOK
  BY InitCache, InitBytes, ListSumsHold
<1>2. CacheInv /\ BytesOK /\ [Next]_vars => CacheInv' /\ BytesOK'
  BY StepCache, StepBytes, ListSumsHold
<1>3. CacheInv /\ BytesOK => ReadsAreOfTheFile
  <2> SUFFICES ASSUME CacheInv, BytesOK, Alone, NEW j \in Job, reply[j] # <<>>
               PROVE  /\ Len(reply[j]) = req[j].size \/ j \in failed
                      /\ \A i \in DOMAIN reply[j] :
                            /\ reply[j][i].file = req[j].file /\ reply[j][i].pos = req[j].pos + i - 1
                            /\ reply[j][i].by \in Known(reply[j][i].file, reply[j][i].pos)
    BY DEF ReadsAreOfTheFile, Alone, Known
  <2>1. PICK r : r = reply[j]
    OBVIOUS
  <2>2. r \in Seq(Byte) /\ (Len(r) = req[j].size \/ j \in failed) /\ From(r, req[j].file, req[j].pos)
    BY <2>1 DEF BytesOK, Collected, CacheInv, Types
  <2>3. DOMAIN r = 1..Len(r)
    BY <2>2, SMT
  <2>4. ASSUME NEW i \in DOMAIN r
        PROVE  /\ r[i].file = req[j].file /\ r[i].pos = req[j].pos + i - 1
               /\ r[i].by \in Known(r[i].file, r[i].pos)
    BY <2>2, <2>3, <2>4 DEF From, Right
  <2> QED
    BY <2>1, <2>2, <2>4
<1> QED
  BY <1>1, <1>2, <1>3, PTL DEF Spec
=============================================================================
