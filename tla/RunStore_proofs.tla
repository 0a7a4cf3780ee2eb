-------------------------- MODULE RunStore_proofs --------------------------
(***************************************************************************)
(* What the writes of the run store do to it, for any number of runs,      *)
(* questions and terms, and any budgets: its shape, and which run a write  *)
(* costs its place.                                                        *)
(*                                                                         *)
(* The lemmas say what At and KeepLast make of a sequence.  The n-th index *)
(* of a set I is the one with n indices of I up to it, so they rest on     *)
(* counting: no two indices have as many, hence each number up to          *)
(* Cardinality(I) is had by one.                                           *)
(***************************************************************************)
EXTENDS RunStore, FiniteSetTheorems, SequenceTheorems, TLAPS

\* The indices in I up to i; the n-th index in I.
UpTo(I, i) == {j \in I : j <= i}
Nth(I, n) == CHOOSE i \in I : Cardinality(UpTo(I, i)) = n

\* A later index has more indices up to it.
LEMMA UpToGrows ==
    ASSUME NEW I \in SUBSET Nat, IsFiniteSet(I), NEW i \in I, NEW k \in I, i < k
    PROVE  Cardinality(UpTo(I, i)) < Cardinality(UpTo(I, k))
<1>1. i \in Nat /\ k \in Nat /\ \A j \in I : j \in Nat
    OBVIOUS
<1>2. UpTo(I, k) \in SUBSET I
    BY DEF UpTo
<1>3. UpTo(I, i) \in SUBSET UpTo(I, k)
  <2>1. ASSUME NEW j \in I, j <= i
        PROVE  j <= k
    BY <1>1, <2>1
  <2>2. QED
    BY <2>1 DEF UpTo
<1>4. k \in UpTo(I, k) /\ k \notin UpTo(I, i)
    BY <1>1 DEF UpTo
<1>5. IsFiniteSet(UpTo(I, k))
    BY <1>2, FS_Subset
<1>6. /\ IsFiniteSet(UpTo(I, i)) /\ Cardinality(UpTo(I, i)) <= Cardinality(UpTo(I, k))
      /\ Cardinality(UpTo(I, k)) # Cardinality(UpTo(I, i))
    BY <1>3, <1>4, <1>5, FS_Subset
<1>7. Cardinality(UpTo(I, i)) \in Nat /\ Cardinality(UpTo(I, k)) \in Nat
    BY <1>5, <1>6, FS_CardinalityType
<1>8. QED
    BY <1>6, <1>7

\* An index in I has at least itself up to it, and at most all of I.
LEMMA UpToInRange ==
    ASSUME NEW I \in SUBSET Nat, IsFiniteSet(I), NEW i \in I
    PROVE  Cardinality(UpTo(I, i)) \in 1 .. Cardinality(I)
<1>1. UpTo(I, i) \in SUBSET I /\ i \in UpTo(I, i)
    BY DEF UpTo
<1>2. IsFiniteSet(UpTo(I, i)) /\ Cardinality(UpTo(I, i)) <= Cardinality(I)
    BY <1>1, FS_Subset
<1>3. Cardinality(UpTo(I, i)) \in Nat /\ Cardinality(I) \in Nat
    BY <1>2, FS_CardinalityType
<1>4. Cardinality(UpTo(I, i)) # 0
    BY <1>1, <1>2, FS_EmptySet
<1>5. QED
    BY <1>2, <1>3, <1>4

\* No two indices have the same place.
LEMMA PlacesDiffer ==
    ASSUME NEW I \in SUBSET Nat, IsFiniteSet(I), NEW i \in I, NEW k \in I,
           Cardinality(UpTo(I, i)) = Cardinality(UpTo(I, k))
    PROVE  i = k
<1>1. Cardinality(UpTo(I, i)) \in 1 .. Cardinality(I) /\ Cardinality(I) \in Nat
    BY UpToInRange, FS_CardinalityType
<1>2. ~(Cardinality(UpTo(I, i)) < Cardinality(UpTo(I, k)))
      /\ ~(Cardinality(UpTo(I, k)) < Cardinality(UpTo(I, i)))
    BY <1>1
<1>3. ~(i < k)
    BY <1>2, UpToGrows
<1>4. ~(k < i)
    BY <1>2, UpToGrows
<1>5. i \in Nat /\ k \in Nat
    OBVIOUS
<1>6. QED
    BY <1>3, <1>4, <1>5

\* Each number up to Cardinality(I) is the place of an index in I.
LEMMA NthExists ==
    ASSUME NEW I \in SUBSET Nat, IsFiniteSet(I), NEW n \in 1 .. Cardinality(I)
    PROVE  Nth(I, n) \in I /\ Cardinality(UpTo(I, Nth(I, n))) = n
<1> DEFINE place == [i \in I |-> Cardinality(UpTo(I, i))]
           c == Cardinality(I)
<1>1. c \in Nat
    BY FS_CardinalityType
<1>2. place \in [I -> 1 .. c]
    BY UpToInRange
<1>3. ASSUME NEW i \in I, NEW k \in I, place[i] = place[k]
      PROVE  i = k
    BY <1>3, PlacesDiffer
<1>4. place \in Injection(I, 1 .. c)
    BY <1>2, <1>3 DEF Injection, IsInjective
<1>5. IsFiniteSet(1 .. c) /\ Cardinality(1 .. c) = c
    BY <1>1, FS_Interval
<1>6. place \in Surjection(I, 1 .. c)
    BY <1>4, <1>5, FS_Injection
<1>7. \E i \in I : place[i] = n
    BY <1>6 DEF Surjection
<1>8. QED
    BY <1>7 DEF Nth

\* Each index in I has its place.
LEMMA NthIsUnique ==
    ASSUME NEW I \in SUBSET Nat, IsFiniteSet(I), NEW i \in I
    PROVE  Nth(I, Cardinality(UpTo(I, i))) = i
<1>1. Cardinality(UpTo(I, i)) \in 1 .. Cardinality(I)
    BY UpToInRange
<1>2. PICK k : k = Nth(I, Cardinality(UpTo(I, i)))
    OBVIOUS
<1>3. k \in I /\ Cardinality(UpTo(I, k)) = Cardinality(UpTo(I, i))
    BY <1>1, <1>2, NthExists
<1>4. QED
    BY <1>2, <1>3, PlacesDiffer

\* What is at the indices I is a sequence of as many entries, and those.
LEMMA AtProperties ==
    ASSUME NEW S, NEW s \in Seq(S), NEW I \in SUBSET DOMAIN s
    PROVE  /\ IsFiniteSet(I) /\ Cardinality(I) \in Nat
           /\ At(s, I) \in Seq(S) /\ Len(At(s, I)) = Cardinality(I)
           /\ \A n \in 1 .. Cardinality(I) : At(s, I)[n] = s[Nth(I, n)]
           /\ ToSet(At(s, I)) = {s[i] : i \in I}
<1> DEFINE c == Cardinality(I)
<1>1. DOMAIN s = 1 .. Len(s) /\ Len(s) \in Nat
    BY LenProperties
<1>2. IsFiniteSet(I) /\ I \in SUBSET Nat
  <2>1. IsFiniteSet(1 .. Len(s)) /\ I \in SUBSET (1 .. Len(s))
    BY <1>1, FS_Interval
  <2>2. IsFiniteSet(I)
    BY <2>1, FS_Subset
  <2>3. QED
    BY <1>1, <2>1, <2>2
<1>3. c \in Nat
    BY <1>2, FS_CardinalityType
<1>4. At(s, I) = [n \in 1 .. c |-> s[Nth(I, n)]]
    BY DEF At, Nth, UpTo
<1>5. \A n \in 1 .. c : Nth(I, n) \in I
    BY <1>2, NthExists
<1>6. \A i \in DOMAIN s : s[i] \in S
    BY <1>1, ElementOfSeq
<1>7. At(s, I) \in [1 .. c -> S]
    BY <1>4, <1>5, <1>6
<1>8. At(s, I) \in Seq(S) /\ Len(At(s, I)) = c
    BY <1>3, <1>7, IsASeq, LenProperties
<1>9. ASSUME NEW i \in I
      PROVE  \E n \in 1 .. c : s[Nth(I, n)] = s[i]
    BY <1>2, UpToInRange, NthIsUnique
<1>10. ToSet(At(s, I)) = {s[i] : i \in I}
  <2>1. ToSet(At(s, I)) = {s[Nth(I, n)] : n \in 1 .. c}
    BY <1>4 DEF ToSet
  <2>2. QED
    BY <1>5, <1>9, <2>1
<1>11. QED
    BY <1>2, <1>3, <1>4, <1>8, <1>10

\* All of a sequence is the sequence.
LEMMA AtAll ==
    ASSUME NEW S, NEW s \in Seq(S)
    PROVE  At(s, DOMAIN s) = s
<1>1. DOMAIN s = 1 .. Len(s) /\ Len(s) \in Nat
    BY LenProperties
<1>2. IsFiniteSet(DOMAIN s) /\ Cardinality(DOMAIN s) = Len(s) /\ DOMAIN s \in SUBSET Nat
    BY <1>1, FS_Interval
<1>3. ASSUME NEW n \in 1 .. Len(s)
      PROVE  Nth(DOMAIN s, n) = n
  <2>1. UpTo(DOMAIN s, n) = 1 .. n
    BY <1>1 DEF UpTo
  <2>2. Cardinality(1 .. n) = n
    BY FS_Interval
  <2>3. QED
    BY <1>1, <1>2, <2>1, <2>2, NthIsUnique
<1>4. At(s, DOMAIN s) \in Seq(S) /\ Len(At(s, DOMAIN s)) = Len(s)
      /\ \A n \in 1 .. Len(s) : At(s, DOMAIN s)[n] = s[n]
    BY <1>2, <1>3, AtProperties
<1>5. QED
    BY <1>4, SeqEqual

\* A budget that is not exceeded costs nothing ...
LEMMA KeepLastAll ==
    ASSUME NEW S, NEW s \in Seq(S), NEW I \in SUBSET DOMAIN s, NEW m \in Nat,
           Cardinality(I) <= m
    PROVE  KeepLast(s, I, m) = s
<1>1. IsFiniteSet(I) /\ Cardinality(I) \in Nat /\ DOMAIN s = 1 .. Len(s) /\ Len(s) \in Nat
    BY AtProperties, LenProperties
<1>2. ASSUME NEW i \in I
      PROVE  Cardinality({j \in I : j > i}) < m
  <2>1. {j \in I : j > i} \in SUBSET (I \ {i})
    BY <1>1
  <2>2. IsFiniteSet(I \ {i}) /\ Cardinality(I \ {i}) = Cardinality(I) - 1
    BY <1>1, FS_RemoveElement
  <2>3. /\ Cardinality({j \in I : j > i}) <= Cardinality(I \ {i})
        /\ IsFiniteSet({j \in I : j > i})
    BY <2>1, <2>2, FS_Subset
  <2>4. Cardinality({j \in I : j > i}) \in Nat
    BY <2>3, FS_CardinalityType
  <2>5. QED
    BY <1>1, <2>2, <2>3, <2>4
<1>3. {i \in DOMAIN s : i \in I => Cardinality({j \in I : j > i}) < m} = DOMAIN s
    BY <1>2
<1>4. QED
    BY <1>3, AtAll DEF KeepLast

\* ... and one that is exceeded by one costs the oldest its place.
LEMMA KeepLastDrops ==
    ASSUME NEW S, NEW s \in Seq(S), NEW I \in SUBSET DOMAIN s, NEW m \in Nat,
           Cardinality(I) = m + 1, NEW k \in I, \A i \in I : k <= i
    PROVE  KeepLast(s, I, m) = At(s, DOMAIN s \ {k})
<1>1. IsFiniteSet(I) /\ DOMAIN s = 1 .. Len(s) /\ Len(s) \in Nat
    BY AtProperties, LenProperties
<1>2. IsFiniteSet(I \ {k}) /\ Cardinality(I \ {k}) = m
  <2>1. IsFiniteSet(I \ {k}) /\ Cardinality(I \ {k}) = Cardinality(I) - 1
    BY <1>1, FS_RemoveElement
  <2>2. QED
    BY <2>1
<1>3. {j \in I : j > k} = I \ {k}
    BY <1>1
<1>4. ASSUME NEW i \in I, i # k
      PROVE  Cardinality({j \in I : j > i}) < m
  <2>1. k < i
    BY <1>1, <1>4
  <2>2. {j \in I : j > i} \in SUBSET ((I \ {k}) \ {i})
    BY <1>1, <2>1
  <2>3. IsFiniteSet((I \ {k}) \ {i}) /\ Cardinality((I \ {k}) \ {i}) = m - 1
    BY <1>2, <1>4, FS_RemoveElement
  <2>4. /\ Cardinality({j \in I : j > i}) <= m - 1
        /\ IsFiniteSet({j \in I : j > i})
    BY <2>2, <2>3, FS_Subset
  <2>5. Cardinality({j \in I : j > i}) \in Nat
    BY <2>4, FS_CardinalityType
  <2>6. QED
    BY <2>4, <2>5
<1>5. {i \in DOMAIN s : i \in I => Cardinality({j \in I : j > i}) < m} = DOMAIN s \ {k}
  <2>1. Cardinality({j \in I : j > k}) = m
    BY <1>2, <1>3
  <2>2. ~(m < m)
    OBVIOUS
  <2>3. QED
    BY <1>4, <2>1, <2>2
<1>6. QED
    BY <1>5 DEF KeepLast

----------------------------------------------------------------------------
\* At most one run per question; neither budget exceeded.
OneEach(s) == \A i, j \in DOMAIN s : s[i].key = s[j].key => i = j
StoreShape ==
    /\ OneEach(store)
    /\ Cardinality(Stored) <= MaxStored
    /\ Cardinality({e \in Stored : IsTerm(e)}) <= MaxTerms

\* Where each question has one run, there are as many runs as indices.
LEMMA AsManyAsIndices ==
    ASSUME NEW s \in Seq(Entries), OneEach(s), NEW I \in SUBSET DOMAIN s
    PROVE  /\ IsFiniteSet({s[i] : i \in I})
           /\ Cardinality({s[i] : i \in I}) = Cardinality(I)
<1> DEFINE f == [i \in I |-> s[i]]
           T == {s[i] : i \in I}
<1>1. IsFiniteSet(I)
    BY AtProperties
<1>2. f \in [I -> T] /\ \A t \in T : \E i \in I : f[i] = t
    OBVIOUS
<1>3. \A i, j \in I : f[i] = f[j] => i = j
    BY DEF OneEach
<1>4. f \in Injection(I, T) /\ f \in Surjection(I, T)
    BY <1>2, <1>3 DEF Injection, IsInjective, Surjection
<1>5. ExistsBijection(I, T)
    BY <1>4 DEF ExistsBijection, Bijection
<1>6. QED
    BY <1>1, <1>5, FS_Bijection

\* What is taken out of such a sequence is one.
LEMMA AtOneEach ==
    ASSUME NEW s \in Seq(Entries), OneEach(s), NEW I \in SUBSET DOMAIN s
    PROVE  OneEach(At(s, I))
<1>1. /\ IsFiniteSet(I) /\ Cardinality(I) \in Nat
      /\ At(s, I) \in Seq(Entries) /\ Len(At(s, I)) = Cardinality(I)
      /\ \A n \in 1 .. Cardinality(I) : At(s, I)[n] = s[Nth(I, n)]
    BY AtProperties
<1>2. DOMAIN At(s, I) = 1 .. Cardinality(I) /\ I \in SUBSET Nat
    BY <1>1, LenProperties
<1>3. SUFFICES ASSUME NEW n \in 1 .. Cardinality(I), NEW p \in 1 .. Cardinality(I),
                      s[Nth(I, n)].key = s[Nth(I, p)].key
               PROVE  n = p
    BY <1>1, <1>2 DEF OneEach
<1>4. /\ Nth(I, n) \in I /\ Cardinality(UpTo(I, Nth(I, n))) = n
      /\ Nth(I, p) \in I /\ Cardinality(UpTo(I, Nth(I, p))) = p
    BY <1>1, <1>2, NthExists
<1>5. Nth(I, n) = Nth(I, p)
    BY <1>3, <1>4 DEF OneEach
<1>6. QED
    BY <1>4, <1>5

\* A run of another question than those of a sequence, put behind them.
LEMMA AppendOther ==
    ASSUME NEW s \in Seq(Entries), OneEach(s), NEW x \in Entries,
           \A p \in DOMAIN s : s[p].key # x.key
    PROVE  /\ Append(s, x) \in Seq(Entries) /\ OneEach(Append(s, x))
           /\ DOMAIN Append(s, x) = 1 .. Len(s) + 1
           /\ ToSet(Append(s, x)) = {x} \union ToSet(s)
<1> DEFINE t == Append(s, x)
<1>1. /\ t \in Seq(Entries) /\ Len(t) = Len(s) + 1 /\ t[Len(s) + 1] = x
      /\ \A p \in 1 .. Len(s) : t[p] = s[p]
    BY AppendProperties
<1>2. /\ Len(s) \in Nat /\ DOMAIN s = 1 .. Len(s) /\ DOMAIN t = 1 .. Len(s) + 1
      /\ DOMAIN t = (1 .. Len(s)) \union {Len(s) + 1}
    BY <1>1, LenProperties
<1>3. OneEach(t)
    BY <1>1, <1>2 DEF OneEach
<1>4. ToSet(t) = {x} \union ToSet(s)
    BY <1>1, <1>2 DEF ToSet
<1>5. QED
    BY <1>1, <1>2, <1>3, <1>4

\* The indices that are of another question than e's.
Others(e) == {i \in DOMAIN store : store[i].key # e.key}

\* A run written: it is the last one, the others keep their order before it.
LEMMA WrittenProperties ==
    ASSUME store \in Seq(Entries), OneEach(store), NEW e \in Entries
    PROVE  LET w == Written(e)
               n == Cardinality(Others(e))
           IN  /\ n \in Nat /\ IsFiniteSet(Others(e)) /\ Others(e) \in SUBSET Nat
               /\ w \in Seq(Entries) /\ OneEach(w) /\ DOMAIN w = 1 .. n + 1 /\ w[n + 1] = e
               /\ \A p \in 1 .. n : w[p] = store[Nth(Others(e), p)]
               /\ ToSet(w) = {e} \union {store[i] : i \in Others(e)}
<1> DEFINE O == Others(e)
           n == Cardinality(O)
           kept == At(store, O)
           w == Append(kept, e)
<1>1. O \in SUBSET DOMAIN store /\ DOMAIN store \in SUBSET Nat
    BY LenProperties DEF Others
<1>2. /\ IsFiniteSet(O) /\ n \in Nat /\ kept \in Seq(Entries) /\ Len(kept) = n
      /\ \A p \in 1 .. n : kept[p] = store[Nth(O, p)]
      /\ ToSet(kept) = {store[i] : i \in O}
    BY <1>1, AtProperties
<1>3. DOMAIN kept = 1 .. n /\ OneEach(kept)
    BY <1>1, <1>2, LenProperties, AtOneEach
<1>4. /\ w \in Seq(Entries) /\ Len(w) = n + 1 /\ w[n + 1] = e
      /\ \A p \in 1 .. n : w[p] = kept[p]
    BY <1>2, AppendProperties
<1>5. \A p \in DOMAIN kept : kept[p].key # e.key
    BY <1>1, <1>2, <1>3, NthExists DEF Others
<1>6. /\ OneEach(w) /\ DOMAIN w = 1 .. n + 1
      /\ ToSet(w) = {e} \union ToSet(kept)
    BY <1>2, <1>3, <1>5, AppendOther
<1>7. w = Written(e)
    BY DEF Written, Others
<1>8. QED
    BY <1>1, <1>2, <1>4, <1>6, <1>7

\* A sequence without one of its entries.
LEMMA AtWithout ==
    ASSUME NEW s \in Seq(Entries), OneEach(s), NEW k \in DOMAIN s
    PROVE  /\ At(s, DOMAIN s \ {k}) \in Seq(Entries) /\ OneEach(At(s, DOMAIN s \ {k}))
           /\ ToSet(At(s, DOMAIN s \ {k})) = ToSet(s) \ {s[k]}
<1>1. DOMAIN s \ {k} \in SUBSET DOMAIN s
    OBVIOUS
<1>2. /\ At(s, DOMAIN s \ {k}) \in Seq(Entries) /\ OneEach(At(s, DOMAIN s \ {k}))
      /\ ToSet(At(s, DOMAIN s \ {k})) = {s[p] : p \in DOMAIN s \ {k}}
    BY <1>1, AtProperties, AtOneEach
<1>3. {s[p] : p \in DOMAIN s \ {k}} = ToSet(s) \ {s[k]}
    BY DEF OneEach, ToSet
<1>4. QED
    BY <1>2, <1>3

\* The entry at index o goes: of the stored runs those at the others are left.
LEMMA WithoutOne ==
    ASSUME store \in Seq(Entries), OneEach(store), NEW e \in Entries, NEW o \in Others(e)
    PROVE  LET w == Written(e)
               k == Cardinality(UpTo(Others(e), o))
           IN  /\ k \in DOMAIN w /\ w[k] = store[o]
               /\ At(w, DOMAIN w \ {k}) \in Seq(Entries)
               /\ OneEach(At(w, DOMAIN w \ {k}))
               /\ ToSet(At(w, DOMAIN w \ {k}))
                     = {e} \union {store[i] : i \in Others(e) \ {o}}
<1> DEFINE O == Others(e)
           n == Cardinality(O)
           w == Written(e)
           k == Cardinality(UpTo(O, o))
<1>1. /\ n \in Nat /\ IsFiniteSet(O) /\ O \in SUBSET Nat
      /\ w \in Seq(Entries) /\ OneEach(w) /\ DOMAIN w = 1 .. n + 1 /\ w[n + 1] = e
      /\ \A p \in 1 .. n : w[p] = store[Nth(O, p)]
      /\ ToSet(w) = {e} \union {store[i] : i \in O}
    BY WrittenProperties
<1>2. k \in 1 .. n /\ Nth(O, k) = o
    BY <1>1, UpToInRange, NthIsUnique
<1>3. k \in DOMAIN w /\ w[k] = store[o]
    BY <1>1, <1>2
<1>4. /\ At(w, DOMAIN w \ {k}) \in Seq(Entries) /\ OneEach(At(w, DOMAIN w \ {k}))
      /\ ToSet(At(w, DOMAIN w \ {k})) = ToSet(w) \ {store[o]}
    BY <1>1, <1>3, AtWithout
<1>5. store[o] # e /\ \A i \in O \ {o} : store[i] # store[o]
    BY DEF Others, OneEach
<1>6. ToSet(w) \ {store[o]} = {e} \union {store[i] : i \in O \ {o}}
    BY <1>1, <1>5
<1>7. QED
    BY <1>3, <1>4, <1>6

\* The least of some indices is there, and alone.
LEMMA LeastIndex ==
    ASSUME NEW I \in SUBSET Nat, IsFiniteSet(I), Cardinality(I) # 0
    PROVE  \E o \in I : {i \in I : \A j \in I : i <= j} = {o}
<1>1. Cardinality(I) \in Nat
    BY FS_CardinalityType
<1>2. PICK o \in I : Cardinality(UpTo(I, o)) = 1
  <2>1. 1 \in 1 .. Cardinality(I)
    BY <1>1
  <2>2. QED
    BY <2>1, NthExists
<1>3. ASSUME NEW j \in I
      PROVE  o <= j
  <2>1. Cardinality(UpTo(I, j)) \in 1 .. Cardinality(I)
    BY UpToInRange
  <2>2. ~(Cardinality(UpTo(I, j)) < Cardinality(UpTo(I, o)))
    BY <1>1, <1>2, <2>1
  <2>3. ~(j < o) /\ j \in Nat /\ o \in Nat
    BY <2>2, UpToGrows
  <2>4. QED
    BY <2>3
<1>4. \A i \in I : i <= o => i = o
    BY <1>3
<1>5. QED
    BY <1>3, <1>4

TermsAmong(e) == {i \in Others(e) : IsTerm(store[i])}

\* A store in shape has room for the others, and for the terms among them.
LEMMA OthersFit ==
    ASSUME store \in Seq(Entries), StoreShape, NEW e \in Entries
    PROVE  /\ Cardinality(Others(e)) \in Nat /\ Cardinality(Others(e)) <= MaxStored
           /\ Cardinality(TermsAmong(e)) \in Nat /\ Cardinality(TermsAmong(e)) <= MaxTerms
<1> DEFINE All == {store[i] : i \in Others(e)}
           Some == {store[i] : i \in TermsAmong(e)}
<1>1. Others(e) \in SUBSET DOMAIN store /\ TermsAmong(e) \in SUBSET DOMAIN store
    BY DEF Others, TermsAmong
<1>2. OneEach(store) /\ DOMAIN store \in SUBSET DOMAIN store
    BY DEF StoreShape
<1>3. /\ Cardinality(All) = Cardinality(Others(e)) /\ Cardinality(Others(e)) \in Nat
      /\ Cardinality(Some) = Cardinality(TermsAmong(e)) /\ Cardinality(TermsAmong(e)) \in Nat
    BY <1>1, <1>2, AsManyAsIndices, AtProperties
<1>4. Stored = {store[i] : i \in DOMAIN store}
    BY DEF Stored, ToSet
<1>5. IsFiniteSet(Stored)
    BY <1>2, <1>4, AsManyAsIndices
<1>6. All \in SUBSET Stored /\ Some \in SUBSET {x \in Stored : IsTerm(x)}
    BY <1>1, <1>4 DEF TermsAmong
<1>7. {x \in Stored : IsTerm(x)} \in SUBSET Stored
    OBVIOUS
<1>8. /\ Cardinality(All) <= Cardinality(Stored) /\ Cardinality(Stored) \in Nat
      /\ IsFiniteSet({x \in Stored : IsTerm(x)})
    BY <1>5, <1>6, <1>7, FS_Subset, FS_CardinalityType
<1>9. /\ Cardinality(Some) <= Cardinality({x \in Stored : IsTerm(x)})
      /\ Cardinality({x \in Stored : IsTerm(x)}) \in Nat
    BY <1>6, <1>8, FS_Subset, FS_CardinalityType
<1>10. MaxStored \in Nat /\ MaxTerms \in Nat
    BY RunStoreAssumption
<1>11. QED
    BY <1>3, <1>8, <1>9, <1>10 DEF StoreShape

\* The terms of what is written are those among the others, and e if it is one.
LEMMA TermsWritten ==
    ASSUME store \in Seq(Entries), OneEach(store), NEW e \in Entries
    PROVE  LET J == {p \in DOMAIN Written(e) : IsTerm(Written(e)[p])}
           IN  Cardinality(J) = Cardinality(TermsAmong(e)) + (IF IsTerm(e) THEN 1 ELSE 0)
<1> DEFINE w == Written(e)
           J == {p \in DOMAIN w : IsTerm(w[p])}
           Some == {store[i] : i \in TermsAmong(e)}
<1>1. /\ w \in Seq(Entries) /\ OneEach(w)
      /\ ToSet(w) = {e} \union {store[i] : i \in Others(e)}
    BY WrittenProperties
<1>2. J \in SUBSET DOMAIN w /\ TermsAmong(e) \in SUBSET DOMAIN store
    BY DEF TermsAmong, Others
<1>3. Cardinality({w[p] : p \in J}) = Cardinality(J)
    BY <1>1, <1>2, AsManyAsIndices
<1>4. IsFiniteSet(Some) /\ Cardinality(Some) = Cardinality(TermsAmong(e))
    BY <1>2, AsManyAsIndices
<1>5. {w[p] : p \in J} = {x \in ToSet(w) : IsTerm(x)}
    BY DEF ToSet
<1>6. {x \in ToSet(w) : IsTerm(x)} = IF IsTerm(e) THEN Some \union {e} ELSE Some
    BY <1>1 DEF TermsAmong
<1>7. e \notin Some
    BY DEF TermsAmong, Others
<1>8. Cardinality(Some \union {e}) = Cardinality(Some) + 1
    BY <1>4, <1>7, FS_AddElement
<1>9. Cardinality(TermsAmong(e)) \in Nat
    BY <1>2, AtProperties
<1>10. CASE IsTerm(e)
  <2>1. Cardinality(J) = Cardinality(Some \union {e})
    BY <1>3, <1>5, <1>6, <1>10
  <2>2. QED
    BY <1>4, <1>8, <1>10, <2>1
<1>11. CASE ~IsTerm(e)
  <2>1. Cardinality(J) = Cardinality(Some)
    BY <1>3, <1>5, <1>6, <1>11
  <2>2. QED
    BY <1>4, <1>9, <1>11, <2>1
<1>12. QED
    BY <1>10, <1>11

\* The runs a write of e may cost its place, and the one that it does.
Pool(e) ==
    IF IsTerm(e) /\ Cardinality(TermsAmong(e)) = MaxTerms THEN TermsAmong(e)
    ELSE IF Cardinality(Others(e)) = MaxStored THEN Others(e) ELSE {}
Oldest(e) == {i \in Pool(e) : \A j \in Pool(e) : i <= j}

\* The oldest of some others has the first place of theirs in what is written.
LEMMA OldestIsFirst ==
    ASSUME store \in Seq(Entries), OneEach(store), NEW e \in Entries,
           NEW P \in SUBSET Others(e), NEW o \in P, \A j \in P : o <= j,
           NEW p \in DOMAIN Written(e),
           p \in 1 .. Cardinality(Others(e)) => Nth(Others(e), p) \in P
    PROVE  Cardinality(UpTo(Others(e), o)) <= p
<1> DEFINE O == Others(e)
           n == Cardinality(O)
<1>1. n \in Nat /\ IsFiniteSet(O) /\ O \in SUBSET Nat /\ DOMAIN Written(e) = 1 .. n + 1
    BY WrittenProperties
<1>2. Cardinality(UpTo(O, o)) \in 1 .. n
    BY <1>1, UpToInRange
<1>3. CASE p = n + 1
    BY <1>1, <1>2, <1>3
<1>4. CASE p \in 1 .. n
  <2>1. Nth(O, p) \in P /\ Nth(O, p) \in O /\ Cardinality(UpTo(O, Nth(O, p))) = p
    BY <1>1, <1>4, NthExists
  <2>2. CASE Nth(O, p) = o
    BY <1>1, <1>2, <2>1, <2>2
  <2>3. CASE Nth(O, p) # o
    <3>1. o < Nth(O, p)
      BY <1>1, <2>1, <2>3
    <3>2. Cardinality(UpTo(O, o)) < p
      BY <1>1, <2>1, <3>1, UpToGrows
    <3>3. QED
      BY <1>1, <1>2, <3>2
  <2>4. QED
    BY <2>2, <2>3
<1>5. QED
    BY <1>1, <1>3, <1>4

\* What Put makes of a store in shape.
LEMMA PutProperties ==
    ASSUME store \in Seq(Entries), StoreShape, NEW e \in Entries
    PROVE  /\ Put(e) \in Seq(Entries) /\ OneEach(Put(e))
           /\ ToSet(Put(e)) = {e} \union {store[i] : i \in Others(e) \ Oldest(e)}
<1> DEFINE O == Others(e)
           n == Cardinality(O)
           T == TermsAmong(e)
           w == Written(e)
           J == {p \in DOMAIN w : IsTerm(w[p])}
<1>1. OneEach(store) /\ MaxStored \in Nat \ {0} /\ MaxTerms \in Nat \ {0}
    BY RunStoreAssumption DEF StoreShape
<1>2. /\ n \in Nat /\ IsFiniteSet(O) /\ O \in SUBSET Nat
      /\ w \in Seq(Entries) /\ OneEach(w) /\ DOMAIN w = 1 .. n + 1 /\ w[n + 1] = e
      /\ \A p \in 1 .. n : w[p] = store[Nth(O, p)]
      /\ ToSet(w) = {e} \union {store[i] : i \in O}
    BY <1>1, WrittenProperties
<1>3. n <= MaxStored /\ Cardinality(T) \in Nat /\ Cardinality(T) <= MaxTerms
    BY OthersFit
<1>4. Cardinality(J) = Cardinality(T) + (IF IsTerm(e) THEN 1 ELSE 0)
    BY <1>1, TermsWritten
<1>5. T \in SUBSET O /\ IsFiniteSet(T) /\ T \in SUBSET Nat /\ J \in SUBSET DOMAIN w
    BY <1>2, FS_Subset DEF TermsAmong
<1>6. CASE IsTerm(e) /\ Cardinality(T) = MaxTerms
  <2>1. Pool(e) = T /\ Cardinality(T) # 0
    BY <1>1, <1>6 DEF Pool
  <2>2. PICK o \in T : Oldest(e) = {o}
    BY <1>5, <2>1, LeastIndex DEF Oldest
  <2>3. \A j \in T : o <= j
    BY <2>1, <2>2 DEF Oldest
  <2> DEFINE k == Cardinality(UpTo(O, o))
             cut == At(w, DOMAIN w \ {k})
  <2>4. o \in O
    BY <1>5
  <2>5. /\ k \in DOMAIN w /\ w[k] = store[o] /\ cut \in Seq(Entries) /\ OneEach(cut)
        /\ ToSet(cut) = {e} \union {store[i] : i \in O \ {o}}
    BY <1>1, <2>4, WithoutOne
  <2>6. k \in J
    BY <2>5 DEF TermsAmong
  <2>7. \A p \in J : k <= p
    <3>1. SUFFICES ASSUME NEW p \in J PROVE k <= p
      OBVIOUS
    <3>2. p \in 1 .. n => Nth(O, p) \in T
      BY <1>2, NthExists DEF TermsAmong
    <3>3. QED
      BY <1>1, <1>5, <2>3, <3>2, OldestIsFirst
  <2>8. Cardinality(J) = MaxTerms + 1
    BY <1>4, <1>6
  <2>9. CutTerms(w) = cut
    BY <1>1, <1>2, <1>5, <2>6, <2>7, <2>8, KeepLastDrops DEF CutTerms
  <2>10. DOMAIN cut = 1 .. Len(cut) /\ Len(cut) = Cardinality(DOMAIN w \ {k}) /\ Len(cut) \in Nat
    BY <1>2, <2>5, AtProperties, LenProperties
  <2>11. Cardinality(DOMAIN w \ {k}) = n
    <3>1. IsFiniteSet(1 .. n + 1) /\ Cardinality(1 .. n + 1) = n + 1
      BY <1>2, FS_Interval
    <3>2. k \in 1 .. n + 1
      BY <1>2, <2>5
    <3>3. Cardinality((1 .. n + 1) \ {k}) = (n + 1) - 1
      BY <3>1, <3>2, FS_RemoveElement
    <3>4. QED
      BY <1>2, <3>3
  <2>12. DOMAIN cut = 1 .. n /\ Cardinality(1 .. n) = n
    BY <1>2, <2>10, <2>11, FS_Interval
  <2>13. CutAll(cut) = cut
    BY <1>1, <1>3, <2>5, <2>12, KeepLastAll DEF CutAll
  <2>14. QED
    BY <2>2, <2>5, <2>9, <2>13 DEF Put
<1>7. CASE ~(IsTerm(e) /\ Cardinality(T) = MaxTerms)
  <2>1. Cardinality(J) <= MaxTerms
    BY <1>1, <1>3, <1>4, <1>7
  <2>2. CutTerms(w) = w
    BY <1>1, <1>2, <1>5, <2>1, KeepLastAll DEF CutTerms
  <2>3. IsFiniteSet(DOMAIN w) /\ Cardinality(DOMAIN w) = n + 1
    BY <1>2, FS_Interval
  <2>4. CASE n = MaxStored
    <3>1. Pool(e) = O /\ n # 0
      BY <1>1, <1>7, <2>4 DEF Pool
    <3>2. PICK o \in O : Oldest(e) = {o}
      BY <1>2, <3>1, LeastIndex DEF Oldest
    <3>3. \A j \in O : o <= j
      BY <3>1, <3>2 DEF Oldest
    <3> DEFINE k == Cardinality(UpTo(O, o))
               cut == At(w, DOMAIN w \ {k})
    <3>4. /\ k \in DOMAIN w /\ cut \in Seq(Entries) /\ OneEach(cut)
          /\ ToSet(cut) = {e} \union {store[i] : i \in O \ {o}}
      BY <1>1, WithoutOne
    <3>5. \A p \in DOMAIN w : k <= p
      BY <1>1, <1>2, <3>3, NthExists, OldestIsFirst
    <3>6. CutAll(w) = cut
      BY <1>1, <1>2, <2>3, <2>4, <3>4, <3>5, KeepLastDrops DEF CutAll
    <3>7. QED
      BY <2>2, <3>2, <3>4, <3>6 DEF Put
  <2>5. CASE n # MaxStored
    <3>1. Oldest(e) = {}
      BY <1>7, <2>5 DEF Pool, Oldest
    <3>2. n + 1 <= MaxStored
      BY <1>1, <1>2, <1>3, <2>5
    <3>3. CutAll(w) = w
      BY <1>1, <1>2, <2>3, <3>2, KeepLastAll DEF CutAll
    <3>4. QED
      BY <1>2, <2>2, <3>1, <3>3 DEF Put
  <2>6. QED
    BY <2>4, <2>5
<1>8. QED
    BY <1>6, <1>7

\* What Attach makes of a store in shape: one run is written anew, with links.
LEMMA AttachProperties ==
    ASSUME store \in Seq(Entries), OneEach(store), NEW k \in Keys, NEW r \in Runs
    PROVE  /\ Attach(k, r) \in Seq(Entries) /\ OneEach(Attach(k, r))
           /\ \/ Attach(k, r) = store
              \/ \E o \in Stored :
                    /\ o.key = k /\ o.run = r /\ o.kind = "done"
                    /\ ToSet(Attach(k, r)) = (Stored \ {o}) \union {[o EXCEPT !.links = r]}
<1> DEFINE found == {i \in DOMAIN store : /\ store[i].key = k /\ store[i].run = r
                                          /\ store[i].kind = "done" /\ r \notin lapsed}
<1>1. CASE found = {}
    BY <1>1 DEF Attach
<1>2. CASE found # {}
  <2> DEFINE i == CHOOSE i \in found : TRUE
             o == store[i]
             new == [o EXCEPT !.links = r]
             rest == At(store, DOMAIN store \ {i})
  <2>1. i \in found
    BY <1>2
  <2>2. i \in DOMAIN store /\ o.key = k /\ o.run = r /\ o.kind = "done"
    BY <2>1
  <2>3. o \in Entries
    BY <2>2, ElementOfSeq, LenProperties
  <2>4. new \in Entries /\ new.key = k
    BY <2>2, <2>3 DEF Entries
  <2>5. found = {i}
    BY <2>1, <2>2 DEF OneEach
  <2>6. /\ rest \in Seq(Entries) /\ OneEach(rest)
        /\ ToSet(rest) = ToSet(store) \ {o}
    BY <2>2, AtWithout
  <2>7. Attach(k, r) = Append(rest, new)
    BY <1>2, <2>5 DEF Attach
  <2>8. \A p \in DOMAIN rest : rest[p].key # new.key
    <3>1. \A p \in DOMAIN rest : rest[p] \in ToSet(store) \ {o}
      BY <2>6 DEF ToSet
    <3>2. \A x \in ToSet(store) \ {o} : x.key # k
      BY <2>2 DEF OneEach, ToSet
    <3>3. QED
      BY <2>4, <3>1, <3>2
  <2>9. /\ Append(rest, new) \in Seq(Entries) /\ OneEach(Append(rest, new))
        /\ ToSet(Append(rest, new)) = {new} \union ToSet(rest)
    BY <2>4, <2>6, <2>8, AppendOther
  <2>10. o \in Stored
    BY <2>2 DEF Stored, ToSet
  <2>11. QED
    BY <2>2, <2>6, <2>7, <2>9, <2>10 DEF Stored
<1>3. QED
    BY <1>1, <1>2

----------------------------------------------------------------------------
TypeOK == store \in Seq(Entries) /\ lapsed \subseteq Runs

\* Every write leaves a sequence of entries.
LEMMA TypeStep == TypeOK /\ StoreShape /\ [Next]_vars => TypeOK'
<1> SUFFICES ASSUME TypeOK, StoreShape, [Next]_vars PROVE TypeOK'
    OBVIOUS
<1>1. ASSUME NEW e \in Entries, putRun(e) PROVE TypeOK'
    BY <1>1, PutProperties DEF TypeOK, putRun
<1>2. ASSUME NEW k \in Keys, NEW r \in Runs, putItemUrls(k, r) PROVE TypeOK'
    BY <1>2, AttachProperties DEF TypeOK, StoreShape, putItemUrls
<1>3. CASE clearRuns
    BY <1>3 DEF TypeOK, clearRuns
<1>4. ASSUME NEW r \in Runs, Lapse(r) PROVE TypeOK'
    BY <1>4 DEF TypeOK, Lapse
<1>5. CASE UNCHANGED vars
    BY <1>5 DEF TypeOK, vars
<1>6. QED
    BY <1>1, <1>2, <1>3, <1>4, <1>5 DEF Next

\* A write that finds a budget full costs exactly one run its place.
LEMMA OldestProperties ==
    ASSUME store \in Seq(Entries), StoreShape, NEW e \in Entries
    PROVE  /\ Pool(e) = {} => Oldest(e) = {}
           /\ Pool(e) # {} => \E o \in Pool(e) : Oldest(e) = {o}
           /\ Pool(e) \in SUBSET Others(e)
<1>1. IsFiniteSet(Others(e)) /\ Others(e) \in SUBSET Nat
    BY WrittenProperties DEF StoreShape
<1>2. Pool(e) \in SUBSET Others(e)
    BY DEF Pool, TermsAmong
<1>3. IsFiniteSet(Pool(e)) /\ Pool(e) \in SUBSET Nat
    BY <1>1, <1>2, FS_Subset
<1>4. CASE Pool(e) = {}
    BY <1>4 DEF Oldest, Pool, TermsAmong
<1>5. CASE Pool(e) # {}
  <2>1. Cardinality(Pool(e)) # 0
    BY <1>3, <1>5, FS_EmptySet
  <2>2. QED
    BY <1>2, <1>3, <1>5, <2>1, LeastIndex DEF Oldest
<1>6. QED
    BY <1>4, <1>5

\* With one more a set is within a bound that it was below ...
LEMMA OneMore ==
    ASSUME NEW A, IsFiniteSet(A), NEW x, NEW m \in Nat, Cardinality(A) < m
    PROVE  Cardinality(A \union {x}) <= m
<1>1. Cardinality(A) \in Nat
    BY FS_CardinalityType
<1>2. Cardinality(A \union {x}) = IF x \in A THEN Cardinality(A) ELSE Cardinality(A) + 1
    BY FS_AddElement
<1>3. QED
    BY <1>1, <1>2

\* ... and with one less it is below a bound that it was within.
LEMMA OneLess ==
    ASSUME NEW A, IsFiniteSet(A), NEW x \in A, NEW m \in Nat, Cardinality(A) <= m
    PROVE  Cardinality(A \ {x}) < m
<1>1. Cardinality(A) \in Nat
    BY FS_CardinalityType
<1>2. Cardinality(A \ {x}) = Cardinality(A) - 1
    BY FS_RemoveElement
<1>3. QED
    BY <1>1, <1>2

\* After a write both budgets are kept.
LEMMA PutKeepsBudgets ==
    ASSUME store \in Seq(Entries), StoreShape, NEW e \in Entries
    PROVE  /\ Cardinality(ToSet(Put(e))) <= MaxStored
           /\ Cardinality({x \in ToSet(Put(e)) : IsTerm(x)}) <= MaxTerms
<1> DEFINE O == Others(e)
           T == TermsAmong(e)
           Left == {store[i] : i \in O \ Oldest(e)}
           LeftTerms == {store[i] : i \in T \ Oldest(e)}
<1>1. OneEach(store) /\ MaxStored \in Nat \ {0} /\ MaxTerms \in Nat \ {0}
    BY RunStoreAssumption DEF StoreShape
<1>2. /\ Cardinality(O) \in Nat /\ Cardinality(O) <= MaxStored
      /\ Cardinality(T) \in Nat /\ Cardinality(T) <= MaxTerms
    BY OthersFit
<1>3. IsFiniteSet(O) /\ IsFiniteSet(T)
  <2>1. O \in SUBSET DOMAIN store /\ T \in SUBSET DOMAIN store
    BY DEF Others, TermsAmong
  <2>2. QED
    BY <2>1, AtProperties
<1>4. ToSet(Put(e)) = Left \union {e}
    BY PutProperties
<1>5. {x \in ToSet(Put(e)) : IsTerm(x)} = IF IsTerm(e) THEN LeftTerms \union {e} ELSE LeftTerms
    BY <1>4 DEF TermsAmong
<1>6. /\ IsFiniteSet(Left) /\ Cardinality(Left) = Cardinality(O \ Oldest(e))
      /\ IsFiniteSet(LeftTerms) /\ Cardinality(LeftTerms) = Cardinality(T \ Oldest(e))
      /\ IsFiniteSet(O \ Oldest(e)) /\ IsFiniteSet(T \ Oldest(e))
  <2>1. O \ Oldest(e) \in SUBSET DOMAIN store /\ T \ Oldest(e) \in SUBSET DOMAIN store
    BY DEF Others, TermsAmong
  <2>2. QED
    BY <1>1, <2>1, AsManyAsIndices, AtProperties
<1>7. Cardinality(O \ Oldest(e)) < MaxStored
  <2>1. CASE Pool(e) = {}
    <3>1. O \ Oldest(e) = O
      BY <2>1, OldestProperties
    <3>2. Cardinality(O) # MaxStored
      BY <1>1, <1>2, <1>3, <2>1, FS_EmptySet DEF Pool
    <3>3. Cardinality(O) < MaxStored
      BY <1>1, <1>2, <3>2
    <3>4. QED
      BY <3>1, <3>3
  <2>2. CASE Pool(e) # {}
    <3>1. PICK o \in O : Oldest(e) = {o}
      BY <2>2, OldestProperties
    <3>2. QED
      BY <1>1, <1>2, <1>3, <3>1, OneLess
  <2>3. QED
    BY <2>1, <2>2
<1>8. Cardinality(T \ Oldest(e)) <= MaxTerms
  <2>1. Cardinality(T \ Oldest(e)) <= Cardinality(T) /\ Cardinality(T \ Oldest(e)) \in Nat
    BY <1>3, <1>6, FS_Subset, FS_CardinalityType
  <2>2. QED
    BY <1>1, <1>2, <2>1
<1>9. ASSUME IsTerm(e)
      PROVE  Cardinality(T \ Oldest(e)) < MaxTerms
  <2>1. CASE Cardinality(T) = MaxTerms
    <3>1. Pool(e) = T /\ T # {}
      BY <1>1, <1>9, <2>1, FS_EmptySet DEF Pool
    <3>2. PICK o \in T : Oldest(e) = {o}
      BY <3>1, OldestProperties
    <3>3. QED
      BY <1>1, <1>2, <1>3, <3>2, OneLess
  <2>2. CASE Cardinality(T) # MaxTerms
    <3>1. Cardinality(T \ Oldest(e)) <= Cardinality(T) /\ Cardinality(T \ Oldest(e)) \in Nat
      BY <1>3, <1>6, FS_Subset, FS_CardinalityType
    <3>2. QED
      BY <1>1, <1>2, <2>2, <3>1
  <2>3. QED
    BY <2>1, <2>2
<1>10. Cardinality(Left \union {e}) <= MaxStored
    BY <1>1, <1>6, <1>7, OneMore
<1>11. CASE IsTerm(e)
  <2>1. Cardinality(LeftTerms \union {e}) <= MaxTerms
    BY <1>1, <1>6, <1>9, <1>11, OneMore
  <2>2. QED
    BY <1>4, <1>5, <1>10, <1>11, <2>1
<1>12. CASE ~IsTerm(e)
    BY <1>4, <1>5, <1>6, <1>8, <1>10, <1>12
<1>13. QED
    BY <1>11, <1>12

\* Links change nothing about which questions have a run.
LEMMA AttachKeepsBudgets ==
    ASSUME store \in Seq(Entries), StoreShape, NEW k \in Keys, NEW r \in Runs
    PROVE  /\ Cardinality(ToSet(Attach(k, r))) <= MaxStored
           /\ Cardinality({x \in ToSet(Attach(k, r)) : IsTerm(x)}) <= MaxTerms
<1>1. OneEach(store) /\ MaxStored \in Nat /\ MaxTerms \in Nat
    BY RunStoreAssumption DEF StoreShape
<1>2. CASE Attach(k, r) = store
    BY <1>2 DEF StoreShape, Stored
<1>3. ASSUME NEW o \in Stored,
             ToSet(Attach(k, r)) = (Stored \ {o}) \union {[o EXCEPT !.links = r]}
      PROVE  /\ Cardinality(ToSet(Attach(k, r))) <= MaxStored
             /\ Cardinality({x \in ToSet(Attach(k, r)) : IsTerm(x)}) <= MaxTerms
  <2> DEFINE new == [o EXCEPT !.links = r]
             T == {x \in Stored : IsTerm(x)}
  <2>1. IsFiniteSet(Stored)
    <3>1. Stored = {store[i] : i \in DOMAIN store}
      BY DEF Stored, ToSet
    <3>2. QED
      BY <1>1, <3>1, AsManyAsIndices
  <2>2. IsFiniteSet(T) /\ IsFiniteSet(Stored \ {o}) /\ IsFiniteSet(T \ {o})
    BY <2>1, FS_Subset
  <2>3. Cardinality(Stored \ {o}) < MaxStored
    BY <1>1, <2>1, OneLess DEF StoreShape
  <2>4. Cardinality((Stored \ {o}) \union {new}) <= MaxStored
    BY <1>1, <2>2, <2>3, OneMore
  <2>5. o \in Entries
    BY <1>3, ElementOfSeq, LenProperties DEF Stored, ToSet
  <2>6. new.key = o.key
    BY <2>5 DEF Entries
  <2>7. CASE IsTerm(o)
    <3>1. {x \in ToSet(Attach(k, r)) : IsTerm(x)} = (T \ {o}) \union {new}
      BY <1>3, <2>6, <2>7 DEF IsTerm
    <3>2. Cardinality(T \ {o}) < MaxTerms
      BY <1>1, <2>2, <2>7, OneLess DEF StoreShape
    <3>3. QED
      BY <1>1, <1>3, <2>2, <2>4, <3>1, <3>2, OneMore
  <2>8. CASE ~IsTerm(o)
    <3>1. {x \in ToSet(Attach(k, r)) : IsTerm(x)} = T
      BY <1>3, <2>6, <2>8 DEF IsTerm
    <3>2. QED
      BY <1>3, <2>4, <3>1 DEF StoreShape
  <2>9. QED
    BY <2>7, <2>8
<1>4. QED
    BY <1>1, <1>2, <1>3, AttachProperties

\* Every write leaves one run per question and both budgets kept.
LEMMA ShapeStep == TypeOK /\ StoreShape /\ [Next]_vars => StoreShape'
<1> SUFFICES ASSUME TypeOK, StoreShape, [Next]_vars PROVE StoreShape'
    OBVIOUS
<1>1. store \in Seq(Entries) /\ OneEach(store)
    BY DEF TypeOK, StoreShape
<1>2. ASSUME NEW e \in Entries, putRun(e) PROVE StoreShape'
    BY <1>1, <1>2, PutProperties, PutKeepsBudgets DEF StoreShape, OneEach, Stored, IsTerm, putRun
<1>3. ASSUME NEW k \in Keys, NEW r \in Runs, putItemUrls(k, r) PROVE StoreShape'
    BY <1>1, <1>3, AttachProperties, AttachKeepsBudgets
       DEF StoreShape, OneEach, Stored, IsTerm, putItemUrls
<1>4. CASE clearRuns
  <2>1. store' = <<>> /\ Stored' = {}
    BY <1>4 DEF clearRuns, Stored, ToSet
  <2>2. {x \in Stored' : IsTerm(x)} = {}
    BY <2>1
  <2>3. Cardinality({}) = 0 /\ MaxStored \in Nat /\ MaxTerms \in Nat
    BY FS_EmptySet, RunStoreAssumption
  <2>4. OneEach(store')
    BY <2>1 DEF OneEach
  <2>5. QED
    BY <2>1, <2>2, <2>3, <2>4 DEF StoreShape, OneEach, IsTerm
<1>5. ASSUME NEW r \in Runs, Lapse(r) PROVE StoreShape'
    BY <1>5 DEF StoreShape, OneEach, Stored, IsTerm, Lapse
<1>6. CASE UNCHANGED vars
    BY <1>6 DEF StoreShape, OneEach, Stored, IsTerm, vars
<1>7. QED
    BY <1>2, <1>3, <1>4, <1>5, <1>6 DEF Next

\* The empty store has its shape.
LEMMA ShapeInit == Init => TypeOK /\ StoreShape
<1>1. SUFFICES ASSUME Init PROVE TypeOK /\ StoreShape
    OBVIOUS
<1>2. Stored = {} /\ {x \in Stored : IsTerm(x)} = {}
    BY <1>1 DEF Init, Stored, ToSet
<1>3. Cardinality({}) = 0 /\ MaxStored \in Nat /\ MaxTerms \in Nat
    BY FS_EmptySet, RunStoreAssumption
<1>4. QED
    BY <1>1, <1>2, <1>3 DEF Init, TypeOK, StoreShape, OneEach

\* For any number of runs, questions and terms, and any budgets, the store keeps
\* its type and its shape: one run per question, neither budget exceeded.
THEOREM ShapeHolds == Spec => [](TypeOK /\ StoreShape)
<1>1. Init => TypeOK /\ StoreShape
    BY ShapeInit
<1>2. TypeOK /\ StoreShape /\ [Next]_vars => (TypeOK /\ StoreShape)'
    BY TypeStep, ShapeStep
<1>3. QED
    BY <1>1, <1>2, PTL DEF Spec

\* A write takes out its question's last run and the oldest of a full budget.
LEMMA PutEvictsOnly ==
    ASSUME TypeOK, StoreShape, NEW e \in Entries, putRun(e)
    PROVE  EvictsOnly(e)
<1>1. ToSet(store') = {e} \union {store[i] : i \in Others(e) \ Oldest(e)}
    BY PutProperties DEF putRun, TypeOK
<1>2. QED
    BY <1>1 DEF EvictsOnly, Oldest, Pool, TermsAmong, Others

\* A write costs its place at most the oldest run of a full budget, and the
\* oldest term if it is the terms' (agent-run-store.ts:316-319).
THEOREM EvictsInOrderHolds == Spec => EvictsInOrder
<1>1. TypeOK /\ StoreShape /\ [Next]_vars
         => [\A e \in Entries : putRun(e) => EvictsOnly(e)]_vars
    BY PutEvictsOnly
<1>2. QED
    BY <1>1, ShapeHolds, PTL DEF Spec, EvictsInOrder
============================================================================
