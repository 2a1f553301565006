-------------------------- MODULE PendList_proofs --------------------------
(***************************************************************************)
(* What the operators on lists of waiting tasks and on sorted lists return.*)
(* Nothing here is by induction: the rank of a position is an injection of *)
(* the positions kept into as many numbers, hence onto them.               *)
(***************************************************************************)
EXTENDS PendList, SortLink, SequencesExt, FiniteSetTheorems, SequenceTheorems,
        WellFoundedInduction, TLAPS

\* Ranks number the positions kept from 1 on, without gaps and without doubles.
LEMMA RankNumbers ==
  ASSUME NEW n \in Nat, NEW K \in SUBSET (1..n)
  PROVE  /\ IsFiniteSet(K) /\ Cardinality(K) \in Nat
         /\ \A i \in K : Rank(K, i) \in 1..Cardinality(K)
         /\ \A i, j \in K : Rank(K, i) = Rank(K, j) => i = j
         /\ \A i, j \in K : i < j => Rank(K, i) < Rank(K, j)
         /\ \A k \in 1..Cardinality(K) : \E i \in K : Rank(K, i) = k
<1> DEFINE upto(i) == {j \in K : j <= i}
           r == [i \in K |-> Rank(K, i)]
<1>0. \A i : Rank(K, i) = Cardinality(upto(i))
  BY DEF Rank
<1>1. IsFiniteSet(K) /\ Cardinality(K) \in Nat
  <2>1. IsFiniteSet(1..n)
    BY FS_Interval
  <2>2. IsFiniteSet(K)
    BY <2>1, FS_Subset
  <2> QED
    BY <2>2, FS_CardinalityType
<1>2. ASSUME NEW i \in K
      PROVE  IsFiniteSet(upto(i)) /\ Rank(K, i) \in 1..Cardinality(K)
  <2>1. upto(i) \in SUBSET K /\ i \in upto(i)
    OBVIOUS
  <2> HIDE DEF upto
  <2>2. /\ IsFiniteSet(upto(i)) /\ Cardinality(upto(i)) \in Nat
        /\ Cardinality(upto(i)) <= Cardinality(K)
    BY <1>1, <2>1, FS_Subset, FS_CardinalityType
  <2>3. Cardinality(upto(i)) # 0
    BY <2>1, <2>2, FS_EmptySet
  <2> QED
    BY <1>0, <1>1, <2>2, <2>3
<1>3. ASSUME NEW i \in K, NEW j \in K, i < j
      PROVE  Rank(K, i) < Rank(K, j)
  <2>1. \A l \in K : l <= i => l <= j
    BY <1>3
  <2>2. upto(i) \in SUBSET upto(j)
    BY <2>1
  <2>3. j \in upto(j) /\ j \notin upto(i)
    BY <1>3
  <2>4. upto(i) # upto(j)
    BY <2>3
  <2> HIDE DEF upto
  <2>5. /\ Cardinality(upto(i)) <= Cardinality(upto(j))
        /\ Cardinality(upto(i)) # Cardinality(upto(j))
    BY <1>2, <2>2, <2>4, FS_Subset
  <2> QED
    BY <1>0, <1>2, <2>5
<1> HIDE DEF upto
<1>4. ASSUME NEW i \in K, NEW j \in K, Rank(K, i) = Rank(K, j)
      PROVE  i = j
  <2>1. i = j \/ i < j \/ j < i
    OBVIOUS
  <2> QED
    BY <1>2, <1>3, <1>4, <2>1
<1>5. r \in Injection(K, 1..Cardinality(K))
  BY <1>2, <1>4 DEF Injection, IsInjective
<1>6. IsFiniteSet(1..Cardinality(K)) /\ Cardinality(1..Cardinality(K)) = Cardinality(K)
  BY <1>1, FS_Interval
<1>7. r \in Surjection(K, 1..Cardinality(K))
  <2> HIDE DEF r
  <2> QED
    BY <1>5, <1>6, FS_Injection
<1>8. \A k \in 1..Cardinality(K) : \E i \in K : Rank(K, i) = k
  BY <1>7 DEF Surjection
<1> QED
  BY <1>1, <1>2, <1>3, <1>4, <1>8

\* KeepAt returns a sequence of exactly the elements at the positions kept, one
\* for each position.
LEMMA KeepAtElements ==
  ASSUME NEW T, NEW s \in Seq(T), NEW K \in SUBSET DOMAIN s
  PROVE  /\ KeepAt(s, K) \in Seq(T)
         /\ Len(KeepAt(s, K)) = Cardinality(K)
         /\ \A k \in DOMAIN KeepAt(s, K) : \E i \in K : KeepAt(s, K)[k] = s[i]
         /\ \A i \in K : \E k \in DOMAIN KeepAt(s, K) : KeepAt(s, K)[k] = s[i]
         /\ IsInjective(s) => IsInjective(KeepAt(s, K))
<1> DEFINE at(k) == CHOOSE i \in K : Rank(K, i) = k
           f == [k \in 1..Cardinality(K) |-> s[at(k)]]
<1>0. Len(s) \in Nat /\ DOMAIN s = 1..Len(s)
  OBVIOUS
<1>1. /\ Cardinality(K) \in Nat
      /\ \A i \in K : Rank(K, i) \in 1..Cardinality(K)
      /\ \A i, j \in K : Rank(K, i) = Rank(K, j) => i = j
      /\ \A k \in 1..Cardinality(K) : \E i \in K : Rank(K, i) = k
  BY <1>0, RankNumbers
<1>2. \A k \in 1..Cardinality(K) : at(k) \in K /\ Rank(K, at(k)) = k
  BY <1>1
<1>3. KeepAt(s, K) = f
  BY DEF KeepAt
<1>4. \A i \in K : at(Rank(K, i)) = i
  BY <1>1, <1>2
<1> HIDE DEF at
<1>5. \A k \in 1..Cardinality(K) : s[at(k)] \in T
  BY <1>0, <1>2, ElementOfSeq
<1>6. f \in Seq(T) /\ Len(f) = Cardinality(K) /\ DOMAIN f = 1..Cardinality(K)
  BY <1>1, <1>5
<1>7. \A k \in DOMAIN f : f[k] = s[at(k)]
  BY <1>6
<1>8. ASSUME IsInjective(s) PROVE IsInjective(f)
  <2> SUFFICES ASSUME NEW k \in DOMAIN f, NEW l \in DOMAIN f, f[k] = f[l]
               PROVE  k = l
    BY DEF IsInjective
  <2>1. at(k) = at(l)
    BY <1>2, <1>6, <1>7, <1>8 DEF IsInjective
  <2> QED
    BY <1>2, <1>6, <2>1
<1>9. \A i \in K : \E k \in DOMAIN f : f[k] = s[i]
  BY <1>1, <1>4, <1>6, <1>7
<1>10. \A k \in DOMAIN f : \E i \in K : f[k] = s[i]
  BY <1>2, <1>6, <1>7
<1> HIDE DEF f
<1> QED
  BY <1>3, <1>6, <1>8, <1>9, <1>10

\* What is kept stays in its order.
LEMMA KeepAtOrder ==
  ASSUME NEW T, NEW s \in Seq(T), NEW K \in SUBSET DOMAIN s,
         NEW k \in DOMAIN KeepAt(s, K), NEW l \in DOMAIN KeepAt(s, K), k < l
  PROVE  \E i, j \in K : i < j /\ KeepAt(s, K)[k] = s[i] /\ KeepAt(s, K)[l] = s[j]
<1> DEFINE at(n) == CHOOSE i \in K : Rank(K, i) = n
<1>0. Len(s) \in Nat /\ DOMAIN s = 1..Len(s)
  OBVIOUS
<1>1. /\ Cardinality(K) \in Nat
      /\ \A i, j \in K : i < j => Rank(K, i) < Rank(K, j)
      /\ \A n \in 1..Cardinality(K) : \E i \in K : Rank(K, i) = n
  BY <1>0, RankNumbers
<1>2. \A n \in 1..Cardinality(K) : at(n) \in K /\ Rank(K, at(n)) = n
  BY <1>1
<1>3. KeepAt(s, K) = [n \in 1..Cardinality(K) |-> s[at(n)]]
  BY DEF KeepAt
<1> HIDE DEF at
<1>4. k \in 1..Cardinality(K) /\ l \in 1..Cardinality(K)
  BY <1>3
<1>5. KeepAt(s, K)[k] = s[at(k)] /\ KeepAt(s, K)[l] = s[at(l)]
  BY <1>3, <1>4
<1>6. at(k) \in K /\ at(l) \in K /\ Rank(K, at(k)) = k /\ Rank(K, at(l)) = l
  BY <1>2, <1>4
<1>7. at(l) < at(k) => l < k
  BY <1>1, <1>6
<1>8. at(k) # at(l)
  BY <1>4, <1>6
<1>9. at(k) < at(l)
  BY <1>0, <1>4, <1>6, <1>7, <1>8
<1> QED
  BY <1>5, <1>6, <1>9

\* Leave takes the tasks of ts out of the list, and nobody else.
LEMMA LeaveMembers ==
  ASSUME NEW T, NEW s \in Seq(T), NEW ts
  PROVE  /\ Leave(s, ts) \in Seq(T)
         /\ ToSet(Leave(s, ts)) = ToSet(s) \ ts
         /\ IsInjective(s) => IsInjective(Leave(s, ts))
<1> DEFINE K == {i \in DOMAIN s : s[i] \notin ts}
<1>1. K \in SUBSET DOMAIN s /\ Leave(s, ts) = KeepAt(s, K)
  BY DEF Leave
<1>2. /\ KeepAt(s, K) \in Seq(T)
      /\ \A k \in DOMAIN KeepAt(s, K) : \E i \in K : KeepAt(s, K)[k] = s[i]
      /\ \A i \in K : \E k \in DOMAIN KeepAt(s, K) : KeepAt(s, K)[k] = s[i]
      /\ IsInjective(s) => IsInjective(KeepAt(s, K))
  BY <1>1, KeepAtElements
<1>3. ASSUME NEW x \in ToSet(KeepAt(s, K)) PROVE x \in ToSet(s) \ ts
  <2>1. PICK k \in DOMAIN KeepAt(s, K) : x = KeepAt(s, K)[k]
    BY <1>3 DEF ToSet
  <2>2. PICK i \in K : x = s[i]
    BY <1>2, <2>1
  <2> QED
    BY <2>2 DEF ToSet
<1>4. ASSUME NEW x \in ToSet(s) \ ts PROVE x \in ToSet(KeepAt(s, K))
  <2>1. PICK i \in DOMAIN s : x = s[i]
    BY <1>4 DEF ToSet
  <2>2. i \in K
    BY <1>4, <2>1
  <2>3. PICK k \in DOMAIN KeepAt(s, K) : KeepAt(s, K)[k] = x
    BY <1>2, <2>1, <2>2
  <2> QED
    BY <2>3 DEF ToSet
<1> HIDE DEF K
<1>5. ToSet(KeepAt(s, K)) = ToSet(s) \ ts
  BY <1>3, <1>4
<1> QED
  BY <1>1, <1>2, <1>5

\* A list is empty exactly when nobody is on it.
LEMMA EmptyMembers ==
  ASSUME NEW T, NEW s \in Seq(T)
  PROVE  /\ s = << >> <=> ToSet(s) = {}
         /\ ToSet(s) \in SUBSET T
         /\ ToSet(<< >>) = {} /\ IsInjective(<< >>) /\ << >> \in Seq(T)
<1>1. s # << >> => 1 \in DOMAIN s
  OBVIOUS
<1>2. \A i \in DOMAIN s : s[i] \in T
  BY ElementOfSeq
<1>3. DOMAIN << >> = {} /\ << >> \in Seq(T)
  OBVIOUS
<1>4. ToSet(<< >>) = {} /\ IsInjective(<< >>)
  BY <1>3 DEF ToSet, IsInjective
<1>5. ToSet(s) \in SUBSET T
  BY <1>2 DEF ToSet
<1>6. s # << >> => ToSet(s) # {}
  BY <1>1 DEF ToSet
<1> QED
  BY <1>3, <1>4, <1>5, <1>6

\* A task that joins the list is its last.
LEMMA AppendMembers ==
  ASSUME NEW T, NEW s \in Seq(T), NEW t \in T
  PROVE  /\ Append(s, t) \in Seq(T)
         /\ ToSet(Append(s, t)) = ToSet(s) \cup {t}
         /\ IsInjective(s) /\ t \notin ToSet(s) => IsInjective(Append(s, t))
         /\ Append(s, t) # << >>
<1>1. /\ Append(s, t) \in Seq(T)
      /\ DOMAIN Append(s, t) = 1..(Len(s) + 1) /\ DOMAIN s = 1..Len(s)
      /\ Len(s) \in Nat
      /\ \A i \in 1..Len(s) : Append(s, t)[i] = s[i]
      /\ Append(s, t)[Len(s) + 1] = t
  BY AppendProperties, LenProperties
<1>2. ToSet(Append(s, t)) = ToSet(s) \cup {t}
  <2>1. ASSUME NEW x \in ToSet(Append(s, t)) PROVE x \in ToSet(s) \cup {t}
    <3>1. PICK i \in 1..(Len(s) + 1) : x = Append(s, t)[i]
      BY <1>1, <2>1 DEF ToSet
    <3>2. i \in 1..Len(s) \/ i = Len(s) + 1
      BY <1>1
    <3> QED
      BY <1>1, <3>1, <3>2 DEF ToSet
  <2>2. ASSUME NEW x \in ToSet(s) \cup {t} PROVE x \in ToSet(Append(s, t))
    <3>1. CASE x = t
      BY <1>1, <3>1 DEF ToSet
    <3>2. CASE x \in ToSet(s)
      BY <1>1, <3>2 DEF ToSet
    <3> QED
      BY <3>1, <3>2
  <2> QED
    BY <2>1, <2>2
<1>3. ASSUME IsInjective(s), t \notin ToSet(s) PROVE IsInjective(Append(s, t))
  <2>1. \A i \in 1..Len(s) : s[i] # t
    BY <1>1, <1>3 DEF ToSet
  <2>2. \A i \in 1..(Len(s) + 1) : i \in 1..Len(s) \/ i = Len(s) + 1
    BY <1>1
  <2> QED
    BY <1>1, <1>3, <2>1, <2>2 DEF IsInjective
<1> QED
  BY <1>1, <1>2, <1>3

\* The first task leaves the list, and only that task.
LEMMA TailMembers ==
  ASSUME NEW T, NEW s \in Seq(T), s # << >>, IsInjective(s)
  PROVE  /\ Tail(s) \in Seq(T) /\ Head(s) \in T
         /\ Head(s) \in ToSet(s)
         /\ ToSet(Tail(s)) = ToSet(s) \ {Head(s)}
         /\ IsInjective(Tail(s))
<1>1. /\ Tail(s) \in Seq(T) /\ Head(s) \in T /\ Head(s) = s[1]
      /\ Len(s) \in Nat /\ Len(s) >= 1 /\ DOMAIN s = 1..Len(s)
      /\ DOMAIN Tail(s) = 1..(Len(s) - 1)
      /\ \A i \in 1..(Len(s) - 1) : Tail(s)[i] = s[i + 1]
  OBVIOUS
<1>2. \A i \in 1..Len(s) : i = 1 \/ (i - 1 \in 1..(Len(s) - 1) /\ (i - 1) + 1 = i)
  BY <1>1
<1>3. \A i \in 1..(Len(s) - 1) : i + 1 \in 1..Len(s) /\ i + 1 # 1
  BY <1>1
<1>4. Head(s) \in ToSet(s)
  BY <1>1 DEF ToSet
<1>5. ToSet(Tail(s)) = ToSet(s) \ {Head(s)}
  <2>1. ASSUME NEW x \in ToSet(Tail(s)) PROVE x \in ToSet(s) \ {Head(s)}
    <3>1. PICK i \in 1..(Len(s) - 1) : x = s[i + 1]
      BY <1>1, <2>1 DEF ToSet
    <3> QED
      BY <1>1, <1>3, <3>1 DEF ToSet, IsInjective
  <2>2. ASSUME NEW x \in ToSet(s) \ {Head(s)} PROVE x \in ToSet(Tail(s))
    <3>1. PICK i \in 1..Len(s) : x = s[i]
      BY <1>1, <2>2 DEF ToSet
    <3>2. i - 1 \in 1..(Len(s) - 1) /\ Tail(s)[i - 1] = x
      BY <1>1, <1>2, <2>2, <3>1
    <3> QED
      BY <1>1, <3>2 DEF ToSet
  <2> QED
    BY <2>1, <2>2
<1>6. IsInjective(Tail(s))
  <2> SUFFICES ASSUME NEW i \in 1..(Len(s) - 1), NEW j \in 1..(Len(s) - 1),
                      s[i + 1] = s[j + 1]
               PROVE  i = j
    BY <1>1 DEF IsInjective
  <2>1. i + 1 = j + 1
    BY <1>1, <1>3 DEF IsInjective
  <2> QED
    BY <2>1
<1> QED
  BY <1>1, <1>4, <1>5, <1>6

\* Contains and ToSet say the same.
LEMMA ContainsToSet ==
  ASSUME NEW T, NEW s \in Seq(T), NEW t
  PROVE  Contains(s, t) <=> t \in ToSet(s)
<1>1. DOMAIN s = 1..Len(s)
  BY LenProperties
<1> QED
  BY <1>1 DEF Contains, ToSet
-----------------------------------------------------------------------------
(***************************************************************************)
(* How often an element occurs in a sequence.                              *)
(***************************************************************************)
Places(s, x) == {i \in DOMAIN s : s[i] = x}

LEMMA PlacesFinite ==
  ASSUME NEW T, NEW s \in Seq(T), NEW x
  PROVE  /\ Places(s, x) \in SUBSET (1..Len(s)) /\ Len(s) \in Nat
         /\ IsFiniteSet(Places(s, x)) /\ Cardinality(Places(s, x)) \in Nat
<1>1. Places(s, x) \in SUBSET (1..Len(s)) /\ Len(s) \in Nat
  BY LenProperties DEF Places
<1> QED
  BY <1>1, RankNumbers

\* A set of positions that is not empty has a last one.
LEMMA LastPosition ==
  ASSUME NEW n \in Nat, NEW K \in SUBSET (1..n), K # {}
  PROVE  Max(K) \in K /\ \A i \in K : i <= Max(K)
<1>1. Cardinality(K) \in Nat /\ Cardinality(K) # 0
  BY RankNumbers, FS_EmptySet
<1>2. PICK m \in K : Rank(K, m) = Cardinality(K)
  <2>1. Cardinality(K) \in 1..Cardinality(K)
    BY <1>1
  <2> QED
    BY <2>1, RankNumbers
<1>3. ASSUME NEW i \in K PROVE m >= i
  <2>1. CASE m < i
    <3>1. Rank(K, m) < Rank(K, i) /\ Rank(K, i) \in 1..Cardinality(K)
      BY <2>1, RankNumbers
    <3> QED
      BY <1>1, <1>2, <3>1
  <2> QED
    BY <2>1
<1>4. \E x \in K : \A y \in K : x >= y
  BY <1>3
<1> DEFINE M == CHOOSE x \in K : \A y \in K : x >= y
<1>5. M \in K /\ \A y \in K : M >= y
  BY <1>4
<1>6. Max(K) = M
  BY DEF Max
<1> HIDE DEF M
<1>7. Max(K) \in K /\ \A y \in K : Max(K) >= y
  BY <1>5, <1>6
<1> QED
  BY <1>7

LEMMA AppendPlaces ==
  ASSUME NEW T, NEW s \in Seq(T), NEW e \in T, NEW x
  PROVE  Cardinality(Places(Append(s, e), x)) =
           IF e = x THEN Cardinality(Places(s, x)) + 1 ELSE Cardinality(Places(s, x))
<1>1. /\ DOMAIN Append(s, e) = 1..(Len(s) + 1) /\ DOMAIN s = 1..Len(s)
      /\ Len(s) \in Nat
      /\ \A i \in 1..Len(s) : Append(s, e)[i] = s[i]
      /\ Append(s, e)[Len(s) + 1] = e
  BY AppendProperties, LenProperties
<1>2. /\ \A i \in 1..(Len(s) + 1) : i \in 1..Len(s) \/ i = Len(s) + 1
      /\ 1..Len(s) \subseteq 1..(Len(s) + 1)
      /\ Len(s) + 1 \in 1..(Len(s) + 1)
      /\ Len(s) + 1 \notin 1..Len(s)
  BY <1>1
<1>3. IsFiniteSet(Places(s, x)) /\ Len(s) + 1 \notin Places(s, x)
  BY <1>1, <1>2, PlacesFinite DEF Places
<1>4. CASE e = x
  <2>1. Places(Append(s, e), x) = Places(s, x) \cup {Len(s) + 1}
    BY <1>1, <1>2, <1>4 DEF Places
  <2> QED
    BY <1>3, <1>4, <2>1, FS_AddElement
<1>5. CASE e # x
  <2>1. Places(Append(s, e), x) = Places(s, x)
    BY <1>1, <1>2, <1>5 DEF Places
  <2> QED
    BY <1>5, <2>1
<1> QED
  BY <1>4, <1>5

\* RemoveAt closes the gap.
LEMMA RemoveAtValue ==
  ASSUME NEW T, NEW s \in Seq(T), NEW k \in DOMAIN s
  PROVE  /\ RemoveAt(s, k) \in Seq(T)
         /\ Len(s) \in Nat /\ DOMAIN s = 1..Len(s) /\ Len(s) >= 1
         /\ DOMAIN RemoveAt(s, k) = 1..(Len(s) - 1)
         /\ \A i \in 1..(Len(s) - 1) :
              RemoveAt(s, k)[i] = IF i < k THEN s[i] ELSE s[i + 1]
<1> DEFINE a == SubSeq(s, 1, k - 1)
           b == SubSeq(s, k + 1, Len(s))
<1>1. Len(s) \in Nat /\ DOMAIN s = 1..Len(s) /\ k \in 1..Len(s) /\ k \in Int
  BY LenProperties
<1>2. \A i \in 1..Len(s) : s[i] \in T
  BY <1>1, ElementOfSeq
<1>3. /\ a \in Seq(T) /\ Len(a) = k - 1
      /\ \A i \in 1..(k - 1) : a[i] = s[i]
  BY <1>1, <1>2
<1>4. /\ b \in Seq(T) /\ Len(b) = Len(s) - k
      /\ \A i \in 1..(Len(s) - k) : b[i] = s[(k + 1) + i - 1]
  <2>1. k + 1 \in Int /\ Len(s) \in Int /\ \A i \in (k + 1)..Len(s) : s[i] \in T
    BY <1>1, <1>2
  <2>2. /\ b \in Seq(T)
        /\ Len(b) = IF k + 1 <= Len(s) THEN Len(s) - (k + 1) + 1 ELSE 0
        /\ \A i \in 1..(Len(s) - (k + 1) + 1) : b[i] = s[(k + 1) + i - 1]
    BY <2>1, SubSeqProperties
  <2>3. Len(s) - (k + 1) + 1 = Len(s) - k /\ (~(k + 1 <= Len(s)) => Len(s) - k = 0)
    BY <1>1
  <2> QED
    BY <2>2, <2>3
<1>5. RemoveAt(s, k) = a \o b
  BY DEF RemoveAt
<1> HIDE DEF a, b
<1>6. /\ a \o b \in Seq(T)
      /\ Len(a \o b) = Len(s) - 1
      /\ \A i \in 1..(Len(s) - 1) :
            (a \o b)[i] = IF i <= k - 1 THEN a[i] ELSE b[i - (k - 1)]
  <2>1. Len(a) + Len(b) = Len(s) - 1
    BY <1>1, <1>3, <1>4
  <2>2. /\ a \o b \in Seq(T)
        /\ Len(a \o b) = Len(a) + Len(b)
        /\ \A i \in 1..(Len(a) + Len(b)) :
              (a \o b)[i] = IF i <= Len(a) THEN a[i] ELSE b[i - Len(a)]
    BY <1>3, <1>4, ConcatProperties
  <2> QED
    BY <1>3, <2>1, <2>2, Zenon
<1>7. ASSUME NEW i \in 1..(Len(s) - 1)
      PROVE  (a \o b)[i] = IF i < k THEN s[i] ELSE s[i + 1]
  <2>0. (a \o b)[i] = IF i <= k - 1 THEN a[i] ELSE b[i - (k - 1)]
    BY <1>6
  <2>1. CASE i < k
    <3>1. i <= k - 1 /\ i \in 1..(k - 1)
      BY <1>1, <2>1
    <3> QED
      BY <1>3, <2>0, <2>1, <3>1
  <2>2. CASE i >= k
    <3>1. /\ i - (k - 1) \in 1..(Len(s) - k)
          /\ (k + 1) + (i - (k - 1)) - 1 = i + 1
          /\ ~(i <= k - 1) /\ ~(i < k)
      BY <1>1, <2>2
    <3>2. b[i - (k - 1)] = s[(k + 1) + (i - (k - 1)) - 1]
      BY <1>4, <3>1, Zenon
    <3>3. (a \o b)[i] = b[i - (k - 1)]
      BY <2>0, <3>1, Zenon
    <3>4. (a \o b)[i] = s[i + 1]
      BY <3>1, <3>2, <3>3, Zenon
    <3> QED
      BY <3>1, <3>4, Zenon
  <2>3. i < k \/ i >= k
    BY <1>1
  <2> QED
    BY <2>1, <2>2, <2>3, Zenon
<1>8. DOMAIN (a \o b) = 1..(Len(s) - 1)
  BY <1>6, LenProperties
<1>9. Len(s) >= 1
  BY <1>1
<1> QED
  BY <1>1, <1>5, <1>6, <1>7, <1>8, <1>9

\* Taking one occurrence of an element out leaves one less of it, and as many of
\* every other.
LEMMA RemoveAtPlaces ==
  ASSUME NEW T, NEW s \in Seq(T), NEW k \in DOMAIN s, NEW x
  PROVE  Cardinality(Places(RemoveAt(s, k), x)) =
           IF s[k] = x THEN Cardinality(Places(s, x)) - 1 ELSE Cardinality(Places(s, x))
<1> DEFINE r == RemoveAt(s, k)
           A == Places(r, x)
           B == Places(s, x) \ {k}
           f == [i \in A |-> IF i < k THEN i ELSE i + 1]
<1>1. /\ r \in Seq(T)
      /\ Len(s) \in Nat /\ DOMAIN s = 1..Len(s) /\ Len(s) >= 1
      /\ DOMAIN r = 1..(Len(s) - 1)
      /\ \A i \in 1..(Len(s) - 1) : r[i] = IF i < k THEN s[i] ELSE s[i + 1]
  BY RemoveAtValue
<1> HIDE DEF r
<1>2. k \in 1..Len(s)
  BY <1>1
<1>3. \A i \in A : i \in 1..(Len(s) - 1) /\ r[i] = x
  BY <1>1 DEF Places
<1>4. \A i \in A : f[i] \in B
  <2> SUFFICES ASSUME NEW i \in A PROVE f[i] \in B
    OBVIOUS
  <2>1. i \in 1..(Len(s) - 1) /\ (IF i < k THEN s[i] ELSE s[i + 1]) = x
    BY <1>1, <1>3
  <2>2. CASE i < k
    BY <1>1, <1>2, <2>1, <2>2 DEF Places
  <2>3. CASE ~(i < k)
    <3>1. i + 1 \in 1..Len(s) /\ i + 1 # k /\ s[i + 1] = x
      BY <1>1, <1>2, <2>1, <2>3
    <3> QED
      BY <1>1, <2>3, <3>1 DEF Places
  <2> QED
    BY <2>2, <2>3
<1>5. \A i, j \in A : f[i] = f[j] => i = j
  <2> SUFFICES ASSUME NEW i \in A, NEW j \in A, f[i] = f[j] PROVE i = j
    OBVIOUS
  <2>1. i \in Nat /\ j \in Nat /\ k \in Nat
    BY <1>2, <1>3
  <2>2. (IF i < k THEN i ELSE i + 1) = (IF j < k THEN j ELSE j + 1)
    OBVIOUS
  <2> HIDE DEF f, A
  <2> QED
    BY <2>1, <2>2
<1>6. \A j \in B : \E i \in A : f[i] = j
  <2> SUFFICES ASSUME NEW j \in B PROVE \E i \in A : f[i] = j
    OBVIOUS
  <2>1. j \in 1..Len(s) /\ s[j] = x /\ j # k
    BY <1>1 DEF Places
  <2>2. CASE j < k
    <3>1. j \in 1..(Len(s) - 1)
      BY <1>2, <2>1, <2>2
    <3>2. j \in A
      BY <1>1, <2>1, <2>2, <3>1 DEF Places
    <3> QED
      BY <2>2, <3>2
  <2>3. CASE ~(j < k)
    <3>1. j - 1 \in 1..(Len(s) - 1) /\ ~(j - 1 < k) /\ (j - 1) + 1 = j
      BY <1>2, <2>1, <2>3
    <3>2. r[j - 1] = s[j]
      BY <1>1, <3>1
    <3>3. j - 1 \in A
      BY <1>1, <2>1, <3>1, <3>2 DEF Places
    <3> QED
      BY <3>1, <3>3
  <2> QED
    BY <2>2, <2>3
<1>7. f \in Bijection(A, B)
  BY <1>4, <1>5, <1>6 DEF Bijection, Injection, Surjection, IsInjective
<1>8. IsFiniteSet(A) /\ IsFiniteSet(Places(s, x)) /\ Cardinality(Places(s, x)) \in Nat
  BY <1>1, PlacesFinite
<1> HIDE DEF f, A
<1>9. Cardinality(B) = Cardinality(A)
  BY <1>7, <1>8, FS_Bijection DEF ExistsBijection
<1>10. k \in Places(s, x) <=> s[k] = x
  BY DEF Places
<1>11. Cardinality(B) = IF s[k] = x THEN Cardinality(Places(s, x)) - 1
                        ELSE Cardinality(Places(s, x))
  BY <1>8, <1>10, FS_RemoveElement
<1> QED
  BY <1>9, <1>11 DEF A, r

\* The sequence of the elements of a singleton.
LEMMA SetToSeqSingleton ==
  ASSUME NEW x
  PROVE  SetToSeq({x}) = <<x>>
<1>1. Cardinality({x}) = 1
  BY FS_Singleton
<1>2. SetToSeq({x}) = CHOOSE f \in [1..1 -> {x}] : IsInjective(f)
  BY <1>1 DEF SetToSeq
<1>3. \A f \in [1..1 -> {x}] : f = <<x>>
  OBVIOUS
<1>4. <<x>> \in [1..1 -> {x}] /\ IsInjective(<<x>>)
  BY DEF IsInjective
<1>5. (CHOOSE f \in [1..1 -> {x}] : IsInjective(f)) \in [1..1 -> {x}]
  BY <1>4
<1> QED
  BY <1>2, <1>3, <1>5
-----------------------------------------------------------------------------
(***************************************************************************)
(* Lists as sets without doubles: parts of a list, two lists in a row, the *)
(* list in reverse, and one more element somewhere in it.                  *)
(***************************************************************************)
LEMMA OnlyMembers ==
  ASSUME NEW T, NEW s \in Seq(T), NEW ts
  PROVE  /\ Only(s, ts) \in Seq(T)
         /\ ToSet(Only(s, ts)) = ToSet(s) \cap ts
         /\ IsInjective(s) => IsInjective(Only(s, ts))
<1> DEFINE K == {i \in DOMAIN s : s[i] \in ts}
<1>1. K \in SUBSET DOMAIN s /\ Only(s, ts) = KeepAt(s, K)
  BY DEF Only
<1>2. /\ KeepAt(s, K) \in Seq(T)
      /\ \A k \in DOMAIN KeepAt(s, K) : \E i \in K : KeepAt(s, K)[k] = s[i]
      /\ \A i \in K : \E k \in DOMAIN KeepAt(s, K) : KeepAt(s, K)[k] = s[i]
      /\ IsInjective(s) => IsInjective(KeepAt(s, K))
  BY <1>1, KeepAtElements
<1>3. ASSUME NEW x \in ToSet(KeepAt(s, K)) PROVE x \in ToSet(s) \cap ts
  <2>1. PICK k \in DOMAIN KeepAt(s, K) : x = KeepAt(s, K)[k]
    BY <1>3 DEF ToSet
  <2>2. PICK i \in K : x = s[i]
    BY <1>2, <2>1
  <2> QED
    BY <2>2 DEF ToSet
<1>4. ASSUME NEW x \in ToSet(s) \cap ts PROVE x \in ToSet(KeepAt(s, K))
  <2>1. PICK i \in DOMAIN s : x = s[i]
    BY <1>4 DEF ToSet
  <2>2. i \in K
    BY <1>4, <2>1
  <2>3. PICK k \in DOMAIN KeepAt(s, K) : KeepAt(s, K)[k] = x
    BY <1>2, <2>1, <2>2
  <2> QED
    BY <2>3 DEF ToSet
<1> HIDE DEF K
<1>5. ToSet(KeepAt(s, K)) = ToSet(s) \cap ts
  BY <1>3, <1>4
<1> QED
  BY <1>1, <1>2, <1>5

LEMMA ConcatMembers ==
  ASSUME NEW T, NEW s \in Seq(T), NEW u \in Seq(T)
  PROVE  /\ s \o u \in Seq(T)
         /\ ToSet(s \o u) = ToSet(s) \cup ToSet(u)
         /\ IsInjective(s) /\ IsInjective(u) /\ ToSet(s) \cap ToSet(u) = {}
              => IsInjective(s \o u)
<1> DEFINE r == s \o u
           m == Len(s)
           n == Len(u)
<1>1. /\ r \in Seq(T) /\ m \in Nat /\ n \in Nat
      /\ DOMAIN s = 1..m /\ DOMAIN u = 1..n /\ Len(r) = m + n
  BY ConcatProperties, LenProperties
<1>2. DOMAIN r = 1..(m + n)
  BY <1>1, LenProperties
<1>3. \A i \in 1..(m + n) : r[i] = IF i <= m THEN s[i] ELSE u[i - m]
  BY ConcatProperties
<1> HIDE DEF r, m, n
<1>4. ToSet(r) \subseteq ToSet(s) \cup ToSet(u)
  <2> SUFFICES ASSUME NEW i \in 1..(m + n)
               PROVE  r[i] \in ToSet(s) \cup ToSet(u)
    BY <1>2 DEF ToSet
  <2>1. CASE i <= m
    <3>1. i \in DOMAIN s /\ r[i] = s[i]
      BY <1>1, <1>3, <2>1
    <3> QED
      BY <3>1 DEF ToSet
  <2>2. CASE ~(i <= m)
    <3>1. i - m \in DOMAIN u /\ r[i] = u[i - m]
      BY <1>1, <1>3, <2>2
    <3> QED
      BY <3>1 DEF ToSet
  <2> QED
    BY <2>1, <2>2
<1>5. ToSet(s) \subseteq ToSet(r)
  <2> SUFFICES ASSUME NEW i \in DOMAIN s PROVE s[i] \in ToSet(r)
    BY DEF ToSet
  <2>1. i \in DOMAIN r /\ r[i] = s[i]
    BY <1>1, <1>2, <1>3
  <2> QED
    BY <2>1 DEF ToSet
<1>6. ToSet(u) \subseteq ToSet(r)
  <2> SUFFICES ASSUME NEW i \in DOMAIN u PROVE u[i] \in ToSet(r)
    BY DEF ToSet
  <2>1. i + m \in 1..(m + n) /\ ~(i + m <= m) /\ (i + m) - m = i
    BY <1>1
  <2>2. i + m \in DOMAIN r /\ r[i + m] = u[i]
    BY <1>2, <1>3, <2>1
  <2> QED
    BY <2>2 DEF ToSet
<1>7. ASSUME IsInjective(s), IsInjective(u), ToSet(s) \cap ToSet(u) = {}
      PROVE  IsInjective(r)
  <2> SUFFICES ASSUME NEW i \in 1..(m + n), NEW j \in 1..(m + n), r[i] = r[j]
               PROVE  i = j
    BY <1>2 DEF IsInjective
  <2>0. ASSUME NEW k \in 1..(m + n)
        PROVE  \/ k <= m /\ k \in DOMAIN s /\ r[k] = s[k] /\ r[k] \in ToSet(s)
               \/ k > m /\ k - m \in DOMAIN u /\ r[k] = u[k - m] /\ r[k] \in ToSet(u)
    <3>1. CASE k <= m
      <4>1. k \in DOMAIN s /\ r[k] = s[k]
        BY <1>1, <1>3, <3>1
      <4> QED
        BY <4>1, <3>1 DEF ToSet
    <3>2. CASE ~(k <= m)
      <4>1. k > m /\ k - m \in DOMAIN u /\ r[k] = u[k - m]
        BY <1>1, <1>3, <3>2
      <4> QED
        BY <4>1 DEF ToSet
    <3> QED
      BY <3>1, <3>2
  <2>1. CASE i <= m /\ j <= m
    <3>1. i \in DOMAIN s /\ j \in DOMAIN s /\ s[i] = s[j]
      BY <1>1, <1>3, <2>1
    <3> QED
      BY <3>1, <1>7 DEF IsInjective
  <2>2. CASE i > m /\ j > m
    <3>1. i - m \in DOMAIN u /\ j - m \in DOMAIN u /\ u[i - m] = u[j - m]
      BY <1>1, <1>3, <2>2
    <3>2. i - m = j - m
      BY <3>1, <1>7 DEF IsInjective
    <3> QED
      BY <3>2, <1>1
  <2>3. (i <= m /\ j <= m) \/ (i > m /\ j > m)
    <3>1. r[i] \in ToSet(s) => ~(r[j] \in ToSet(u))
      BY <1>7
    <3>2. r[j] \in ToSet(s) => ~(r[i] \in ToSet(u))
      BY <1>7
    <3> QED
      BY <2>0, <3>1, <3>2
  <2> QED
    BY <2>1, <2>2, <2>3
<1> QED
  BY <1>1, <1>4, <1>5, <1>6, <1>7 DEF r

LEMMA ReverseMembers ==
  ASSUME NEW T, NEW s \in Seq(T)
  PROVE  /\ Reverse(s) \in Seq(T)
         /\ ToSet(Reverse(s)) = ToSet(s)
         /\ IsInjective(s) => IsInjective(Reverse(s))
<1> DEFINE n == Len(s)
           r == Reverse(s)
<1>1. n \in Nat /\ DOMAIN s = 1..n
  BY LenProperties
<1>2. r = [i \in 1..n |-> s[(n - i) + 1]]
  BY DEF Reverse
<1>3. \A i \in 1..n : (n - i) + 1 \in 1..n
  BY <1>1
<1>4. \A i \in 1..n : s[(n - i) + 1] \in T
  BY <1>3, ElementOfSeq
<1> HIDE DEF r, n
<1>5. r \in Seq(T) /\ DOMAIN r = 1..n
  BY <1>1, <1>2, <1>4
<1>6. \A i \in 1..n : r[i] = s[(n - i) + 1]
  BY <1>2
<1>7. \A i \in 1..n : r[(n - i) + 1] = s[i]
  <2> TAKE i \in 1..n
  <2>1. (n - i) + 1 \in 1..n /\ (n - ((n - i) + 1)) + 1 = i
    BY <1>1
  <2>2. r[(n - i) + 1] = s[(n - ((n - i) + 1)) + 1]
    BY <1>6, <2>1
  <2> QED
    BY <2>1, <2>2
<1>8. ToSet(r) = ToSet(s)
  <2>1. ASSUME NEW i \in 1..n PROVE r[i] \in ToSet(s) /\ s[i] \in ToSet(r)
    BY <1>1, <1>3, <1>5, <1>6, <1>7 DEF ToSet
  <2> QED
    BY <2>1, <1>1, <1>5 DEF ToSet
<1>9. ASSUME IsInjective(s) PROVE IsInjective(r)
  <2> SUFFICES ASSUME NEW i \in 1..n, NEW j \in 1..n, r[i] = r[j] PROVE i = j
    BY <1>5 DEF IsInjective
  <2>1. (n - i) + 1 = (n - j) + 1
    BY <1>1, <1>3, <1>6, <1>9 DEF IsInjective
  <2> QED
    BY <2>1, <1>1
<1> QED
  BY <1>5, <1>8, <1>9 DEF r

LEMMA InsertAtMembers ==
  ASSUME NEW T, NEW s \in Seq(T), NEW k \in 1..(Len(s) + 1), NEW e \in T
  PROVE  /\ InsertAt(s, k, e) \in Seq(T)
         /\ DOMAIN InsertAt(s, k, e) = 1..(Len(s) + 1)
         /\ Len(s) \in Nat /\ DOMAIN s = 1..Len(s)
         /\ \A i \in 1..(Len(s) + 1) :
              InsertAt(s, k, e)[i] = IF i < k THEN s[i] ELSE IF i = k THEN e ELSE s[i - 1]
<1> DEFINE a == SubSeq(s, 1, k - 1)
           b == SubSeq(s, k, Len(s))
           n == Len(s)
<1>1. n \in Nat /\ DOMAIN s = 1..n
  BY LenProperties
<1>2. /\ a \in Seq(T) /\ Len(a) = k - 1
      /\ \A i \in 1..(k - 1) : a[i] = s[i]
  BY <1>1
<1>3. /\ b \in Seq(T) /\ Len(b) = n - k + 1
      /\ \A i \in 1..(n - k + 1) : b[i] = s[k + i - 1]
  BY <1>1
<1>4. <<e>> \in Seq(T) /\ Len(<<e>>) = 1 /\ <<e>>[1] = e
  OBVIOUS
<1> DEFINE c == a \o <<e>>
<1>5. /\ c \in Seq(T) /\ Len(c) = k
      /\ \A i \in 1..k : c[i] = IF i <= k - 1 THEN a[i] ELSE <<e>>[i - (k - 1)]
  <2>1. c \in Seq(T) /\ Len(c) = Len(a) + Len(<<e>>)
    BY <1>2, <1>4, ConcatProperties
  <2>2. \A i \in 1..(Len(a) + Len(<<e>>)) :
          c[i] = IF i <= Len(a) THEN a[i] ELSE <<e>>[i - Len(a)]
    BY <1>2, <1>4, ConcatProperties
  <2>3. Len(a) + Len(<<e>>) = k
    BY <1>1, <1>2, <1>4
  <2> QED
    BY <2>1, <2>2, <2>3, <1>2
<1> HIDE DEF c
<1>6. /\ c \o b \in Seq(T) /\ Len(c \o b) = n + 1
      /\ \A i \in 1..(n + 1) : (c \o b)[i] = IF i <= k THEN c[i] ELSE b[i - k]
  <2>1. c \o b \in Seq(T) /\ Len(c \o b) = Len(c) + Len(b)
    BY <1>3, <1>5, ConcatProperties
  <2>2. \A i \in 1..(Len(c) + Len(b)) :
          (c \o b)[i] = IF i <= Len(c) THEN c[i] ELSE b[i - Len(c)]
    BY <1>3, <1>5, ConcatProperties
  <2>3. Len(c) + Len(b) = n + 1
    BY <1>1, <1>3, <1>5
  <2> QED
    BY <2>1, <2>2, <2>3, <1>5
<1>7. InsertAt(s, k, e) = c \o b
  BY DEF InsertAt, c
<1>8. ASSUME NEW i \in 1..(n + 1)
      PROVE  (c \o b)[i] = IF i < k THEN s[i] ELSE IF i = k THEN e ELSE s[i - 1]
  <2>1. CASE i < k
    <3>1. i \in 1..k /\ i <= k /\ i <= k - 1 /\ i \in 1..(k - 1)
      BY <1>1, <2>1
    <3> QED
      BY <3>1, <2>1, <1>6, <1>5, <1>2
  <2>2. CASE i = k
    <3>1. i \in 1..k /\ i <= k /\ ~(i <= k - 1) /\ i - (k - 1) = 1
      BY <1>1, <2>2
    <3>2. (c \o b)[i] = c[i]
      BY <3>1, <1>6
    <3>3. c[i] = <<e>>[i - (k - 1)]
      BY <3>1, <1>5
    <3>4. c[i] = e
      BY <3>1, <3>3, <1>4
    <3>5. ~(i < k)
      BY <2>2, <1>1
    <3> QED
      BY <3>2, <3>4, <3>5, <2>2
  <2>3. CASE i > k
    <3>1. ~(i <= k) /\ ~(i < k) /\ i # k /\ i - k \in 1..(n - k + 1)
          /\ k + (i - k) - 1 = i - 1
      BY <1>1, <2>3
    <3>2. (c \o b)[i] = b[i - k] /\ b[i - k] = s[k + (i - k) - 1]
      BY <3>1, <1>6, <1>3
    <3> QED
      BY <3>1, <3>2
  <2>4. i < k \/ i = k \/ i > k
    BY <1>1
  <2> QED
    BY <2>1, <2>2, <2>3, <2>4
<1>9. DOMAIN (c \o b) = 1..(n + 1)
  BY <1>6, LenProperties
<1> QED
  BY <1>1, <1>6, <1>7, <1>8, <1>9

\* OsAddNode2SortLink puts a node where it belongs: a sorted list stays sorted.
LEMMA LinkedPlace ==
  ASSUME NEW T, \A x \in T : x.left \in Int, NEW link \in Seq(T), NEW node \in T,
         \A i, j \in DOMAIN link : i < j => link[i].left <= link[j].left
  PROVE  /\ Linked(link, node) \in Seq(T)
         /\ Len(link) \in Nat /\ DOMAIN link = 1..Len(link)
         /\ DOMAIN Linked(link, node) = 1..(Len(link) + 1)
         /\ \E k \in 1..(Len(link) + 1) : \A i \in 1..(Len(link) + 1) :
              \/ i < k /\ i \in 1..Len(link) /\ Linked(link, node)[i] = link[i]
              \/ i = k /\ Linked(link, node)[i] = node
              \/ i > k /\ i - 1 \in 1..Len(link) /\ Linked(link, node)[i] = link[i - 1]
         /\ \A i, j \in DOMAIN Linked(link, node) :
              i < j => Linked(link, node)[i].left <= Linked(link, node)[j].left
<1> DEFINE notLater == {i \in DOMAIN link : link[i].left <= node.left}
           behind == IF link = <<>> \/ Head(link).left > node.left THEN 0
                     ELSE IF Head(link).left = node.left THEN 1
                     ELSE Max(notLater)
           k == behind + 1
           r == InsertAt(link, k, node)
           n == Len(link)
<1>0. link \in Seq(T)
  OBVIOUS
<1>1. /\ n \in Nat /\ DOMAIN link = 1..n
      /\ \A i \in 1..n : link[i].left \in Int
  BY LenProperties, ElementOfSeq
<1>2. node.left \in Int
  OBVIOUS
<1>3. \A i, j \in 1..n : i < j => link[i].left <= link[j].left
  BY <1>1
<1>4. /\ behind \in 0..n
      /\ \A i \in 1..n : i <= behind => link[i].left <= node.left
      /\ \A i \in 1..n : i > behind => node.left <= link[i].left
  <2>1. link = <<>> => n = 0
    BY <1>0
  <2>2. link # <<>> => n >= 1 /\ Head(link) = link[1] /\ 1 \in 1..n
    BY <1>0, <1>1
  <2>3. CASE link = <<>>
    BY <2>1, <2>3, <1>1
  <2>4. CASE link # <<>> /\ Head(link).left > node.left
    <3>1. behind = 0
      BY <2>4
    <3>2. \A i \in 1..n : link[1].left <= link[i].left
      BY <1>1, <1>3, <2>2, <2>4
    <3>3. \A i \in 1..n : node.left <= link[i].left
      BY <1>1, <1>2, <2>2, <2>4, <3>2
    <3> HIDE DEF behind
    <3> QED
      BY <3>1, <3>3, <1>1
  <2>5. CASE link # <<>> /\ Head(link).left = node.left
    <3>1. behind = 1
      BY <2>5, <1>2
    <3>2. \A i \in 1..n : link[1].left <= link[i].left
      BY <1>1, <1>3, <2>2, <2>5
    <3>3. \A i \in 1..n : node.left <= link[i].left
      BY <1>1, <1>2, <2>2, <2>5, <3>2
    <3>4. \A i \in 1..n : i <= 1 => link[i].left <= node.left
      BY <1>1, <1>2, <2>2, <2>5
    <3> HIDE DEF behind
    <3> QED
      BY <3>1, <3>3, <3>4, <1>1, <2>2, <2>5
  <2>6. CASE link # <<>> /\ Head(link).left < node.left
    <3>1. behind = Max(notLater)
      BY <2>6, <1>1, <1>2, <2>2
    <3>2. 1 \in notLater /\ notLater \in SUBSET (1..n)
      BY <1>1, <1>2, <2>2, <2>6
    <3>3. behind \in notLater /\ \A i \in notLater : i <= behind
      <4> HIDE DEF notLater, behind
      <4> QED
        BY <3>1, <3>2, <1>1, LastPosition
    <3>4. behind \in 1..n /\ link[behind].left <= node.left
      BY <3>3, <1>1
    <3> HIDE DEF behind
    <3>5. ASSUME NEW i \in 1..n, i <= behind PROVE link[i].left <= node.left
      <4>1. i = behind \/ link[i].left <= link[behind].left
        BY <3>4, <3>5, <1>1, <1>3
      <4> QED
        BY <4>1, <3>4, <1>1, <1>2
    <3>6. ASSUME NEW i \in 1..n, i > behind PROVE node.left <= link[i].left
      <4>1. i \notin notLater
        BY <3>3, <3>4, <3>6, <1>1
      <4> QED
        BY <4>1, <1>1, <1>2
    <3> QED
      BY <3>4, <3>5, <3>6, <1>1
  <2> HIDE DEF behind, notLater
  <2>7. link = <<>> \/ Head(link).left \in Int
    BY <2>2, <1>1
  <2>8. link = <<>> \/ Head(link).left > node.left \/ Head(link).left = node.left
          \/ Head(link).left < node.left
    BY <2>7, <1>2
  <2> QED
    BY <2>3, <2>4, <2>5, <2>6, <2>8
<1>5. Linked(link, node) = r
  BY DEF Linked
<1> HIDE DEF behind, notLater
<1>6. k \in 1..(n + 1) /\ k - 1 = behind
  BY <1>1, <1>4
<1>7. /\ r \in Seq(T) /\ DOMAIN r = 1..(n + 1)
      /\ \A i \in 1..(n + 1) : r[i] = IF i < k THEN link[i] ELSE IF i = k THEN node
                                                       ELSE link[i - 1]
  <2> HIDE DEF k
  <2> QED
    BY <1>0, <1>6, InsertAtMembers
<1> HIDE DEF r, k
<1>8. ASSUME NEW i \in 1..(n + 1)
      PROVE  \/ i < k /\ i \in 1..n /\ r[i] = link[i]
             \/ i = k /\ r[i] = node
             \/ i > k /\ i - 1 \in 1..n /\ r[i] = link[i - 1]
  <2>1. i < k \/ i = k \/ i > k
    BY <1>1, <1>6
  <2>2. CASE i < k
    BY <2>2, <1>1, <1>6, <1>7
  <2>3. CASE i = k
    <3>1. ~(i < k)
      BY <2>3, <1>1, <1>6
    <3> QED
      BY <3>1, <2>3, <1>7
  <2>4. CASE i > k
    <3>1. ~(i < k) /\ i # k /\ i - 1 \in 1..n
      BY <2>4, <1>1, <1>6
    <3> QED
      BY <3>1, <2>4, <1>7
  <2> QED
    BY <2>1, <2>2, <2>3, <2>4
<1>9. \A i, j \in 1..(n + 1) : i < j => r[i].left <= r[j].left
  <2> SUFFICES ASSUME NEW i \in 1..(n + 1), NEW j \in 1..(n + 1), i < j
               PROVE  r[i].left <= r[j].left
    OBVIOUS
  <2>1. \A a \in 1..n : a < k => link[a].left <= node.left
    BY <1>1, <1>4, <1>6
  <2>2. \A a \in 1..n : a >= k => node.left <= link[a].left
    BY <1>1, <1>4, <1>6
  <2>3. CASE j < k
    <3>1. i \in 1..n /\ j \in 1..n /\ r[i] = link[i] /\ r[j] = link[j]
      BY <2>3, <1>1, <1>6, <1>7
    <3> QED
      BY <3>1, <1>3
  <2>4. CASE j = k
    <3>1. i \in 1..n /\ i < k /\ r[i] = link[i] /\ r[j] = node
      BY <2>4, <1>1, <1>6, <1>8
    <3> QED
      BY <3>1, <2>1
  <2>5. CASE j > k
    <3>1. j - 1 \in 1..n /\ r[j] = link[j - 1] /\ j - 1 >= k
      BY <2>5, <1>1, <1>6, <1>8
    <3>2. CASE i < k
      <4>1. i \in 1..n /\ r[i] = link[i] /\ i < j - 1
        BY <3>1, <3>2, <1>1, <1>6, <1>8
      <4> QED
        BY <3>1, <4>1, <1>3
    <3>3. CASE i = k
      <4>1. r[i] = node
        BY <3>3, <1>8, <1>1, <1>6
      <4> QED
        BY <3>1, <4>1, <2>2
    <3>4. CASE i > k
      <4>1. i - 1 \in 1..n /\ r[i] = link[i - 1] /\ i - 1 < j - 1
        BY <3>4, <1>1, <1>6, <1>8
      <4> QED
        BY <3>1, <4>1, <1>3
    <3> QED
      BY <3>2, <3>3, <3>4, <1>1, <1>6
  <2> QED
    BY <2>3, <2>4, <2>5, <1>1, <1>6
<1>10. \E l \in 1..(n + 1) : \A i \in 1..(n + 1) :
         \/ i < l /\ i \in 1..n /\ r[i] = link[i]
         \/ i = l /\ r[i] = node
         \/ i > l /\ i - 1 \in 1..n /\ r[i] = link[i - 1]
  BY <1>6, <1>8
<1> QED
  BY <1>1, <1>5, <1>7, <1>9, <1>10

\* Among natural numbers there is a least one.
LEMMA LeastNatural ==
  ASSUME NEW S \in SUBSET Nat, S # {}
  PROVE  Min(S) \in S /\ \A n \in S : Min(S) <= n
<1> DEFINE R == OpToRel(<, Nat)
<1>1. PICK m \in S : \A y \in S : ~(<<y, m>> \in R)
  BY NatLessThanWellFounded, WFMin
<1>2. \A y \in S : ~(y < m)
  BY <1>1 DEF OpToRel
<1>3. \A y \in S : m <= y
  BY <1>2
<1> QED
  BY <1>3 DEF Min

=============================================================================
