------------------------- MODULE OrderedDicts_proofs ------------------------
(***************************************************************************)
(* What restricting, popping, appending and concatenating does to the      *)
(* elements of a dictionary.                                               *)
(***************************************************************************)
EXTENDS OrderedDicts, FiniteSetTheorems, SequenceTheorems, TLAPS

(* Ranks: the positions in D are numbered 1 .. Cardinality(D) in order.    *)
LEMMA RankBijection ==
  ASSUME NEW n \in Nat, NEW D \in SUBSET (1 .. n)
  PROVE  LET m == Cardinality(D)
             rank == [i \in D |-> Cardinality({j \in D : j <= i})]
         IN  /\ m \in Nat
             /\ rank \in [D -> 1 .. m]
             /\ IsInjective(rank)
             /\ \A k \in 1 .. m : \E i \in D : rank[i] = k
<1> DEFINE m == Cardinality(D)
           below(i) == {j \in D : j <= i}
           rank == [i \in D |-> Cardinality(below(i))]
<1>1. IsFiniteSet(D) /\ m \in Nat
  <2>1. IsFiniteSet(1 .. n)
    BY FS_Interval
  <2>2. IsFiniteSet(D)
    BY <2>1, FS_Subset
  <2> QED
    BY <2>2, FS_CardinalityType
<1>2. ASSUME NEW i \in D
      PROVE  /\ IsFiniteSet(below(i)) /\ Cardinality(below(i)) \in 1 .. m
  <2>1. below(i) \in SUBSET D
    OBVIOUS
  <2>2. IsFiniteSet(below(i)) /\ Cardinality(below(i)) <= m
    BY <1>1, <2>1, FS_Subset
  <2>3. Cardinality(below(i)) \in Nat /\ Cardinality(below(i)) # 0
    <3>1. i \in below(i)
      OBVIOUS
    <3>2. QED
      BY <2>2, <3>1, FS_CardinalityType, FS_EmptySet
  <2>4. QED
    BY <2>2, <2>3, <1>1
<1>3. rank \in [D -> 1 .. m]
  BY <1>2
<1>4. ASSUME NEW i \in D, NEW j \in D, i < j
      PROVE  rank[i] # rank[j]
  <2>1. below(i) \in SUBSET below(j) /\ j \in below(j) /\ j \notin below(i)
    <3>1. \A x \in D : x \in Int
      OBVIOUS
    <3>2. \A x \in D : x <= i => x <= j
      BY <1>4, <3>1
    <3>3. j <= j /\ ~(j <= i)
      BY <1>4, <3>1
    <3> QED
      BY <3>2, <3>3
  <2>2. below(i) # below(j)
    BY <2>1
  <2>3. Cardinality(below(j)) # Cardinality(below(i))
    BY <2>1, <2>2, <1>2, FS_Subset
  <2>4. QED
    BY <2>3
<1>5. IsInjective(rank)
  <2>1. \A i, j \in D : i < j \/ i = j \/ j < i
    OBVIOUS
  <2>2. \A i, j \in D : rank[i] = rank[j] => i = j
    BY <1>4, <2>1
  <2>3. DOMAIN rank = D
    OBVIOUS
  <2> HIDE DEF rank
  <2> QED
    BY <2>2, <2>3 DEF IsInjective
<1>6. rank \in Surjection(D, 1 .. m)
  <2>1. rank \in Injection(D, 1 .. m)
    BY <1>3, <1>5 DEF Injection
  <2>2. IsFiniteSet(1 .. m) /\ Cardinality(1 .. m) = m
    BY <1>1, FS_Interval
  <2> HIDE DEF rank
  <2> QED
    BY <2>1, <2>2, FS_Injection
<1>7. \A k \in 1 .. m : \E i \in D : rank[i] = k
  BY <1>6 DEF Surjection
<1> QED
  BY <1>1, <1>3, <1>5, <1>7

(* Kept(s, S) holds exactly the elements of s in S, and repeats nothing.   *)
LEMMA KeptFacts ==
  ASSUME NEW T, NEW s \in Seq(T), NEW S
  PROVE  /\ Kept(s, S) \in Seq(T)
         /\ Range(Kept(s, S)) = Range(s) \cap S
         /\ IsInjective(s) => IsInjective(Kept(s, S))
<1> DEFINE D == {i \in 1 .. Len(s) : s[i] \in S}
           m == Cardinality(D)
           rank == [i \in D |-> Cardinality({j \in D : j <= i})]
           pick == [k \in 1 .. m |-> CHOOSE i \in D : Cardinality({j \in D : j <= i}) = k]
           t == [k \in 1 .. m |-> s[pick[k]]]
<1>1. Len(s) \in Nat /\ D \in SUBSET (1 .. Len(s)) /\ DOMAIN s = 1 .. Len(s)
  BY LenProperties
<1>2. /\ m \in Nat
      /\ rank \in [D -> 1 .. m]
      /\ IsInjective(rank)
      /\ \A k \in 1 .. m : \E i \in D : rank[i] = k
  BY <1>1, RankBijection
<1>3. Kept(s, S) = t
  BY DEF Kept
<1>4. ASSUME NEW k \in 1 .. m
      PROVE  pick[k] \in D /\ rank[pick[k]] = k
  <2>1. \E i \in D : Cardinality({j \in D : j <= i}) = k
    BY <1>2
  <2> QED
    BY <2>1
<1>5. ASSUME NEW i \in D
      PROVE  \E k \in 1 .. m : pick[k] = i
  <2>1. rank[i] \in 1 .. m
    BY <1>2
  <2>2. rank[pick[rank[i]]] = rank[i] /\ pick[rank[i]] \in D
    BY <2>1, <1>4
  <2>3. DOMAIN rank = D
    OBVIOUS
  <2> HIDE DEF rank, pick, m
  <2> QED
    BY <2>1, <2>2, <2>3, <1>2 DEF IsInjective
<1> HIDE DEF rank, pick, m
<1>6. DOMAIN t = 1 .. m /\ \A k \in 1 .. m : t[k] = s[pick[k]] /\ pick[k] \in D
  BY <1>4
<1>7. t \in Seq(T)
  <2>1. \A k \in 1 .. m : t[k] \in T
    BY <1>6, <1>1, ElementOfSeq
  <2> QED
    BY <2>1, <1>2, <1>6 DEF Seq
<1>8. Range(t) = Range(s) \cap S
  <2>1. ASSUME NEW x \in Range(t) PROVE x \in Range(s) \cap S
    BY <1>6, <1>1 DEF Range
  <2>2. ASSUME NEW x \in Range(s) \cap S PROVE x \in Range(t)
    <3>1. PICK i \in D : s[i] = x
      BY <1>1 DEF Range
    <3>2. PICK k \in 1 .. m : pick[k] = i
      BY <1>5
    <3> QED
      BY <3>1, <3>2, <1>6 DEF Range
  <2> QED
    BY <2>1, <2>2
<1>9. IsInjective(s) => IsInjective(t)
  <2> SUFFICES ASSUME IsInjective(s), NEW a \in 1 .. m, NEW b \in 1 .. m, t[a] = t[b]
               PROVE  a = b
    BY <1>6 DEF IsInjective
  <2>1. pick[a] = pick[b]
    BY <1>6, <1>1 DEF IsInjective
  <2> QED
    BY <2>1, <1>4
<1> QED
  BY <1>3, <1>7, <1>8, <1>9

(* The first element of s stays the first one, if it is kept at all. *)
LEMMA KeptHead ==
  ASSUME NEW T, NEW s \in Seq(T), s # <<>>, NEW S, Head(s) \in S
  PROVE  Kept(s, S) # <<>> /\ Head(Kept(s, S)) = Head(s)
<1> DEFINE D == {i \in 1 .. Len(s) : s[i] \in S}
           m == Cardinality(D)
           rank == [i \in D |-> Cardinality({j \in D : j <= i})]
<1>1. /\ Len(s) \in Nat /\ Len(s) # 0 /\ Head(s) = s[1] /\ D \in SUBSET (1 .. Len(s))
  BY LenProperties, EmptySeq
<1>2. m \in Nat /\ rank \in [D -> 1 .. m] /\ IsInjective(rank)
  BY <1>1, RankBijection
<1>3. 1 \in D /\ {j \in D : j <= 1} = {1}
  BY <1>1
<1>4. rank[1] = 1
  BY <1>3, FS_Singleton
<1>5. 1 \in 1 .. m
  BY <1>2, <1>3, <1>4
<1>6. ASSUME NEW i \in D, Cardinality({j \in D : j <= i}) = 1
      PROVE  i = 1
  <2>1. rank[i] = rank[1] /\ DOMAIN rank = D
    BY <1>4, <1>6
  <2> HIDE DEF rank
  <2> QED
    BY <2>1, <1>2, <1>3 DEF IsInjective
<1>7. (CHOOSE i \in D : Cardinality({j \in D : j <= i}) = 1) = 1
  <2>1. Cardinality({j \in D : j <= 1}) = 1
    BY <1>3, <1>4
  <2> QED
    BY <2>1, <1>3, <1>6
<1>8. Kept(s, S)[1] = s[1]
  BY <1>5, <1>7 DEF Kept
<1>9. 1 \in DOMAIN Kept(s, S)
  BY <1>5 DEF Kept
<1>10. Kept(s, S) \in Seq(T)
  BY KeptFacts
<1> QED
  BY <1>1, <1>8, <1>9, <1>10, LenProperties, EmptySeq

(* Popping a key leaves the other keys. *)
LEMMA WithoutFacts ==
  ASSUME NEW T, NEW s \in Seq(T), NEW p
  PROVE  /\ Without(s, p) \in Seq(T)
         /\ Range(Without(s, p)) = Range(s) \ {p}
         /\ IsInjective(s) => IsInjective(Without(s, p))
<1>1. Range(s) \cap (Range(s) \ {p}) = Range(s) \ {p}
  OBVIOUS
<1> QED
  BY <1>1, KeptFacts DEF Without

(* Joining two dictionaries that share no key. *)
LEMMA ConcatDict ==
  ASSUME NEW T, NEW s \in Seq(T), NEW t \in Seq(T)
  PROVE  /\ s \o t \in Seq(T)
         /\ Range(s \o t) = Range(s) \cup Range(t)
         /\ IsInjective(s) /\ IsInjective(t) /\ Range(s) \cap Range(t) = {}
              => IsInjective(s \o t)
<1>1. /\ s \o t \in Seq(T) /\ Len(s \o t) = Len(s) + Len(t)
      /\ \A i \in 1 .. Len(s) + Len(t) :
           (s \o t)[i] = IF i <= Len(s) THEN s[i] ELSE t[i - Len(s)]
  BY ConcatProperties
<1>2. Range(s \o t) = Range(s) \cup Range(t)
  BY RangeConcatenation
<1>3. Len(s) \in Nat /\ Len(t) \in Nat /\ DOMAIN s = 1 .. Len(s)
        /\ DOMAIN t = 1 .. Len(t) /\ DOMAIN (s \o t) = 1 .. Len(s) + Len(t)
  BY <1>1, LenProperties
<1>4. ASSUME IsInjective(s), IsInjective(t), Range(s) \cap Range(t) = {}
      PROVE  IsInjective(s \o t)
  <2> SUFFICES ASSUME NEW a \in 1 .. Len(s) + Len(t), NEW b \in 1 .. Len(s) + Len(t),
                      (s \o t)[a] = (s \o t)[b]
               PROVE  a = b
    BY <1>3 DEF IsInjective
  <2>1. CASE a <= Len(s) /\ b <= Len(s)
    BY <1>1, <1>3, <1>4, <2>1 DEF IsInjective
  <2>2. CASE a > Len(s) /\ b > Len(s)
    <3>1. a - Len(s) \in 1 .. Len(t) /\ b - Len(s) \in 1 .. Len(t)
      BY <2>2, <1>3
    <3>2. t[a - Len(s)] = t[b - Len(s)]
      BY <1>1, <1>3, <2>2
    <3> QED
      BY <3>1, <3>2, <1>3, <1>4 DEF IsInjective
  <2>3. CASE a <= Len(s) /\ b > Len(s)
    <3>1. s[a] \in Range(s) /\ t[b - Len(s)] \in Range(t)
      BY <2>3, <1>3 DEF Range
    <3> QED
      BY <3>1, <1>1, <1>3, <1>4, <2>3
  <2>4. CASE a > Len(s) /\ b <= Len(s)
    <3>1. s[b] \in Range(s) /\ t[a - Len(s)] \in Range(t)
      BY <2>4, <1>3 DEF Range
    <3> QED
      BY <3>1, <1>1, <1>3, <1>4, <2>4
  <2> QED
    BY <2>1, <2>2, <2>3, <2>4, <1>3
<1> QED
  BY <1>1, <1>2, <1>4

(* A new key goes to the end. *)
LEMMA AppendDict ==
  ASSUME NEW T, NEW s \in Seq(T), NEW x \in T
  PROVE  /\ Append(s, x) \in Seq(T)
         /\ Range(Append(s, x)) = Range(s) \cup {x}
         /\ IsInjective(s) /\ x \notin Range(s) => IsInjective(Append(s, x))
<1>1. <<x>> \in Seq(T) /\ Range(<<x>>) = {x} /\ IsInjective(<<x>>)
  BY DEF Range, IsInjective
<1>2. Append(s, x) = s \o <<x>>
  BY AppendIsConcat
<1>3. /\ s \o <<x>> \in Seq(T)
      /\ Range(s \o <<x>>) = Range(s) \cup Range(<<x>>)
      /\ IsInjective(s) /\ IsInjective(<<x>>) /\ Range(s) \cap Range(<<x>>) = {}
           => IsInjective(s \o <<x>>)
  BY <1>1, ConcatDict
<1> QED
  BY <1>1, <1>2, <1>3

(* popitem(last=False): the first key goes. *)
LEMMA TailDict ==
  ASSUME NEW T, NEW s \in Seq(T), s # <<>>, IsInjective(s)
  PROVE  /\ Head(s) \in Range(s) /\ Tail(s) \in Seq(T)
         /\ Range(Tail(s)) = Range(s) \ {Head(s)}
         /\ IsInjective(Tail(s))
<1>1. /\ Len(s) \in Nat /\ Len(s) # 0 /\ DOMAIN s = 1 .. Len(s)
      /\ Tail(s) \in Seq(T) /\ Len(Tail(s)) = Len(s) - 1
      /\ \A i \in 1 .. Len(Tail(s)) : Tail(s)[i] = s[i + 1]
      /\ Head(s) = s[1]
  BY LenProperties, EmptySeq, HeadTailProperties
<1>2. DOMAIN Tail(s) = 1 .. Len(s) - 1
  BY <1>1, LenProperties
<1>3. ASSUME NEW i \in 2 .. Len(s)
      PROVE  i - 1 \in DOMAIN Tail(s) /\ Tail(s)[i - 1] = s[i] /\ s[i] # s[1]
  BY <1>1, <1>2 DEF IsInjective
<1>4. Range(Tail(s)) = Range(s) \ {Head(s)}
  <2>1. ASSUME NEW y \in Range(Tail(s)) PROVE y \in Range(s) \ {Head(s)}
    <3>1. PICK i \in 1 .. Len(s) - 1 : y = s[i + 1]
      BY <1>1, <1>2 DEF Range
    <3>2. i + 1 \in 2 .. Len(s)
      BY <1>1
    <3> QED
      BY <3>1, <3>2, <1>1, <1>3 DEF Range
  <2>2. ASSUME NEW y \in Range(s) \ {Head(s)} PROVE y \in Range(Tail(s))
    <3>1. PICK i \in 1 .. Len(s) : y = s[i]
      BY <1>1 DEF Range
    <3>2. i \in 2 .. Len(s)
      BY <3>1, <1>1
    <3> QED
      BY <3>1, <3>2, <1>3 DEF Range
  <2> QED
    BY <2>1, <2>2
<1>5. IsInjective(Tail(s))
  BY <1>1, <1>2 DEF IsInjective
<1>6. Head(s) \in Range(s)
  <2>1. 1 \in DOMAIN s
    BY <1>1
  <2> QED
    BY <1>1, <2>1 DEF Range
<1> QED
  BY <1>1, <1>4, <1>5, <1>6

(* A dictionary has as many places as keys. *)
LEMMA DictLength ==
  ASSUME NEW T, NEW s \in Seq(T), IsInjective(s)
  PROVE  IsFiniteSet(Range(s)) /\ Len(s) = Cardinality(Range(s))
<1>1. Len(s) \in Nat /\ DOMAIN s = 1 .. Len(s) /\ s \in [1 .. Len(s) -> Range(s)]
  BY LenProperties DEF Range
<1>2. s \in Bijection(1 .. Len(s), Range(s))
  BY <1>1 DEF Bijection, Injection, Surjection, Range
<1>3. IsFiniteSet(1 .. Len(s)) /\ Cardinality(1 .. Len(s)) = Len(s)
  BY <1>1, FS_Interval
<1> QED
  BY <1>2, <1>3, FS_Bijection DEF ExistsBijection

(* The positions of s that hold elements of S, and the rank of one of them. *)
Places(s, S) == {i \in 1 .. Len(s) : s[i] \in S}
Rank(D, i) == Cardinality({j \in D : j <= i})

(* What is kept depends only on where the elements of S are. *)
LEMMA KeptPlaces ==
  ASSUME NEW s, NEW S, NEW R, Places(s, S) = Places(s, R)
  PROVE  Kept(s, S) = Kept(s, R)
<1> DEFINE F(P) == [k \in 1 .. Cardinality(P) |-> s[CHOOSE i \in P : Rank(P, i) = k]]
<1>1. Kept(s, S) = F(Places(s, S)) /\ Kept(s, R) = F(Places(s, R))
  BY DEF Kept, Places, Rank
<1> HIDE DEF F
<1> QED
  BY <1>1

(* The k-th kept element is the one whose position has rank k.             *)
LEMMA KeptRank ==
  ASSUME NEW T, NEW s \in Seq(T), NEW S
  PROVE  /\ IsFiniteSet(Places(s, S)) /\ Cardinality(Places(s, S)) \in Nat
         /\ Len(Kept(s, S)) = Cardinality(Places(s, S))
         /\ \A k \in 1 .. Cardinality(Places(s, S)) :
              \E i \in Places(s, S) : Rank(Places(s, S), i) = k
         /\ \A i \in Places(s, S) : Kept(s, S)[Rank(Places(s, S), i)] = s[i]
<1> DEFINE D == Places(s, S)
           m == Cardinality(D)
           rank == [i \in D |-> Rank(D, i)]
<1>1. Len(s) \in Nat /\ D \in SUBSET (1 .. Len(s))
  BY LenProperties DEF Places
<1>2. /\ m \in Nat /\ rank \in [D -> 1 .. m] /\ IsInjective(rank)
      /\ \A k \in 1 .. m : \E i \in D : rank[i] = k
  <2> HIDE DEF D
  <2> QED
    BY <1>1, RankBijection DEF Rank
<1>3. DOMAIN rank = D /\ \A i \in D : rank[i] = Rank(D, i)
  OBVIOUS
<1>4. Kept(s, S) = [k \in 1 .. m |-> s[CHOOSE i \in D : Rank(D, i) = k]]
  BY DEF Kept, Places, Rank
<1>f. IsFiniteSet(D)
  <2>1. IsFiniteSet(1 .. Len(s))
    BY <1>1, FS_Interval
  <2> QED
    BY <2>1, <1>1, FS_Subset
<1> HIDE DEF rank, m, D
<1>5. Kept(s, S) \in Seq(T)
  BY KeptFacts
<1>6. Len(Kept(s, S)) = m
  <2>1. DOMAIN Kept(s, S) = 1 .. m
    BY <1>4
  <2>2. 1 .. Len(Kept(s, S)) = 1 .. m /\ Len(Kept(s, S)) \in Nat
    BY <2>1, <1>5, LenProperties
  <2> QED
    BY <2>2, <1>2
<1>7. \A k \in 1 .. m : \E i \in D : Rank(D, i) = k
  BY <1>2, <1>3
<1>8. ASSUME NEW i \in D
      PROVE  Kept(s, S)[Rank(D, i)] = s[i]
  <2>1. Rank(D, i) \in 1 .. m
    BY <1>2, <1>3
  <2>2. \A j \in D : Rank(D, j) = Rank(D, i) => j = i
    BY <1>2, <1>3 DEF IsInjective
  <2>3. (CHOOSE j \in D : Rank(D, j) = Rank(D, i)) = i
    BY <2>2
  <2> QED
    BY <2>1, <2>3, <1>4
<1> QED
  BY <1>2, <1>f, <1>6, <1>7, <1>8 DEF m, D

(* The rank of a position among all positions is itself. *)
LEMMA RankAll ==
  ASSUME NEW n \in Nat, NEW i \in 1 .. n
  PROVE  Rank(1 .. n, i) = i
<1>1. {j \in 1 .. n : j <= i} = 1 .. i
  OBVIOUS
<1>2. Cardinality(1 .. i) = IF 1 > i THEN 0 ELSE i - 1 + 1
  BY FS_Interval
<1>3. Rank(1 .. n, i) = Cardinality(1 .. i)
  BY <1>1 DEF Rank
<1> QED
  BY <1>2, <1>3

(* Keeping everything changes nothing. *)
LEMMA KeptWhole ==
  ASSUME NEW T, NEW s \in Seq(T), NEW S, Range(s) \subseteq S
  PROVE  Kept(s, S) = s
<1> DEFINE n == Len(s)
<1>1. n \in Nat /\ DOMAIN s = 1 .. n
  BY LenProperties
<1>2. Places(s, S) = 1 .. n
  BY <1>1 DEF Range, Places
<1>3. Cardinality(1 .. n) = n
  <2>1. Cardinality(1 .. n) = IF 1 > n THEN 0 ELSE n - 1 + 1
    BY <1>1, FS_Interval
  <2> QED
    BY <2>1, <1>1
<1>5. Len(Kept(s, S)) = n /\ \A i \in 1 .. n : Kept(s, S)[i] = s[i]
  <2>1. /\ Len(Kept(s, S)) = Cardinality(1 .. n)
        /\ \A i \in 1 .. n : Kept(s, S)[Rank(1 .. n, i)] = s[i]
    BY <1>2, KeptRank
  <2> QED
    BY <2>1, <1>1, <1>3, RankAll
<1>6. Kept(s, S) \in Seq(T)
  BY KeptFacts
<1> QED
  BY <1>5, <1>6, SeqEqual

(* Moving a set of positions does not change its size. *)
LEMMA ShiftSize ==
  ASSUME NEW A, A \subseteq Int, IsFiniteSet(A), NEW n \in Int
  PROVE  /\ IsFiniteSet({j + n : j \in A})
         /\ Cardinality({j + n : j \in A}) = Cardinality(A)
<1> DEFINE B == {j + n : j \in A}
           f == [j \in A |-> j + n]
<1>1. f \in [A -> B] /\ \A a, b \in A : f[a] = f[b] => a = b
  OBVIOUS
<1>2. \A y \in B : \E a \in A : f[a] = y
  OBVIOUS
<1>3. DOMAIN f = A
  OBVIOUS
<1> HIDE DEF f, B
<1>4. f \in Bijection(A, B)
  BY <1>1, <1>2, <1>3 DEF Bijection, Injection, Surjection, IsInjective
<1>5. ExistsBijection(A, B)
  BY <1>4 DEF ExistsBijection
<1>6. IsFiniteSet(B) /\ Cardinality(B) = Cardinality(A)
  BY <1>5, FS_Bijection
<1> QED
  BY <1>6 DEF B

(* Restricting a concatenation restricts its parts. *)
LEMMA KeptConcat ==
  ASSUME NEW T, NEW s \in Seq(T), NEW t \in Seq(T), NEW S
  PROVE  Kept(s \o t, S) = Kept(s, S) \o Kept(t, S)
<1> DEFINE n == Len(s)
           st == s \o t
           Ds == Places(s, S)
           Dt == Places(t, S)
           D == Places(st, S)
           ms == Cardinality(Ds)
           mt == Cardinality(Dt)
<1>1. /\ n \in Nat /\ Len(t) \in Nat /\ st \in Seq(T) /\ Len(st) = n + Len(t)
      /\ \A i \in 1 .. n + Len(t) : st[i] = IF i <= n THEN s[i] ELSE t[i - n]
  BY LenProperties, ConcatProperties
<1>2. /\ \A i \in Ds : i \in D /\ st[i] = s[i] /\ i <= n /\ i \in Int
      /\ \A i \in Dt : i + n \in D /\ st[i + n] = t[i] /\ i \in Int /\ i > 0
      /\ \A i \in D : IF i <= n THEN i \in Ds ELSE i - n \in Dt
  BY <1>1 DEF Places
<1>4. \A i \in D : i \in Int
  BY DEF Places
<1>r1. /\ IsFiniteSet(Ds) /\ ms \in Nat /\ Len(Kept(s, S)) = ms
       /\ \A k \in 1 .. ms : \E i \in Ds : Rank(Ds, i) = k
       /\ \A i \in Ds : Kept(s, S)[Rank(Ds, i)] = s[i]
  BY KeptRank
<1>r2. /\ IsFiniteSet(Dt) /\ mt \in Nat /\ Len(Kept(t, S)) = mt
       /\ \A k \in 1 .. mt : \E i \in Dt : Rank(Dt, i) = k
       /\ \A i \in Dt : Kept(t, S)[Rank(Dt, i)] = t[i]
  BY KeptRank
<1>r3. /\ Len(Kept(st, S)) = Cardinality(D)
       /\ \A i \in D : Kept(st, S)[Rank(D, i)] = st[i]
  BY <1>1, KeptRank
<1>9. Kept(s, S) \in Seq(T) /\ Kept(t, S) \in Seq(T) /\ Kept(st, S) \in Seq(T)
  BY <1>1, KeptFacts
<1>10. /\ Kept(s, S) \o Kept(t, S) \in Seq(T)
       /\ Len(Kept(s, S) \o Kept(t, S)) = ms + mt
       /\ \A k \in 1 .. ms + mt :
            (Kept(s, S) \o Kept(t, S))[k] = IF k <= ms THEN Kept(s, S)[k] ELSE Kept(t, S)[k - ms]
  <2> HIDE DEF Ds, Dt, ms, mt
  <2> QED
    BY <1>9, <1>r1, <1>r2, ConcatProperties, ZenonT(60)
<1>3. IsFiniteSet(Ds) /\ IsFiniteSet(Dt) /\ ms \in Nat /\ mt \in Nat
  BY <1>r1, <1>r2
<1> HIDE DEF Ds, Dt, D, st, ms, mt
<1>5. ASSUME NEW A \in SUBSET Dt
      PROVE  Cardinality(Ds \cup {j + n : j \in A}) = ms + Cardinality(A)
  <2> DEFINE B == {j + n : j \in A}
  <2>1. A \subseteq Int /\ IsFiniteSet(A)
    BY <1>2, <1>3, FS_Subset
  <2>2. IsFiniteSet(B) /\ Cardinality(B) = Cardinality(A)
    <3> n \in Int
      BY <1>1
    <3> HIDE DEF n
    <3> QED
      BY <2>1, ShiftSize
  <2>3. Ds \cap B = {}
    BY <1>1, <1>2
  <2> HIDE DEF B
  <2>4. Cardinality(Ds \cup B) = ms + Cardinality(B) - Cardinality({})
    BY <2>2, <2>3, <1>3, FS_Union DEF ms
  <2>5. Cardinality(A) \in Nat
    BY <2>1, FS_CardinalityType
  <2>6. Cardinality(Ds \cup B) = ms + Cardinality(A)
    BY <2>2, <2>4, <2>5, <1>3, FS_EmptySet
  <2> QED
    BY <2>6 DEF B
<1>6. Cardinality(D) = ms + mt
  <2>1. D = Ds \cup {j + n : j \in Dt}
    <3>1. ASSUME NEW i \in D PROVE i \in Ds \cup {j + n : j \in Dt}
      <4>1. CASE i <= n
        BY <4>1, <1>2
      <4>2. CASE ~(i <= n)
        <5>1. i - n \in Dt /\ i = (i - n) + n
          BY <4>2, <1>1, <1>2, <1>4
        <5> QED
          BY <5>1
      <4> QED
        BY <4>1, <4>2
    <3> QED
      BY <3>1, <1>2
  <2> QED
    BY <2>1, <1>5 DEF mt
<1>7. ASSUME NEW i \in Ds
      PROVE  Rank(D, i) = Rank(Ds, i)
  <2>1. {j \in D : j <= i} = {j \in Ds : j <= i}
    BY <1>1, <1>2, <1>4
  <2> QED
    BY <2>1 DEF Rank
<1>8. ASSUME NEW i \in Dt
      PROVE  Rank(D, i + n) = ms + Rank(Dt, i)
  <2> DEFINE A == {j \in Dt : j <= i}
  <2>1. {j \in D : j <= i + n} = Ds \cup {j + n : j \in A}
    <3>1. ASSUME NEW x \in D, x <= i + n PROVE x \in Ds \cup {j + n : j \in A}
      <4>1. CASE x <= n
        BY <4>1, <1>2
      <4>2. CASE ~(x <= n)
        <5>1. x - n \in Dt /\ x = (x - n) + n /\ x - n <= i
          BY <4>2, <3>1, <1>1, <1>2, <1>4
        <5> QED
          BY <5>1
      <4> QED
        BY <4>1, <4>2
    <3>2. ASSUME NEW x \in Ds PROVE x \in D /\ x <= i + n
      BY <1>1, <1>2
    <3>3. ASSUME NEW j \in A PROVE j + n \in D /\ j + n <= i + n
      BY <1>1, <1>2
    <3> QED
      BY <3>1, <3>2, <3>3
  <2> QED
    BY <2>1, <1>5 DEF Rank
<1>11. ASSUME NEW k \in 1 .. ms + mt
       PROVE  Kept(st, S)[k] = (Kept(s, S) \o Kept(t, S))[k]
  <2>1. CASE k <= ms
    <3>1. PICK i \in Ds : Rank(Ds, i) = k
      BY <2>1, <1>3, <1>r1
    <3>2. Kept(st, S)[k] = st[i]
      BY <3>1, <1>2, <1>7, <1>r3
    <3> QED
      BY <3>1, <3>2, <2>1, <1>2, <1>10, <1>r1
  <2>2. CASE ~(k <= ms)
    <3>1. k - ms \in 1 .. mt
      BY <2>2, <1>3
    <3>2. PICK i \in Dt : Rank(Dt, i) = k - ms
      BY <3>1, <1>r2
    <3>3. Rank(D, i + n) = k
      BY <3>2, <1>3, <1>8
    <3>4. Kept(st, S)[k] = st[i + n]
      BY <3>3, <1>2, <1>r3
    <3>5. (Kept(s, S) \o Kept(t, S))[k] = t[i]
      BY <3>2, <2>2, <1>10, <1>r2
    <3> QED
      BY <3>4, <3>5, <1>2
  <2> QED
    BY <2>1, <2>2
<1>12. Kept(st, S) = Kept(s, S) \o Kept(t, S)
  BY <1>6, <1>9, <1>10, <1>11, <1>r3, SeqEqual
<1> QED
  BY <1>12 DEF st

(* Popping a key from a concatenation pops it from the parts. *)
LEMMA WithoutConcat ==
  ASSUME NEW T, NEW s \in Seq(T), NEW t \in Seq(T), NEW p
  PROVE  Without(s \o t, p) = Without(s, p) \o Without(t, p)
<1> DEFINE R == Range(s \o t) \ {p}
<1>1. Range(s \o t) = Range(s) \cup Range(t)
  BY RangeConcatenation
<1>2. ASSUME NEW u \in Seq(T), Range(u) \subseteq Range(s \o t)
      PROVE  Kept(u, R) = Without(u, p)
  <2>1. DOMAIN u = 1 .. Len(u)
    BY LenProperties
  <2>2. \A i \in 1 .. Len(u) : u[i] \in R <=> u[i] \in Range(u) \ {p}
    BY <1>2, <2>1 DEF Range
  <2> QED
    <3>1. Places(u, R) = Places(u, Range(u) \ {p})
      BY <2>2 DEF Places
    <3> QED
      BY <3>1, KeptPlaces DEF Without
<1>3. Kept(s \o t, R) = Kept(s, R) \o Kept(t, R)
  BY KeptConcat
<1> QED
  BY <1>1, <1>2, <1>3 DEF Without

(* Popping a key that is not there. *)
LEMMA WithoutAbsent ==
  ASSUME NEW T, NEW s \in Seq(T), NEW p, p \notin Range(s)
  PROVE  Without(s, p) = s
<1>1. Range(s) \subseteq Range(s) \ {p}
  OBVIOUS
<1> QED
  BY <1>1, KeptWhole DEF Without

(* The head of a concatenation is the head of its first part. *)
LEMMA HeadTailConcat ==
  ASSUME NEW T, NEW s \in Seq(T), s # <<>>, NEW t \in Seq(T)
  PROVE  /\ s \o t # <<>> /\ Head(s \o t) = Head(s)
         /\ Tail(s \o t) = Tail(s) \o t
<1>1. /\ Len(s) \in Nat /\ Len(s) # 0 /\ Len(t) \in Nat
      /\ s \o t \in Seq(T) /\ Len(s \o t) = Len(s) + Len(t)
      /\ \A i \in 1 .. Len(s) + Len(t) :
           (s \o t)[i] = IF i <= Len(s) THEN s[i] ELSE t[i - Len(s)]
  BY LenProperties, EmptySeq, ConcatProperties
<1>2. s \o t # <<>>
  BY <1>1, EmptySeq
<1>3. Head(s \o t) = (s \o t)[1] /\ Head(s) = s[1]
  BY <1>1
<1>4. /\ Tail(s) \in Seq(T) /\ Len(Tail(s)) = Len(s) - 1
      /\ \A i \in 1 .. Len(Tail(s)) : Tail(s)[i] = s[i + 1]
  BY HeadTailProperties
<1>5. /\ Tail(s \o t) \in Seq(T) /\ Len(Tail(s \o t)) = Len(s) + Len(t) - 1
      /\ \A i \in 1 .. Len(Tail(s \o t)) : Tail(s \o t)[i] = (s \o t)[i + 1]
  BY <1>1, <1>2, HeadTailProperties
<1>6. /\ Tail(s) \o t \in Seq(T) /\ Len(Tail(s) \o t) = Len(s) - 1 + Len(t)
      /\ \A i \in 1 .. Len(s) - 1 + Len(t) :
           (Tail(s) \o t)[i] = IF i <= Len(s) - 1 THEN Tail(s)[i] ELSE t[i - (Len(s) - 1)]
  BY <1>4, ConcatProperties
<1>7. ASSUME NEW i \in 1 .. Len(s) + Len(t) - 1
      PROVE  Tail(s \o t)[i] = (Tail(s) \o t)[i]
  <2>1. i + 1 \in 1 .. Len(s) + Len(t) /\ (i + 1) - Len(s) = i - (Len(s) - 1)
    BY <1>1
  <2>2. CASE i <= Len(s) - 1
    BY <2>1, <2>2, <1>1, <1>4, <1>5, <1>6
  <2>3. CASE ~(i <= Len(s) - 1)
    BY <2>1, <2>3, <1>1, <1>5, <1>6
  <2> QED
    BY <2>2, <2>3
<1>8. Tail(s \o t) = Tail(s) \o t
  BY <1>1, <1>5, <1>6, <1>7, SeqEqual
<1> QED
  BY <1>1, <1>2, <1>3, <1>8

=============================================================================
