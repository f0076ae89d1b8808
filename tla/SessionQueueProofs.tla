------------------------- MODULE SessionQueueProofs -------------------------
(***************************************************************************)
(* What the filter of the queue model returns, for every sequence: the     *)
(* members that are kept, each once, in their order.  drain_maintenance    *)
(* and cancel of SessionQueue.ts are built from it.                        *)
(***************************************************************************)
EXTENDS SessionQueue, FiniteSetTheorems, TLAPS

\* The positions that are kept form a finite set of positive integers.
LEMMA PositionsFinite ==
  ASSUME NEW T, NEW s \in Seq(T), NEW S
  PROVE  /\ PositionsOf(s, S) \subseteq DOMAIN s
         /\ DOMAIN s = 1 .. Len(s) /\ Len(s) \in Nat
         /\ IsFiniteSet(PositionsOf(s, S))
         /\ Cardinality(PositionsOf(s, S)) \in Nat
<1>1. /\ PositionsOf(s, S) \subseteq DOMAIN s
      /\ DOMAIN s = 1 .. Len(s) /\ Len(s) \in Nat
  BY DEF PositionsOf
<1>2. IsFiniteSet(DOMAIN s)
  BY <1>1, FS_Interval
<1> QED
  BY <1>1, <1>2, FS_Subset, FS_CardinalityType

\* A rank is between one and the number of positions, and grows with the position.
LEMMA RankGrows ==
  ASSUME NEW P \in SUBSET Int, IsFiniteSet(P)
  PROVE  /\ \A i \in P : RankIn(P, i) \in 1 .. Cardinality(P)
         /\ \A i, j \in P : i < j => RankIn(P, i) < RankIn(P, j)
<1> DEFINE Upto(i) == {j \in P : j <= i}
<1>1. \A i \in P : /\ IsFiniteSet(Upto(i)) /\ Cardinality(Upto(i)) \in Nat
                   /\ Cardinality(Upto(i)) <= Cardinality(P) /\ Cardinality(P) \in Nat
  BY FS_Subset, FS_CardinalityType
<1>2. \A i \in P : RankIn(P, i) = Cardinality(Upto(i))
  BY DEF RankIn
<1>3. ASSUME NEW i \in P PROVE Cardinality(Upto(i)) \in 1 .. Cardinality(P)
  <2>1. i \in Upto(i)
    OBVIOUS
  <2>2. Cardinality(Upto(i)) # 0
    BY <1>1, <2>1, FS_EmptySet
  <2> QED
    BY <1>1, <2>2
<1>4. ASSUME NEW i \in P, NEW j \in P, i < j
      PROVE  Cardinality(Upto(i)) < Cardinality(Upto(j))
  <2>a. \A k \in P : k <= i => k <= j
    BY <1>4
  <2>1. Upto(i) \in SUBSET Upto(j)
    BY <2>a
  <2>2. j \in Upto(j) /\ j \notin Upto(i)
    BY <1>4
  <2>3. Cardinality(Upto(i)) <= Cardinality(Upto(j))
        /\ Cardinality(Upto(i)) # Cardinality(Upto(j))
    BY <1>1, <2>1, <2>2, FS_Subset
  <2> QED
    BY <1>1, <2>3
<1> QED
  BY <1>2, <1>3, <1>4

\* Every rank is the rank of a position.
LEMMA RankOnto ==
  ASSUME NEW P \in SUBSET Int, IsFiniteSet(P), NEW n \in 1 .. Cardinality(P)
  PROVE  \E i \in P : RankIn(P, i) = n
<1> DEFINE f == [i \in P |-> RankIn(P, i)]
           R == 1 .. Cardinality(P)
<1>1. Cardinality(P) \in Nat
  BY FS_CardinalityType
<1>2. IsFiniteSet(R) /\ Cardinality(R) = Cardinality(P)
  BY <1>1, FS_Interval
<1>3. f \in [P -> R]
  BY RankGrows
<1>4. \A i, j \in P : f[i] = f[j] => i = j
  <2> SUFFICES ASSUME NEW i \in P, NEW j \in P, i < j PROVE f[i] # f[j]
    OBVIOUS
  <2> QED
    BY RankGrows
<1>5. f \in Injection(P, R)
  BY <1>3, <1>4 DEF Injection, IsInjective
<1>6. f \in Surjection(P, R)
  BY <1>2, <1>5, FS_Injection
<1> QED
  BY <1>6 DEF Surjection

\* Keep(s, S) is the subsequence of the members of S: an increasing selection of positions of s
\* that takes exactly the positions that hold a member.
THEOREM KeepIsFilter ==
  ASSUME NEW T, NEW s \in Seq(T), NEW S
  PROVE  /\ Keep(s, S) \in Seq(T)
         /\ \A n \in DOMAIN Keep(s, S) : Keep(s, S)[n] \in S
         /\ \E e \in [DOMAIN Keep(s, S) -> DOMAIN s] :
              /\ \A n \in DOMAIN Keep(s, S) : Keep(s, S)[n] = s[e[n]]
              /\ \A m, n \in DOMAIN Keep(s, S) : m < n => e[m] < e[n]
              /\ \A i \in DOMAIN s : s[i] \in S => \E n \in DOMAIN Keep(s, S) : e[n] = i
<1> DEFINE P == PositionsOf(s, S)
           N == 1 .. Cardinality(P)
           e == [n \in N |-> CHOOSE i \in P : RankIn(P, i) = n]
<1>1. P \in SUBSET Int /\ IsFiniteSet(P) /\ Cardinality(P) \in Nat /\ P \subseteq DOMAIN s
  BY PositionsFinite
<1>2. \A n \in N : e[n] \in P /\ RankIn(P, e[n]) = n
  BY <1>1, RankOnto
<1>3. Keep(s, S) = [n \in N |-> s[e[n]]]
  BY DEF Keep
<1>4. \A i \in DOMAIN s : s[i] \in T
  OBVIOUS
<1>5. \A n \in N : s[e[n]] \in S /\ s[e[n]] \in T
  BY <1>1, <1>2, <1>4 DEF PositionsOf
<1> HIDE DEF e, P
<1>6. Keep(s, S) \in Seq(T) /\ DOMAIN Keep(s, S) = N
  <2>1. \A n \in Nat : \A g \in [1 .. n -> T] : g \in Seq(T)
    OBVIOUS
  <2>2. Keep(s, S) \in [N -> T]
    BY <1>3, <1>5
  <2> QED
    BY <1>1, <1>3, <2>1, <2>2
<1>7. /\ \A i \in P : i \in Int /\ RankIn(P, i) \in N
      /\ \A i, j \in P : i < j => RankIn(P, i) < RankIn(P, j)
  BY <1>1, RankGrows
<1>8. \A m, n \in N : m < n => e[m] < e[n]
  <2> SUFFICES ASSUME NEW m \in N, NEW n \in N, m < n PROVE e[m] < e[n]
    OBVIOUS
  <2>1. e[m] \in P /\ e[n] \in P /\ RankIn(P, e[m]) = m /\ RankIn(P, e[n]) = n
    BY <1>2
  <2>2. e[m] \in Int /\ e[n] \in Int
    BY <1>7, <2>1
  <2>3. e[n] = e[m] => n = m
    BY <2>1
  <2>4. e[n] < e[m] => n < m
    BY <1>7, <2>1
  <2>5. m \in Int /\ n \in Int
    BY <1>1
  <2> QED
    BY <2>2, <2>3, <2>4, <2>5
<1>9. ASSUME NEW i \in DOMAIN s, s[i] \in S PROVE \E n \in N : e[n] = i
  <2> DEFINE r == RankIn(P, i)
  <2>1. i \in P
    BY <1>9 DEF PositionsOf, P
  <2>2. r \in N
    BY <1>7, <2>1
  <2>3. e[r] \in P /\ RankIn(P, e[r]) = r
    BY <1>2, <2>2
  <2>4. e[r] \in Int /\ i \in Int
    BY <1>7, <2>1, <2>3
  <2>5. ~(e[r] < i) /\ ~(i < e[r])
    BY <1>7, <2>1, <2>2, <2>3
  <2> QED
    BY <2>2, <2>4, <2>5
<1>10. e \in [N -> DOMAIN s]
  BY <1>1, <1>2 DEF e
<1>11. \A n \in N : Keep(s, S)[n] = s[e[n]] /\ Keep(s, S)[n] \in S
  BY <1>3, <1>5
<1> HIDE DEF N
<1>12. \E f \in [N -> DOMAIN s] :
         /\ \A n \in N : Keep(s, S)[n] = s[f[n]]
         /\ \A m, n \in N : m < n => f[m] < f[n]
         /\ \A i \in DOMAIN s : s[i] \in S => \E n \in N : f[n] = i
  <2> WITNESS e \in [N -> DOMAIN s]
  <2> QED
    BY <1>8, <1>9, <1>11
<1> QED
  BY <1>6, <1>11, <1>12

\* A set of naturals that is not empty has a least member: the one of rank one among those up to any.
LEMMA LeastMember ==
  ASSUME NEW S \in SUBSET Nat, S # {}
  PROVE  \E i \in S : \A j \in S : i <= j
<1>1. PICK n \in S : TRUE
  OBVIOUS
<1>. DEFINE P == {j \in S : j <= n}
<1>2. P \in SUBSET Int /\ IsFiniteSet(P) /\ P # {}
  <2>1. IsFiniteSet(0 .. n)
    BY <1>1, FS_Interval
  <2>4. \A j \in P : j \in Nat /\ n \in Nat /\ j <= n
    OBVIOUS
  <2>2. P \subseteq 0 .. n
    <3>. HIDE DEF P
    <3>. QED BY <2>4
  <2>3. n \in Nat /\ n <= n
    OBVIOUS
  <2>. QED BY <2>1, <2>2, <2>3, FS_Subset
<1>3. 1 \in 1 .. Cardinality(P) /\ Cardinality(P) \in Nat
  BY <1>2, FS_EmptySet, FS_CardinalityType
<1>4. PICK i \in P : RankIn(P, i) = 1
  <2>. HIDE DEF P
  <2>. QED BY <1>2, <1>3, RankOnto
<1>5. ASSUME NEW j \in P PROVE i <= j
  <2>1. i \in Int /\ j \in Int
    BY <1>2
  <2>2. RankIn(P, j) \in 1 .. Cardinality(P) /\ (j < i => RankIn(P, j) < RankIn(P, i))
    <3>. HIDE DEF P
    <3>. QED BY <1>2, RankGrows
  <2>3. ~(RankIn(P, j) < 1)
    BY <1>3, <2>2
  <2>. QED BY <1>4, <2>1, <2>2, <2>3
<1>6. ASSUME NEW j \in S \ P PROVE i <= j
  OBVIOUS
<1>. QED BY <1>5, <1>6

\* What the loop needs of drain_maintenance and cancel: both leave a queue of the same kind
\* without the commands they took.
LEMMA AfterCancelType ==
  ASSUME NEW T, NEW q \in Seq(T), NEW S
  PROVE  /\ AfterCancel(q, S) \in Seq(T) /\ AfterDrainMaintenance(q, S) \in Seq(T)
         /\ \A n \in DOMAIN AfterCancel(q, S) :
              AfterCancel(q, S)[n] \notin S /\ \E i \in DOMAIN q : q[i] = AfterCancel(q, S)[n]
         /\ \A n \in DOMAIN AfterDrainMaintenance(q, S) :
              \E i \in DOMAIN q : q[i] = AfterDrainMaintenance(q, S)[n]
<1> DEFINE K == {q[i] : i \in DOMAIN q} \ S
<1>1. Keep(q, K) \in Seq(T) /\ \A n \in DOMAIN Keep(q, K) : Keep(q, K)[n] \in K
  BY KeepIsFilter
<1> QED
  BY <1>1 DEF AfterCancel, AfterDrainMaintenance


\* Every command that is kept comes from the queue, none is forgotten, and none is repeated.
LEMMA KeepMembers ==
  ASSUME NEW T, NEW q \in Seq(T), NEW S
  PROVE  /\ {Keep(q, S)[n] : n \in DOMAIN Keep(q, S)} = {q[i] : i \in DOMAIN q} \cap S
         /\ (\A i, j \in DOMAIN q : q[i] = q[j] => i = j)
              => \A m, n \in DOMAIN Keep(q, S) : Keep(q, S)[m] = Keep(q, S)[n] => m = n
<1> DEFINE K == Keep(q, S)
<1>1. /\ K \in Seq(T) /\ \A n \in DOMAIN K : K[n] \in S
      /\ \E e \in [DOMAIN K -> DOMAIN q] :
           /\ \A n \in DOMAIN K : K[n] = q[e[n]]
           /\ \A m, n \in DOMAIN K : m < n => e[m] < e[n]
           /\ \A i \in DOMAIN q : q[i] \in S => \E n \in DOMAIN K : e[n] = i
  BY KeepIsFilter
<1> HIDE DEF K
<1>2. PICK e \in [DOMAIN K -> DOMAIN q] :
        /\ \A n \in DOMAIN K : K[n] = q[e[n]]
        /\ \A m, n \in DOMAIN K : m < n => e[m] < e[n]
        /\ \A i \in DOMAIN q : q[i] \in S => \E n \in DOMAIN K : e[n] = i
  BY <1>1
<1>3. \A n \in DOMAIN K : e[n] \in DOMAIN q /\ K[n] = q[e[n]] /\ K[n] \in S
  BY <1>1, <1>2
<1>4. {K[n] : n \in DOMAIN K} = {q[i] : i \in DOMAIN q} \cap S
  <2>1. \A n \in DOMAIN K : K[n] \in {q[i] : i \in DOMAIN q} \cap S
    BY <1>3
  <2>2. \A i \in DOMAIN q : q[i] \in S => q[i] \in {K[n] : n \in DOMAIN K}
    BY <1>2
  <2> QED
    BY <2>1, <2>2
<1>5. ASSUME \A i, j \in DOMAIN q : q[i] = q[j] => i = j,
             NEW m \in DOMAIN K, NEW n \in DOMAIN K, K[m] = K[n]
      PROVE  m = n
  <2>1. e[m] = e[n] /\ e[m] \in Int
    BY <1>3, <1>5
  <2>2. m \in Int /\ n \in Int
    BY <1>1
  <2>3. ~(m < n) /\ ~(n < m)
    BY <1>2, <2>1
  <2> QED
    BY <2>2, <2>3
<1> QED
  BY <1>4, <1>5 DEF K

-----------------------------------------------------------------------------
\* How the commands that can be cancelled follow the queue.

LEMMA CancelledMember ==
  ASSUME NEW q, NEW S
  PROVE  \A c : c \in Cancelled(q, S) <=> c \in S /\ \E i \in DOMAIN q : q[i] = c
BY DEF Cancelled, PositionsOf

LEMMA CancelledFinite ==
  ASSUME NEW q, NEW S, IsFiniteSet(S)
  PROVE  IsFiniteSet(Cancelled(q, S)) /\ Cardinality(Cancelled(q, S)) \in Nat
<1>1. Cancelled(q, S) \in SUBSET S
  BY CancelledMember
<1> QED
  BY <1>1, FS_Subset, FS_CardinalityType

\* A command that is enqueued is one more, wherever it is new.
LEMMA CancelledAppend ==
  ASSUME NEW T, NEW q \in Seq(T), NEW c \in T, NEW S
  PROVE  Cancelled(Append(q, c), S) = Cancelled(q, S) \cup ({c} \cap S)
<1>1. \A i \in DOMAIN Append(q, c) :
        Append(q, c)[i] = c \/ (i \in DOMAIN q /\ Append(q, c)[i] = q[i])
  OBVIOUS
<1>2. \A i \in DOMAIN q : i \in DOMAIN Append(q, c) /\ Append(q, c)[i] = q[i]
  OBVIOUS
<1>3. Len(q) + 1 \in DOMAIN Append(q, c) /\ Append(q, c)[Len(q) + 1] = c
  OBVIOUS
<1>4. \A d : (\E i \in DOMAIN Append(q, c) : Append(q, c)[i] = d)
               <=> d = c \/ \E i \in DOMAIN q : q[i] = d
  BY <1>1, <1>2, <1>3
<1>5. \A d : d \in Cancelled(Append(q, c), S) <=> d \in Cancelled(q, S) \cup ({c} \cap S)
  <2>1. \A d : d \in Cancelled(Append(q, c), S)
                 <=> d \in S /\ \E i \in DOMAIN Append(q, c) : Append(q, c)[i] = d
    BY CancelledMember
  <2>2. \A d : d \in Cancelled(q, S) <=> d \in S /\ \E i \in DOMAIN q : q[i] = d
    BY CancelledMember
  <2> QED
    BY <1>4, <2>1, <2>2
<1> QED
  BY <1>5

\* The head of a queue without repetition leaves with take_next.
LEMMA CancelledTail ==
  ASSUME NEW T, NEW q \in Seq(T), q # <<>>, NEW S, \A i, j \in DOMAIN q : q[i] = q[j] => i = j
  PROVE  /\ Cancelled(Tail(q), S) = Cancelled(q, S) \ {Head(q)}
         /\ Head(q) \in S => Head(q) \in Cancelled(q, S)
         /\ \A i, j \in DOMAIN Tail(q) : Tail(q)[i] = Tail(q)[j] => i = j
         /\ \A i \in DOMAIN Tail(q) : Tail(q)[i] # Head(q)
<1>1. /\ Tail(q) \in Seq(T) /\ Head(q) = q[1] /\ 1 \in DOMAIN q
      /\ \A i \in DOMAIN Tail(q) : i + 1 \in DOMAIN q /\ Tail(q)[i] = q[i + 1] /\ i \in Int /\ i >= 1
      /\ \A i \in DOMAIN q : i = 1 \/ (i - 1 \in DOMAIN Tail(q) /\ Tail(q)[i - 1] = q[i])
  OBVIOUS
<1>2. \A i \in DOMAIN Tail(q) : Tail(q)[i] # Head(q)
  BY <1>1
<1>3. \A i, j \in DOMAIN Tail(q) : Tail(q)[i] = Tail(q)[j] => i = j
  BY <1>1
<1>4. \A d : (\E i \in DOMAIN Tail(q) : Tail(q)[i] = d)
               <=> d # Head(q) /\ \E i \in DOMAIN q : q[i] = d
  <2>1. ASSUME NEW i \in DOMAIN q, q[i] # Head(q)
        PROVE  \E j \in DOMAIN Tail(q) : Tail(q)[j] = q[i]
    BY <1>1, <2>1
  <2> QED
    BY <1>1, <1>2, <2>1
<1>5. /\ \A d : d \in Cancelled(Tail(q), S) <=> d \in S /\ \E i \in DOMAIN Tail(q) : Tail(q)[i] = d
      /\ \A d : d \in Cancelled(q, S) <=> d \in S /\ \E i \in DOMAIN q : q[i] = d
  BY CancelledMember
<1>6. \A d : d \in Cancelled(Tail(q), S) <=> d \in Cancelled(q, S) /\ d # Head(q)
  BY <1>4, <1>5
<1>7. Head(q) \in S => Head(q) \in Cancelled(q, S)
  BY <1>1, <1>5
<1> QED
  BY <1>2, <1>3, <1>6, <1>7
=============================================================================
