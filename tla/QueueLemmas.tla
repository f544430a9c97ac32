----------------------------- MODULE QueueLemmas -----------------------------
(***************************************************************************)
(* What the operations on queues do to the set of their members and to the *)
(* absence of duplicates.  A queue is a sequence over some set S.  And       *)
(* induction over the natural numbers, for what is defined by recursion.    *)
(***************************************************************************)
EXTENDS SequencesExt, SequenceTheorems, FiniteSetTheorems, TLAPS

(* The empty queue has no members. *)
LEMMA EmptyQueue == Range(<<>>) = {} /\ IsInjective(<<>>)
  BY DEF Range, IsInjective

(* A queue without members is empty. *)
LEMMA QueueEmpty ==
  ASSUME NEW S, NEW s \in Seq(S)
  PROVE  s # <<>> <=> Range(s) # {}
  <1>1. ASSUME s # <<>> PROVE Range(s) # {}
    <2>1. 1 \in DOMAIN s
      BY <1>1, EmptySeq, LenProperties
    <2> QED BY <2>1 DEF Range
  <1>2. ASSUME s = <<>> PROVE Range(s) = {}
    BY <1>2, EmptyQueue
  <1> QED BY <1>1, <1>2

(* Enqueueing at the tail adds one member. *)
LEMMA AppendQueue ==
  ASSUME NEW S, NEW s \in Seq(S), NEW e \in S
  PROVE  /\ Append(s, e) \in Seq(S)
         /\ Range(Append(s, e)) = Range(s) \cup {e}
         /\ IsInjective(s) /\ e \notin Range(s) => IsInjective(Append(s, e))
  <1> DEFINE n == Len(s)
             t == Append(s, e)
  <1>1. /\ n \in Nat /\ DOMAIN s = 1 .. n
        /\ t \in Seq(S) /\ DOMAIN t = 1 .. n + 1
        /\ \A i \in 1 .. n : t[i] = s[i]
        /\ t[n + 1] = e
    BY LenProperties, AppendProperties
  <1> HIDE DEF n, t
  <1>2. Range(t) = Range(s) \cup {e}
    BY <1>1 DEF Range
  <1>3. ASSUME IsInjective(s), e \notin Range(s) PROVE IsInjective(t)
    BY <1>1, <1>3 DEF IsInjective, Range
  <1> QED BY <1>1, <1>2, <1>3 DEF t

(* Dequeueing the head removes one member. *)
LEMMA TailQueue ==
  ASSUME NEW S, NEW s \in Seq(S), s # <<>>
  PROVE  /\ Head(s) \in S /\ Head(s) \in Range(s)
         /\ Tail(s) \in Seq(S)
         /\ IsInjective(s) => /\ Range(Tail(s)) = Range(s) \ {Head(s)}
                              /\ IsInjective(Tail(s))
  <1> DEFINE n == Len(s)
             t == Tail(s)
  <1>1. /\ n \in Nat \ {0} /\ DOMAIN s = 1 .. n /\ Head(s) = s[1]
        /\ Head(s) \in S
        /\ t \in Seq(S) /\ DOMAIN t = 1 .. n - 1
        /\ \A i \in 1 .. n - 1 : t[i] = s[i + 1]
    BY LenProperties, EmptySeq, HeadTailProperties
  <1> HIDE DEF n, t
  <1>2. Head(s) \in Range(s)
    BY <1>1 DEF Range
  <1>3. ASSUME IsInjective(s)
        PROVE  Range(t) = Range(s) \ {Head(s)} /\ IsInjective(t)
    <2>1. \A i \in 1 .. n - 1 : i + 1 \in 1 .. n /\ s[i + 1] # s[1]
      BY SMTT(30), <1>1, <1>3 DEF IsInjective
    <2>2. \A i \in 1 .. n : i # 1 => i - 1 \in 1 .. n - 1 /\ t[i - 1] = s[i]
      BY <1>1
    <2>3. Range(t) \subseteq Range(s) \ {Head(s)}
      BY SMTT(30), <1>1, <2>1 DEF Range
    <2>4. Range(s) \ {Head(s)} \subseteq Range(t)
      <3> SUFFICES ASSUME NEW i \in 1 .. n, i # 1 PROVE s[i] \in Range(t)
        BY <1>1 DEF Range
      <3>1. i - 1 \in DOMAIN t /\ t[i - 1] = s[i]
        BY <1>1, <2>2
      <3> QED BY <3>1 DEF Range
    <2>5. IsInjective(t)
      <3> SUFFICES ASSUME NEW i \in 1 .. n - 1, NEW j \in 1 .. n - 1, t[i] = t[j]
                   PROVE  i = j
        BY <1>1 DEF IsInjective
      <3>1. i + 1 \in 1 .. n /\ j + 1 \in 1 .. n /\ s[i + 1] = s[j + 1]
        BY <1>1
      <3>2. i + 1 = j + 1
        BY <1>1, <1>3, <3>1 DEF IsInjective
      <3> QED BY <3>2
    <2> QED BY <2>3, <2>4, <2>5
  <1> QED BY <1>1, <1>2, <1>3 DEF t

(* Appending one queue to another joins their members. *)
LEMMA ConcatQueue ==
  ASSUME NEW S, NEW s \in Seq(S), NEW t \in Seq(S)
  PROVE  /\ s \o t \in Seq(S)
         /\ Range(s \o t) = Range(s) \cup Range(t)
         /\ IsInjective(s) /\ IsInjective(t) /\ Range(s) \cap Range(t) = {}
              => IsInjective(s \o t)
  <1> DEFINE m == Len(s)
             n == Len(t)
             u == s \o t
  <1>1. /\ m \in Nat /\ DOMAIN s = 1 .. m
        /\ n \in Nat /\ DOMAIN t = 1 .. n
        /\ u \in Seq(S) /\ DOMAIN u = 1 .. m + n
        /\ \A i \in 1 .. m + n : u[i] = IF i <= m THEN s[i] ELSE t[i - m]
    BY LenProperties, ConcatProperties
  <1>2. Range(u) = Range(s) \cup Range(t)
    BY RangeConcatenation
  <1> HIDE DEF m, n, u
  <1>3. ASSUME IsInjective(s), IsInjective(t), Range(s) \cap Range(t) = {}
        PROVE  IsInjective(u)
    <2> SUFFICES ASSUME NEW i \in 1 .. m + n, NEW j \in 1 .. m + n, u[i] = u[j]
                 PROVE  i = j
      BY <1>1 DEF IsInjective
    <2>1. CASE i <= m /\ j <= m
      <3>1. i \in 1 .. m /\ j \in 1 .. m /\ s[i] = s[j]
        BY <1>1, <2>1
      <3> QED BY <1>1, <1>3, <3>1 DEF IsInjective
    <2>2. CASE i > m /\ j > m
      <3>1. i - m \in 1 .. n /\ j - m \in 1 .. n /\ t[i - m] = t[j - m]
        BY <1>1, <2>2
      <3>2. i - m = j - m
        BY <1>1, <1>3, <3>1 DEF IsInjective
      <3> QED BY <1>1, <3>2
    <2>3. \A a \in 1 .. m, b \in 1 .. n : s[a] # t[b]
      BY <1>1, <1>3 DEF Range
    <2>4. CASE i <= m /\ j > m
      BY <1>1, <2>3, <2>4
    <2>5. CASE i > m /\ j <= m
      BY <1>1, <2>3, <2>5
    <2> QED BY <1>1, <2>1, <2>2, <2>4, <2>5
  <1> QED BY <1>1, <1>2, <1>3 DEF u

(* The members behind position i move up. *)
LEMMA RemoveMembers ==
  ASSUME NEW S, NEW s \in Seq(S), NEW i \in DOMAIN s
  PROVE  /\ RemoveAt(s, i) \in Seq(S)
         /\ DOMAIN RemoveAt(s, i) = 1 .. Len(s) - 1
         /\ \A k \in 1 .. Len(s) - 1 :
              RemoveAt(s, i)[k] = IF k < i THEN s[k] ELSE s[k + 1]
  <1> DEFINE n == Len(s)
             a == SubSeq(s, 1, i - 1)
             b == SubSeq(s, i + 1, n)
  <1>1. n \in Nat /\ DOMAIN s = 1 .. n /\ i \in 1 .. n /\ s \in [1 .. n -> S]
    BY LenProperties
  <1>2. /\ a \in Seq(S) /\ Len(a) = i - 1
        /\ \A k \in 1 .. i - 1 : a[k] = s[k]
    <2>1. \A k \in 1 .. i - 1 : s[k] \in S
      BY <1>1
    <2>2. 1 \in Int /\ i - 1 \in Int
      BY <1>1
    <2>3. /\ a \in Seq(S)
          /\ Len(a) = IF 1 <= i - 1 THEN i - 1 - 1 + 1 ELSE 0
          /\ \A k \in 1 .. i - 1 - 1 + 1 : a[k] = s[1 + k - 1]
      BY <2>1, <2>2, SubSeqProperties
    <2> QED BY <1>1, <2>3
  <1>3. /\ b \in Seq(S) /\ Len(b) = n - i
        /\ \A k \in 1 .. n - i : b[k] = s[i + k]
    <2>1. \A k \in i + 1 .. n : s[k] \in S
      BY <1>1
    <2>2. i + 1 \in Int /\ n \in Int
      BY <1>1
    <2>3. /\ b \in Seq(S)
          /\ Len(b) = IF i + 1 <= n THEN n - (i + 1) + 1 ELSE 0
          /\ \A k \in 1 .. n - (i + 1) + 1 : b[k] = s[i + 1 + k - 1]
      BY <2>1, <2>2, SubSeqProperties
    <2> QED BY <1>1, <2>3
  <1>4. RemoveAt(s, i) = a \o b
    BY DEF RemoveAt
  <1> HIDE DEF n, a, b
  <1>5. /\ Len(a \o b) = i - 1 + n - i /\ a \o b \in Seq(S)
        /\ \A k \in 1 .. i - 1 + n - i :
             (a \o b)[k] = IF k <= i - 1 THEN a[k] ELSE b[k - (i - 1)]
    BY SMTT(30), <1>1, <1>2, <1>3, ConcatProperties
  <1>6. DOMAIN (a \o b) = 1 .. n - 1
    BY <1>1, <1>5, LenProperties
  <1>7. ASSUME NEW k \in 1 .. n - 1
        PROVE  (a \o b)[k] = IF k < i THEN s[k] ELSE s[k + 1]
    <2>1. CASE k < i
      BY <1>1, <1>2, <1>5, <2>1
    <2>2. CASE ~ (k < i)
      <3>1. k \in Int /\ i \in Int
        BY <1>1
      <3>2. k - (i - 1) \in 1 .. n - i /\ i + (k - (i - 1)) = k + 1
        BY <1>1, <2>2, <3>1
      <3>3. k \in 1 .. i - 1 + n - i /\ ~ (k <= i - 1)
        BY <1>1, <2>2, <3>1
      <3>4. (a \o b)[k] = b[k - (i - 1)]
        BY <1>5, <3>3
      <3>5. b[k - (i - 1)] = s[k + 1]
        BY <1>3, <3>2
      <3> QED BY <2>2, <3>1, <3>4, <3>5
    <2> QED BY <2>1, <2>2
  <1> QED BY <1>4, <1>5, <1>6, <1>7 DEF n

(* Dequeueing the member at position i removes that member. *)
LEMMA RemoveQueue ==
  ASSUME NEW S, NEW s \in Seq(S), NEW i \in DOMAIN s
  PROVE  /\ s[i] \in S /\ s[i] \in Range(s)
         /\ RemoveAt(s, i) \in Seq(S)
         /\ IsInjective(s) => /\ Range(RemoveAt(s, i)) = Range(s) \ {s[i]}
                              /\ IsInjective(RemoveAt(s, i))
  <1> DEFINE n == Len(s)
             t == RemoveAt(s, i)
             From(k) == IF k < i THEN k ELSE k + 1
             To(k) == IF k < i THEN k ELSE k - 1
  <1>1. n \in Nat /\ DOMAIN s = 1 .. n /\ i \in 1 .. n /\ s \in [1 .. n -> S]
    BY LenProperties
  <1>2. t \in Seq(S) /\ DOMAIN t = 1 .. n - 1
    BY RemoveMembers
  <1>3. \A k \in 1 .. n - 1 : t[k] = s[From(k)]
    BY RemoveMembers
  <1> HIDE DEF n, t
  <1>4. \A k \in 1 .. n - 1 : From(k) \in 1 .. n /\ From(k) # i /\ To(From(k)) = k
    BY <1>1
  <1>5. \A k \in 1 .. n : k # i => To(k) \in 1 .. n - 1 /\ From(To(k)) = k
    BY <1>1
  <1> HIDE DEF From, To
  <1>6. s[i] \in S /\ s[i] \in Range(s)
    BY <1>1 DEF Range
  <1>7. ASSUME IsInjective(s)
        PROVE  Range(t) = Range(s) \ {s[i]} /\ IsInjective(t)
    <2>1. Range(t) \subseteq Range(s) \ {s[i]}
      BY <1>1, <1>2, <1>3, <1>4, <1>7 DEF Range, IsInjective
    <2>2. Range(s) \ {s[i]} \subseteq Range(t)
      <3> SUFFICES ASSUME NEW k \in 1 .. n, k # i PROVE s[k] \in Range(t)
        BY <1>1 DEF Range
      <3>1. To(k) \in DOMAIN t /\ t[To(k)] = s[k]
        BY <1>2, <1>3, <1>5
      <3> QED BY <3>1 DEF Range
    <2>3. IsInjective(t)
      <3> SUFFICES ASSUME NEW k \in 1 .. n - 1, NEW l \in 1 .. n - 1, t[k] = t[l]
                   PROVE  k = l
        BY <1>2 DEF IsInjective
      <3>1. From(k) = From(l)
        BY <1>1, <1>3, <1>4, <1>7 DEF IsInjective
      <3> QED BY <1>4, <3>1
    <2> QED BY <2>1, <2>2, <2>3
  <1> QED BY <1>2, <1>6, <1>7 DEF t

(* A queue with at most one member. *)
LEMMA ShortQueue ==
  ASSUME NEW S, NEW s \in Seq(S), Len(s) <= 1
  PROVE  s = <<>> \/ (DOMAIN s = {1} /\ s[1] \in S /\ s = <<s[1]>> /\ Range(s) = {s[1]})
  <1>1. Len(s) \in Nat /\ DOMAIN s = 1 .. Len(s) /\ s \in [1 .. Len(s) -> S]
    BY LenProperties
  <1>2. CASE Len(s) = 0
    BY <1>2, EmptySeq
  <1>3. CASE Len(s) = 1
    BY <1>1, <1>3 DEF Range
  <1> QED BY <1>1, <1>2, <1>3

(* Flattening no queue, and one queue. *)
LEMMA FlattenEmpty == FlattenSeq(<<>>) = <<>>
  BY DEF FlattenSeq

LEMMA FlattenOne ==
  ASSUME NEW S, NEW s \in Seq(S)
  PROVE  FlattenSeq(<<s>>) = s
  <1> DEFINE ss == <<s>>
             R(g, i) == IF i = 1 THEN ss[i] ELSE g[i - 1] \o ss[i]
             IsFlat(f) == f = [i \in 1 .. 1 |-> R(f, i)]
  <1>1. IsFlat([i \in 1 .. 1 |-> s])
    OBVIOUS
  <1>2. IsFlat(CHOOSE f : IsFlat(f))
    BY <1>1
  <1>3. (CHOOSE f : IsFlat(f))[1] = s
    BY <1>2
  <1>4. FlattenSeq(ss) = (CHOOSE f : IsFlat(f))[1]
    BY DEF FlattenSeq
  <1> QED BY <1>3, <1>4

-----------------------------------------------------------------------------
(* A set of natural numbers that is not empty has a least member: of the    *)
(* intervals 0 .. n for its members one is smallest, since inclusion is     *)
(* well-founded on finite sets.                                             *)
LEMMA LeastMember ==
  ASSUME NEW T, T \subseteq Nat, T # {}
  PROVE  \E x \in T : \A y \in T : x <= y
  <1> DEFINE Below == {0 .. n : n \in T}
             R == StrictSubsetOrdering(Nat)
             D == FiniteSubsetsOf(Nat)
  <1>1. IsWellFoundedOn(R, D)
    BY FS_StrictSubsetOrderingWellFounded
  <1>2. Below \subseteq D /\ Below # {}
    <2>1. \A n \in T : IsFiniteSet(0 .. n) /\ 0 .. n \subseteq Nat
      BY FS_Interval
    <2> QED BY <2>1 DEF FiniteSubsetsOf
  <1> HIDE DEF R, D, Below
  <1>3. PICK X \in Below : \A Y \in Below : <<Y, X>> \notin R
    BY <1>1, <1>2, WFMin
  <1>4. PICK x \in T : X = 0 .. x
    BY <1>3 DEF Below
  <1>5. ASSUME NEW y \in T, y < x PROVE FALSE
    <2>1. 0 .. y \in Below
      BY DEF Below
    <2>2. 0 .. y \subseteq 0 .. x /\ 0 .. y # 0 .. x /\ 0 .. x \subseteq Nat
      <3>1. x \notin 0 .. y /\ x \in 0 .. x
        BY <1>5
      <3> QED BY <1>5, <3>1
    <2>3. <<0 .. y, X>> \in R
      BY <1>4, <2>2 DEF R, StrictSubsetOrdering
    <2> QED BY <1>3, <2>1, <2>3
  <1> QED BY <1>5

(* Induction, over the set of the numbers that have the property.  (The     *)
(* library states it with an operator, which no prover here instantiates.)  *)
LEMMA SetInduction ==
  ASSUME NEW T, 0 \in T, \A n \in T \cap Nat : n + 1 \in T
  PROVE  Nat \subseteq T
  <1> SUFFICES ASSUME Nat \ T # {} PROVE FALSE
    OBVIOUS
  <1>1. PICK x \in Nat \ T : \A y \in Nat \ T : x <= y
    BY LeastMember
  <1>2. x # 0 /\ x - 1 \in Nat /\ x - 1 \in T
    BY <1>1
  <1>3. (x - 1) + 1 = x
    OBVIOUS
  <1> QED BY <1>1, <1>2, <1>3

=============================================================================
