--------------------------- MODULE LinkedQueuesProofs ---------------------------
(***************************************************************************)
(* The lists of the thread library, spliced by hand, implement the          *)
(* sequences of ThreadSched, for any number of threads and wait queues.     *)
(***************************************************************************)
EXTENDS LinkedQueues, QueueLemmas

(* The constants, as the proofs use them. *)
LEMMA Pointers ==
  /\ MaxThreads \in Nat \ {0} /\ 0 \in Tid /\ Tid \subseteq Pointer /\ NULL \in Pointer
  /\ NULL \notin Tid /\ Tid \subseteq WaitQueues /\ Queues \subseteq WaitQueues
  /\ Queues \cap Tid = {} /\ \A p \in Pointer : p # NULL => p \in Tid
  BY LinkedAssumption DEF Tid, NULL, Pointer, WaitQueues

-----------------------------------------------------------------------------
(* Lists in memory. *)

(* s is the list that starts with h. *)
IsList(nx, h, s) ==
  /\ s \in Seq(Tid)
  /\ h = IF s = <<>> THEN NULL ELSE s[1]
  /\ \A i \in 1 .. Len(s) : nx[s[i]] = IF i = Len(s) THEN NULL ELSE s[i + 1]

(* No chain runs in circles: no set of threads keeps its next fields.       *)
Acyclic(nx) == \A S \in SUBSET Tid : S # {} => \E t \in S : nx[t] \notin S

(* NULL starts the empty list only. *)
LEMMA EmptyList ==
  ASSUME NEW nx
  PROVE  /\ IsList(nx, NULL, <<>>)
         /\ \A s : IsList(nx, NULL, s) => s = <<>>
         /\ \A h : IsList(nx, h, <<>>) => h = NULL
  <1>1. IsList(nx, NULL, <<>>)
    BY EmptySeq DEF IsList
  <1>2. ASSUME NEW s, IsList(nx, NULL, s), s # <<>> PROVE FALSE
    BY <1>2, Pointers, LenProperties, EmptySeq DEF IsList
  <1>3. ASSUME NEW h, IsList(nx, h, <<>>) PROVE h = NULL
    BY <1>3 DEF IsList
  <1> QED BY <1>1, <1>2, <1>3

(* A thread in front of a list. *)
LEMMA ConsList ==
  ASSUME NEW nx, NEW t \in Tid, NEW u, IsList(nx, nx[t], u)
  PROVE  IsList(nx, t, <<t>> \o u)
  <1> DEFINE s == <<t>> \o u
  <1>1. /\ u \in Seq(Tid) /\ Len(u) \in Nat /\ s \in Seq(Tid) /\ Len(s) = Len(u) + 1
        /\ s[1] = t /\ \A i \in 2 .. Len(s) : s[i] = u[i - 1]
    BY ConcatProperties, LenProperties DEF IsList
  <1>2. \A i \in 2 .. Len(s) : i - 1 \in 1 .. Len(u)
    BY <1>1
  <1> HIDE DEF s
  <1>3. ASSUME NEW i \in 1 .. Len(s)
        PROVE  nx[s[i]] = IF i = Len(s) THEN NULL ELSE s[i + 1]
    <2>1. CASE i = 1 /\ u = <<>>
      BY <1>1, <2>1 DEF IsList
    <2>2. CASE i = 1 /\ u # <<>>
      <3>1. Len(u) >= 1 /\ nx[t] = u[1] /\ Len(s) # 1 /\ 2 \in 2 .. Len(s)
        BY <1>1, <2>2, LenProperties, EmptySeq DEF IsList
      <3>2. s[2] = u[1]
        BY <1>1, <3>1
      <3> QED BY <1>1, <2>2, <3>1, <3>2
    <2>3. CASE i # 1
      <3>1. i \in 2 .. Len(s) /\ i - 1 \in 1 .. Len(u)
        BY <1>1, <2>3
      <3>2. s[i] = u[i - 1]
        BY <1>1, <3>1
      <3>3. nx[u[i - 1]] = IF i - 1 = Len(u) THEN NULL ELSE u[i]
        BY <3>1 DEF IsList
      <3>4. i # Len(s) => i + 1 \in 2 .. Len(s) /\ (i + 1) - 1 = i
        BY <1>1, <3>1
      <3>5. i # Len(s) => s[i + 1] = u[i]
        BY <1>1, <3>4
      <3> QED BY <1>1, <3>1, <3>2, <3>3, <3>5
    <2> QED BY <2>1, <2>2, <2>3
  <1>4. s # <<>>
    BY <1>1, EmptySeq
  <1> QED BY <1>1, <1>3, <1>4 DEF IsList, s

(* A list but for its head. *)
LEMMA RestList ==
  ASSUME NEW nx, NEW h, NEW s, IsList(nx, h, s), s # <<>>
  PROVE  /\ h \in Tid /\ h = Head(s) /\ nx[h] \in Pointer
         /\ IsList(nx, nx[h], Tail(s)) /\ s = <<h>> \o Tail(s)
  <1>1. PICK u : u = Tail(s)
    OBVIOUS
  <1>2. /\ s \in Seq(Tid) /\ Len(s) \in Nat /\ Len(s) >= 1 /\ h = s[1] /\ s[1] \in Tid
        /\ h = Head(s) /\ u \in Seq(Tid) /\ Len(u) = Len(s) - 1
        /\ \A i \in 1 .. Len(s) - 1 : u[i] = s[i + 1]
        /\ u = <<>> <=> Len(u) = 0
    <2>1. s \in Seq(Tid) /\ Len(s) \in Nat /\ Len(s) >= 1 /\ h = s[1]
      BY LenProperties, EmptySeq DEF IsList
    <2>2. /\ s[1] \in Tid /\ s[1] = Head(s) /\ u \in Seq(Tid) /\ Len(u) = Len(s) - 1
          /\ \A i \in 1 .. Len(s) - 1 : u[i] = s[i + 1]
      <3>1. 1 \in 1 .. Len(s)
        BY <2>1
      <3> QED BY <1>1, <2>1, <3>1, HeadTailProperties, ElementOfSeq
    <2>3. u = <<>> <=> Len(u) = 0
      BY <2>2, EmptySeq
    <2> QED BY <2>1, <2>2, <2>3
  <1>3. \A i \in 1 .. Len(s) : nx[s[i]] = IF i = Len(s) THEN NULL ELSE s[i + 1]
    BY DEF IsList
  <1>4. nx[h] = IF u = <<>> THEN NULL ELSE u[1]
    <2>1. nx[s[1]] = IF 1 = Len(s) THEN NULL ELSE s[1 + 1]
      <3>1. 1 \in 1 .. Len(s)
        BY <1>2
      <3> QED BY <1>3, <3>1
    <2>2. u # <<>> => 1 \in 1 .. Len(s) - 1
      BY <1>2
    <2>3. u # <<>> => u[1] = s[1 + 1]
      BY <1>2, <2>2
    <2> QED BY <1>2, <2>1, <2>3
  <1>5. ASSUME NEW i \in 1 .. Len(u)
        PROVE  nx[u[i]] = IF i = Len(u) THEN NULL ELSE u[i + 1]
    <2>1. /\ i \in 1 .. Len(s) - 1 /\ i + 1 \in 1 .. Len(s)
          /\ i # Len(u) => i + 1 \in 1 .. Len(s) - 1
          /\ i = Len(u) <=> i + 1 = Len(s)
      BY <1>2
    <2>2. nx[s[i + 1]] = IF i + 1 = Len(s) THEN NULL ELSE s[(i + 1) + 1]
      BY <1>3, <2>1
    <2>3. u[i] = s[i + 1] /\ (i # Len(u) => u[i + 1] = s[(i + 1) + 1])
      BY <1>2, <2>1
    <2> QED BY <2>1, <2>2, <2>3
  <1>6. s = <<h>> \o u
    <2> DEFINE v == <<h>> \o u
    <2>1. /\ v \in Seq(Tid) /\ Len(v) = Len(s) /\ v[1] = s[1]
          /\ \A i \in 2 .. Len(s) : v[i] = u[i - 1]
      BY <1>2, ConcatProperties
    <2> HIDE DEF v
    <2>2. \A i \in 2 .. Len(s) : i - 1 \in 1 .. Len(s) - 1 /\ (i - 1) + 1 = i
      BY <1>2
    <2>3. \A i \in 2 .. Len(s) : v[i] = s[i]
      BY <1>2, <2>1, <2>2
    <2>4. \A i \in 1 .. Len(s) : v[i] = s[i]
      BY <1>2, <2>1, <2>3
    <2>5. s = v
      BY <1>2, <2>1, <2>4, SeqEqual
    <2> QED BY <2>5 DEF v
  <1>7. nx[h] \in Pointer
    <2>1. u # <<>> => u[1] \in Tid
      BY <1>2, ElementOfSeq
    <2> QED BY <1>4, <2>1, Pointers
  <1>8. IsList(nx, nx[h], u)
    BY <1>2, <1>4, <1>5 DEF IsList
  <1>9. IsList(nx, nx[h], Tail(s)) /\ s = <<h>> \o Tail(s)
    BY <1>1, <1>6, <1>8, Zenon
  <1> QED BY <1>2, <1>7, <1>9

(* The same, with a name for the rest. *)
LEMMA Uncons ==
  ASSUME NEW nx \in [Tid -> Pointer], NEW h, NEW s, IsList(nx, h, s), s # <<>>
  PROVE  \E u \in Seq(Tid) : IsList(nx, nx[h], u) /\ s = <<h>> \o u
  <1>1. PICK u : u = Tail(s)
    OBVIOUS
  <1>2. IsList(nx, nx[h], u) /\ s = <<h>> \o u
    BY <1>1, RestList, Zenon
  <1>3. u \in Seq(Tid)
    BY <1>2 DEF IsList
  <1> QED BY <1>2, <1>3, Zenon

(* What is not in a list does not matter to it. *)
LEMMA ListFrame ==
  ASSUME NEW nx, NEW h, NEW s, IsList(nx, h, s),
         NEW ny, \A t \in Range(s) : ny[t] = nx[t]
  PROVE  IsList(ny, h, s)
  <1>1. \A i \in 1 .. Len(s) : s[i] \in Range(s)
    BY LenProperties DEF IsList, Range
  <1> QED BY <1>1 DEF IsList

(* A list is closed under next. *)
LEMMA ListClosed ==
  ASSUME NEW nx, NEW h, NEW s, IsList(nx, h, s), NEW t \in Range(s)
  PROVE  nx[t] = NULL \/ nx[t] \in Range(s)
  <1>1. PICK i \in 1 .. Len(s) : s[i] = t
    BY LenProperties DEF IsList, Range
  <1>2. nx[t] = IF i = Len(s) THEN NULL ELSE s[i + 1]
    BY <1>1 DEF IsList
  <1>3. i # Len(s) => s[i + 1] \in Range(s)
    <2>1. PICK n \in Nat : n = Len(s) /\ DOMAIN s = 1 .. n
      BY LenProperties DEF IsList
    <2>2. i \in 1 .. n
      BY <2>1
    <2>3. i # n => i + 1 \in 1 .. n
      BY <2>2
    <2> QED BY <2>1, <2>3 DEF Range
  <1> QED BY <1>2, <1>3

(* Two lists with the same head are the same. *)
LEMMA OneList ==
  ASSUME NEW nx \in [Tid -> Pointer], Acyclic(nx), NEW h, NEW s, NEW u,
         IsList(nx, h, s), IsList(nx, h, u)
  PROVE  s = u
  <1>0. ASSUME NEW t \in Tid, NEW a, IsList(nx, t, a), a # <<>>
        PROVE  \E v \in Seq(Tid) : IsList(nx, nx[t], v) /\ a = <<t>> \o v
    BY <1>0, Uncons
  <1> DEFINE Two == {t \in Tid : \E a, b \in Seq(Tid) :
                                   IsList(nx, t, a) /\ IsList(nx, t, b) /\ a # b}
  <1>1. ASSUME NEW t \in Two, nx[t] \notin Two PROVE FALSE
    <2>1. PICK a \in Seq(Tid), b \in Seq(Tid) :
                 IsList(nx, t, a) /\ IsList(nx, t, b) /\ a # b
      OBVIOUS
    <2>2. a # <<>> /\ b # <<>>
      BY SMTT(30), <2>1, EmptyList, Pointers
    <2>3. PICK v \in Seq(Tid) : IsList(nx, nx[t], v) /\ a = <<t>> \o v
      BY <1>0, <2>1, <2>2
    <2>4. PICK w \in Seq(Tid) : IsList(nx, nx[t], w) /\ b = <<t>> \o w
      BY <1>0, <2>1, <2>2
    <2>5. v # w
      BY <2>1, <2>3, <2>4
    <2>6. CASE nx[t] = NULL
      BY <2>3, <2>4, <2>5, <2>6, EmptyList
    <2>7. CASE nx[t] \in Tid
      BY <1>1, <2>3, <2>4, <2>5, <2>7
    <2>8. nx[t] \in Pointer
      BY <2>1, <2>2, RestList
    <2> QED BY <2>6, <2>7, <2>8, Pointers
  <1>2. Two = {}
    <2>1. Two \in SUBSET Tid
      OBVIOUS
    <2> HIDE DEF Two
    <2> QED BY <1>1, <2>1 DEF Acyclic
  <1>3. s \in Seq(Tid) /\ u \in Seq(Tid)
    BY DEF IsList
  <1>4. CASE s = <<>> \/ u = <<>>
    BY <1>4, EmptyList
  <1>5. CASE s # <<>>
    <2>1. h \in Tid
      BY <1>5, RestList
    <2> QED BY <1>2, <1>3, <2>1
  <1> QED BY <1>4, <1>5

(* Every pointer leads to a list. *)
LEMMA SomeList ==
  ASSUME NEW nx \in [Tid -> Pointer], Acyclic(nx), NEW p \in Pointer
  PROVE  \E s \in Seq(Tid) : IsList(nx, p, s)
  <1> DEFINE Lost == {t \in Tid : \A s \in Seq(Tid) : ~IsList(nx, t, s)}
  <1>1. ASSUME NEW t \in Lost, nx[t] \notin Lost PROVE FALSE
    <2>1. PICK u \in Seq(Tid) : IsList(nx, nx[t], u)
      <3>1. CASE nx[t] = NULL
        BY <3>1, EmptyList, EmptySeq
      <3>2. CASE nx[t] \in Tid
        BY <1>1, <3>2
      <3> QED BY <3>1, <3>2, Pointers
    <2>2. IsList(nx, t, <<t>> \o u) /\ <<t>> \o u \in Seq(Tid)
      BY <2>1, ConsList DEF IsList
    <2> QED BY <2>2
  <1>2. Lost = {}
    <2>1. Lost \in SUBSET Tid
      OBVIOUS
    <2> HIDE DEF Lost
    <2> QED BY <1>1, <2>1 DEF Acyclic
  <1>3. CASE p = NULL
    BY <1>3, EmptyList, EmptySeq
  <1>4. CASE p \in Tid
    BY <1>2, <1>4
  <1> QED BY <1>3, <1>4, Pointers

(* That list is what the walk along the next fields finds. *)
LEMMA ChainIsList ==
  ASSUME NEW nx \in [Tid -> Pointer], Acyclic(nx), NEW p \in Pointer
  PROVE  IsList(nx, p, Chain(nx, p)) /\ Chain(nx, p) \in Seq(Tid)
  <1> DEFINE Solves(f) ==
               f = [t \in Tid |-> IF nx[t] = NULL THEN <<t>> ELSE <<t>> \o f[nx[t]]]
             walk == CHOOSE f : Solves(f)
             found == [t \in Tid |-> CHOOSE s \in Seq(Tid) : IsList(nx, t, s)]
  <1>1. \A t \in Tid : found[t] \in Seq(Tid) /\ IsList(nx, t, found[t])
    BY SomeList, Pointers
  <1>2. ASSUME NEW t \in Tid
        PROVE  found[t] = IF nx[t] = NULL THEN <<t>> ELSE <<t>> \o found[nx[t]]
    <2> HIDE DEF found
    <2>1. found[t] # <<>>
      BY <1>1, EmptyList, Pointers
    <2>2. PICK u \in Seq(Tid) : found[t] = <<t>> \o u /\ IsList(nx, nx[t], u)
      BY <1>1, <2>1, Uncons
    <2>3. CASE nx[t] = NULL
      <3>1. u = <<>>
        BY <2>2, <2>3, EmptyList
      <3>2. <<t>> \o <<>> = <<t>>
        OBVIOUS
      <3> QED BY <2>2, <2>3, <3>1, <3>2
    <2>4. CASE nx[t] # NULL
      <3>1. nx[t] \in Tid
        BY <2>4, Pointers
      <3>2. u = found[nx[t]]
        BY <1>1, <2>2, <3>1, OneList
      <3> QED BY <2>2, <2>4, <3>2
    <2> QED BY <2>3, <2>4
  <1>3. Solves(found)
    <2>1. found = [t \in Tid |-> found[t]]
      OBVIOUS
    <2> HIDE DEF found
    <2> QED BY <1>2, <2>1
  <1>4. Solves(walk)
    <2> HIDE DEF Solves, found
    <2> QED BY <1>3
  <1>5. Chain(nx, p) = IF p = NULL THEN <<>> ELSE walk[p]
    BY DEF Chain
  <1> HIDE DEF walk, found
  <1>6. \A t \in Tid : IsList(nx, t, walk[t])
    <2> DEFINE Bad == {t \in Tid : ~IsList(nx, t, walk[t])}
    <2>1. \A t \in Tid : walk[t] = IF nx[t] = NULL THEN <<t>> ELSE <<t>> \o walk[nx[t]]
      BY <1>4
    <2>2. ASSUME NEW t \in Bad, nx[t] \notin Bad PROVE FALSE
      <3>1. CASE nx[t] = NULL
        <4>1. IsList(nx, nx[t], <<>>)
          BY <3>1, EmptyList
        <4>2. IsList(nx, t, <<t>> \o <<>>)
          BY <4>1, ConsList
        <4>3. <<t>> \o <<>> = <<t>>
          OBVIOUS
        <4> QED BY <2>1, <2>2, <3>1, <4>2, <4>3
      <3>2. CASE nx[t] \in Tid
        <4>1. IsList(nx, t, <<t>> \o walk[nx[t]])
          BY <2>2, <3>2, ConsList
        <4> QED BY <2>1, <3>2, <4>1, Pointers
      <3> QED BY <3>1, <3>2, Pointers
    <2>3. Bad \in SUBSET Tid
      OBVIOUS
    <2> HIDE DEF Bad
    <2>4. Bad = {}
      BY <2>2, <2>3 DEF Acyclic
    <2> QED BY <2>4 DEF Bad
  <1>7. IsList(nx, p, Chain(nx, p))
    BY <1>5, <1>6, EmptyList, Pointers
  <1> QED BY <1>7 DEF IsList

(* A list is the chain of its head. *)
LEMMA ChainOf ==
  ASSUME NEW nx \in [Tid -> Pointer], Acyclic(nx), NEW p \in Pointer,
         NEW s, IsList(nx, p, s)
  PROVE  Chain(nx, p) = s
  BY ChainIsList, OneList

(* A change of next fields elsewhere leaves a list as it is. *)
LEMMA ChainFrame ==
  ASSUME NEW nx \in [Tid -> Pointer], Acyclic(nx), NEW ny \in [Tid -> Pointer],
         Acyclic(ny), NEW p \in Pointer, \A t \in Range(Chain(nx, p)) : ny[t] = nx[t]
  PROVE  Chain(ny, p) = Chain(nx, p)
  BY ChainIsList, ListFrame, ChainOf

-----------------------------------------------------------------------------
(* Changes of the next fields that make no circle: a next field is reset, a *)
(* thread is bypassed, a list is hung behind a thread that is not in it.    *)

(* Resetting a next field closes no circle. *)
LEMMA CutAcyclic ==
  ASSUME NEW nx \in [Tid -> Pointer], Acyclic(nx), NEW ny \in [Tid -> Pointer],
         NEW e \in Tid, ny[e] = NULL, \A t \in Tid \ {e} : ny[t] = nx[t]
  PROVE  Acyclic(ny)
  <1> SUFFICES ASSUME NEW S \in SUBSET Tid, S # {}, \A t \in S : ny[t] \in S
               PROVE  FALSE
    BY DEF Acyclic
  <1>1. e \notin S
    BY Pointers
  <1>2. \A t \in S : nx[t] \in S
    BY <1>1
  <1> QED BY <1>2 DEF Acyclic

(* Nor does taking a thread out from behind its predecessor. *)
LEMMA BypassAcyclic ==
  ASSUME NEW nx \in [Tid -> Pointer], Acyclic(nx), NEW ny \in [Tid -> Pointer],
         NEW prev \in Tid, NEW leave \in Tid, prev # leave, nx[prev] = leave,
         ny[prev] = nx[leave], ny[leave] = NULL,
         \A t \in Tid \ {prev, leave} : ny[t] = nx[t]
  PROVE  Acyclic(ny)
  <1> SUFFICES ASSUME NEW S \in SUBSET Tid, S # {}, \A t \in S : ny[t] \in S
               PROVE  FALSE
    BY DEF Acyclic
  <1>1. leave \notin S
    BY Pointers
  <1>2. CASE prev \notin S
    <2>1. \A t \in S : nx[t] \in S
      BY <1>1, <1>2
    <2> QED BY <2>1 DEF Acyclic
  <1>3. CASE prev \in S
    <2> DEFINE T == S \cup {leave}
    <2>1. T \in SUBSET Tid /\ T # {} /\ \A t \in T : nx[t] \in T
      BY <1>1, <1>3
    <2> HIDE DEF T
    <2> QED BY <2>1 DEF Acyclic
  <1> QED BY <1>2, <1>3

(* Nor does hanging a list behind a thread that is not in it. *)
LEMMA HangAcyclic ==
  ASSUME NEW nx \in [Tid -> Pointer], Acyclic(nx), NEW ny \in [Tid -> Pointer],
         NEW p, NEW u, IsList(nx, p, u), NEW e \in Tid \ Range(u), ny[e] = p,
         \A t \in Tid \ {e} : ny[t] = nx[t]
  PROVE  Acyclic(ny)
  <1> SUFFICES ASSUME NEW S \in SUBSET Tid, S # {}, \A t \in S : ny[t] \in S
               PROVE  FALSE
    BY DEF Acyclic
  <1>1. CASE e \notin S
    <2>1. \A t \in S : nx[t] \in S
      BY <1>1
    <2> QED BY <2>1 DEF Acyclic
  <1>2. CASE e \in S
    <2> DEFINE T == S \cap Range(u)
    <2>1. p \in S /\ p # NULL
      BY <1>2, Pointers
    <2>2. p \in Range(u)
      <3>1. u \in Seq(Tid) /\ u # <<>> /\ p = u[1]
        BY <2>1 DEF IsList
      <3>2. 1 \in DOMAIN u
        BY <3>1, LenProperties, EmptySeq
      <3> QED BY <3>1, <3>2 DEF Range
    <2>3. \A t \in T : nx[t] \in T
      <3> SUFFICES ASSUME NEW t \in T PROVE nx[t] \in T
        OBVIOUS
      <3>1. nx[t] = NULL \/ nx[t] \in Range(u)
        BY ListClosed
      <3>2. nx[t] \in S
        OBVIOUS
      <3> QED BY <3>1, <3>2, Pointers
    <2>4. T \in SUBSET Tid /\ T # {}
      BY <2>1, <2>2
    <2> HIDE DEF T
    <2> QED BY <2>3, <2>4 DEF Acyclic
  <1> QED BY <1>1, <1>2

(* The last thread of a list is in it, and has no next one. *)
LEMMA LastMember ==
  ASSUME NEW s \in Seq(Tid), s # <<>>
  PROVE  /\ Last(s) = s[Len(s)] /\ Last(s) \in Tid /\ Last(s) \in Range(s)
         /\ IsInjective(s) => \A i \in 1 .. Len(s) : s[i] = Last(s) => i = Len(s)
  <1>1. PICK n \in Nat : n = Len(s) /\ n >= 1 /\ DOMAIN s = 1 .. n
    BY LenProperties, EmptySeq
  <1>2. Last(s) = s[n]
    BY <1>1 DEF Last
  <1>3. n \in DOMAIN s /\ s[n] \in Tid
    BY <1>1, ElementOfSeq
  <1>4. s[n] \in Range(s)
    BY <1>3 DEF Range
  <1>5. IsInjective(s) => \A i \in 1 .. n : s[i] = s[n] => i = n
    BY <1>1, <1>3 DEF IsInjective
  <1> QED BY <1>1, <1>2, <1>3, <1>4, <1>5

(* One list hung behind another. *)
LEMMA JoinLists ==
  ASSUME NEW nx \in [Tid -> Pointer], NEW ny \in [Tid -> Pointer],
         NEW h, NEW s, IsList(nx, h, s), s # <<>>, IsInjective(s),
         NEW p, NEW u, IsList(nx, p, u), Range(s) \cap Range(u) = {},
         ny[Last(s)] = p, \A t \in Tid \ {Last(s)} : ny[t] = nx[t]
  PROVE  IsList(ny, h, s \o u)
  <1>1. PICK n \in Nat : n = Len(s) /\ n >= 1 /\ DOMAIN s = 1 .. n
    BY LenProperties, EmptySeq DEF IsList
  <1>2. PICK k \in Nat : k = Len(u) /\ DOMAIN u = 1 .. k /\ (u = <<>> <=> k = 0)
    BY LenProperties, EmptySeq DEF IsList
  <1>3. /\ s \in Seq(Tid) /\ u \in Seq(Tid) /\ h = s[1]
        /\ p = IF u = <<>> THEN NULL ELSE u[1]
        /\ \A i \in 1 .. n : s[i] \in Tid /\ nx[s[i]] = IF i = n THEN NULL ELSE s[i + 1]
        /\ \A i \in 1 .. k : u[i] \in Tid /\ nx[u[i]] = IF i = k THEN NULL ELSE u[i + 1]
    BY <1>1, <1>2, ElementOfSeq DEF IsList
  <1>4. PICK v : v = s \o u
    OBVIOUS
  <1>5. /\ v \in Seq(Tid) /\ Len(v) = n + k
        /\ \A i \in 1 .. n + k : v[i] = IF i <= n THEN s[i] ELSE u[i - n]
    BY <1>1, <1>2, <1>3, <1>4, ConcatProperties
  <1>6. /\ \A i \in 1 .. n : s[i] = Last(s) => i = n
        /\ s[n] = Last(s)
        /\ \A i \in 1 .. k : u[i] # Last(s)
    <2>1. \A i \in 1 .. k : u[i] \in Range(u)
      BY <1>2 DEF Range
    <2> QED BY <1>1, <1>3, <2>1, LastMember
  <1>7. ASSUME NEW i \in 1 .. n + k
        PROVE  ny[v[i]] = IF i = n + k THEN NULL ELSE v[i + 1]
    <2>1. CASE i < n
      <3>1. i \in 1 .. n /\ i # n /\ i + 1 \in 1 .. n + k /\ i + 1 <= n /\ i # n + k
        BY <2>1
      <3>2. v[i] = s[i] /\ v[i + 1] = s[i + 1]
        BY <1>5, <3>1
      <3>3. ny[s[i]] = nx[s[i]]
        BY <1>3, <1>6, <3>1
      <3> QED BY <1>3, <3>1, <3>2, <3>3
    <2>2. CASE i = n /\ k = 0
      <3>1. n \in 1 .. n + k /\ n + k = n
        BY <1>1, <2>2
      <3>2. v[n] = s[n] /\ ny[s[n]] = p /\ p = NULL
        BY <1>2, <1>3, <1>5, <1>6, <2>2, <3>1
      <3> QED BY <2>2, <3>1, <3>2
    <2>3. CASE i = n /\ k # 0
      <3>1. n \in 1 .. n + k /\ n + k # n /\ n + 1 \in 1 .. n + k /\ (n + 1) - n = 1
            /\ ~(n + 1 <= n)
        BY <1>1, <2>3
      <3>2. v[n] = s[n] /\ v[n + 1] = u[(n + 1) - n]
        BY <1>5, <3>1
      <3>3. ny[s[n]] = p /\ p = u[1]
        BY <1>2, <1>3, <1>6, <2>3
      <3> QED BY <2>3, <3>1, <3>2, <3>3
    <2>4. CASE i > n
      <3>1. /\ i - n \in 1 .. k /\ ~(i <= n) /\ ~(i + 1 <= n)
            /\ i - n = k <=> i = n + k
            /\ i # n + k => i + 1 \in 1 .. n + k /\ (i + 1) - n = (i - n) + 1
        BY <2>4
      <3>2. v[i] = u[i - n] /\ (i # n + k => v[i + 1] = u[(i - n) + 1])
        BY <1>5, <3>1
      <3>3. ny[u[i - n]] = nx[u[i - n]]
        BY <1>3, <1>6, <3>1
      <3>4. nx[u[i - n]] = IF i - n = k THEN NULL ELSE u[(i - n) + 1]
        BY <1>3, <3>1
      <3> QED BY <3>1, <3>2, <3>3, <3>4
    <2> QED BY <2>1, <2>2, <2>3, <2>4
  <1>8. v # <<>> /\ h = v[1]
    <2>1. 1 \in 1 .. n + k /\ 1 <= n /\ n + k # 0
      BY <1>1
    <2> QED BY <1>3, <1>5, <2>1, EmptySeq
  <1>9. IsList(ny, h, v)
    BY <1>5, <1>7, <1>8 DEF IsList
  <1> QED BY <1>4, <1>9

(* A thread taken out of a list, but not from its head. *)
LEMMA BypassList ==
  ASSUME NEW nx \in [Tid -> Pointer], NEW ny \in [Tid -> Pointer],
         NEW h, NEW s, IsList(nx, h, s), IsInjective(s),
         NEW i \in DOMAIN s, i # 1,
         ny[s[i - 1]] = nx[s[i]], \A t \in Tid \ {s[i - 1], s[i]} : ny[t] = nx[t]
  PROVE  IsList(ny, h, RemoveAt(s, i))
  <1>1. PICK n \in Nat : n = Len(s) /\ n >= 2 /\ DOMAIN s = 1 .. n /\ i \in 2 .. n
    <2>1. PICK m \in Nat : m = Len(s) /\ DOMAIN s = 1 .. m
      BY LenProperties DEF IsList
    <2>2. i \in 1 .. m
      BY <2>1
    <2>3. m >= 2 /\ i \in 2 .. m
      BY <2>2
    <2> QED BY <2>1, <2>3
  <1>2. /\ s \in Seq(Tid) /\ s # <<>> /\ h = s[1]
        /\ \A k \in 1 .. n : s[k] \in Tid /\ nx[s[k]] = IF k = n THEN NULL ELSE s[k + 1]
    BY <1>1, ElementOfSeq, EmptySeq DEF IsList
  <1>3. PICK v : v = RemoveAt(s, i)
    OBVIOUS
  <1>4. /\ v \in Seq(Tid) /\ Len(v) = n - 1 /\ Len(v) \in Nat
        /\ \A k \in 1 .. n - 1 : v[k] = IF k < i THEN s[k] ELSE s[k + 1]
    <2>1. /\ v \in Seq(Tid) /\ DOMAIN v = 1 .. n - 1
          /\ \A k \in 1 .. n - 1 : v[k] = IF k < i THEN s[k] ELSE s[k + 1]
      BY <1>1, <1>2, <1>3, RemoveMembers
    <2>2. Len(v) = n - 1
      BY <1>1, <2>1, LenProperties
    <2> QED BY <1>1, <2>1, <2>2
  <1>5. \A j, k \in 1 .. n : s[j] = s[k] => j = k
    BY <1>1 DEF IsInjective
  <1>6. ASSUME NEW k \in 1 .. n - 1
        PROVE  ny[v[k]] = IF k = n - 1 THEN NULL ELSE v[k + 1]
    <2>1. CASE k < i - 1
      <3>1. /\ k \in 1 .. n /\ k # i /\ k # i - 1 /\ k # n - 1 /\ k < i /\ k + 1 < i
            /\ k + 1 \in 1 .. n - 1 /\ i - 1 \in 1 .. n /\ i \in 1 .. n /\ k # n
        BY <1>1, <2>1
      <3>2. v[k] = s[k] /\ v[k + 1] = s[k + 1]
        BY <1>4, <3>1
      <3>3. s[k] # s[i] /\ s[k] # s[i - 1]
        BY <1>5, <3>1
      <3> QED BY <1>2, <3>1, <3>2, <3>3
    <2>2. CASE k = i - 1
      <3>1. /\ k < i /\ i \in 1 .. n /\ ~(k + 1 < i) /\ k + 1 = i
            /\ i = n <=> k = n - 1
            /\ k # n - 1 => k + 1 \in 1 .. n - 1
        BY <1>1, <2>2
      <3>2. v[k] = s[i - 1] /\ (k # n - 1 => v[k + 1] = s[i + 1])
        BY <1>4, <2>2, <3>1
      <3>3. ny[s[i - 1]] = IF i = n THEN NULL ELSE s[i + 1]
        BY <1>2, <3>1
      <3> QED BY <3>1, <3>2, <3>3
    <2>3. CASE k > i - 1
      <3>1. /\ ~(k < i) /\ ~(k + 1 < i) /\ k + 1 \in 1 .. n /\ k + 1 # i /\ k + 1 # i - 1
            /\ i - 1 \in 1 .. n /\ i \in 1 .. n
            /\ k + 1 = n <=> k = n - 1
            /\ k # n - 1 => k + 1 \in 1 .. n - 1
        BY <1>1, <2>3
      <3>2. v[k] = s[k + 1] /\ (k # n - 1 => v[k + 1] = s[(k + 1) + 1])
        BY <1>4, <3>1
      <3>3. s[k + 1] # s[i] /\ s[k + 1] # s[i - 1]
        BY <1>5, <3>1
      <3>4. nx[s[k + 1]] = IF k + 1 = n THEN NULL ELSE s[(k + 1) + 1]
        BY <1>2, <3>1
      <3>5. ny[s[k + 1]] = nx[s[k + 1]]
        BY <1>2, <3>1, <3>3
      <3> QED BY <3>1, <3>2, <3>4, <3>5
    <2> QED BY <1>1, <2>1, <2>2, <2>3
  <1>7. v # <<>> /\ h = v[1]
    <2>1. 1 \in 1 .. n - 1 /\ 1 < i /\ n - 1 # 0
      BY <1>1
    <2> QED BY <1>2, <1>4, <2>1, EmptySeq
  <1>8. IsList(ny, h, v)
    BY <1>4, <1>6, <1>7 DEF IsList
  <1> QED BY <1>3, <1>8

-----------------------------------------------------------------------------
(* The operations on the head and the next fields of a queue.               *)

(* l holds the queue s. *)
IsQueue(l, s) ==
  /\ l \in [head : Pointer, next : [Tid -> Pointer]]
  /\ Acyclic(l.next) /\ IsList(l.next, l.head, s) /\ IsInjective(s)

(* Splicing a list behind a queue appends it. *)
LEMMA SpliceQueue ==
  ASSUME NEW l, NEW s, IsQueue(l, s), NEW p \in Pointer, NEW u,
         IsList(l.next, p, u), IsInjective(u), Range(s) \cap Range(u) = {}
  PROVE  /\ IsQueue(Splice(l, p), s \o u)
         /\ \A t \in Tid \ Range(s) : Splice(l, p).next[t] = l.next[t]
  <1> DEFINE m == Splice(l, p)
  <1>1. /\ l \in [head : Pointer, next : [Tid -> Pointer]] /\ Acyclic(l.next)
        /\ IsList(l.next, l.head, s) /\ s \in Seq(Tid) /\ u \in Seq(Tid)
    BY DEF IsQueue, IsList
  <1>2. IsInjective(s \o u)
    BY <1>1, ConcatQueue DEF IsQueue
  <1>3. CASE l.head = NULL
    <2>1. s = <<>> /\ s \o u = u
      BY <1>1, <1>3, EmptyList, ConcatEmptySeq
    <2>2. m = [l EXCEPT !.head = p]
      BY <1>3 DEF Splice
    <2>3. m \in [head : Pointer, next : [Tid -> Pointer]] /\ m.head = p /\ m.next = l.next
      BY <1>1, <2>2
    <2> HIDE DEF m
    <2>4. IsQueue(m, s \o u)
      BY <1>1, <1>2, <2>1, <2>3 DEF IsQueue
    <2> QED BY <2>3, <2>4 DEF m
  <1>4. CASE l.head # NULL
    <2>1. s # <<>>
      BY <1>1, <1>4, EmptyList
    <2>2. Chain(l.next, l.head) = s
      BY <1>1, ChainOf
    <2>3. Last(s) \in Tid /\ Last(s) \in Range(s)
      BY <1>1, <2>1, LastMember
    <2>4. m = [l EXCEPT !.next[Last(s)] = p]
      BY <1>4, <2>2 DEF Splice
    <2>5. /\ m \in [head : Pointer, next : [Tid -> Pointer]] /\ m.head = l.head
          /\ m.next[Last(s)] = p /\ \A t \in Tid \ {Last(s)} : m.next[t] = l.next[t]
      BY <1>1, <2>3, <2>4
    <2> HIDE DEF m
    <2>6. IsList(m.next, m.head, s \o u)
      BY <1>1, <2>1, <2>5, JoinLists DEF IsQueue
    <2>7. Acyclic(m.next)
      BY <1>1, <2>3, <2>5, HangAcyclic
    <2>8. IsQueue(m, s \o u)
      BY <1>2, <2>5, <2>6, <2>7 DEF IsQueue
    <2> QED BY <2>3, <2>5, <2>8 DEF m
  <1> QED BY <1>3, <1>4

(* A single thread, whose next field is reset. *)
LEMMA SingleList ==
  ASSUME NEW nx, NEW e \in Tid, nx[e] = NULL
  PROVE  /\ IsList(nx, e, <<e>>) /\ IsInjective(<<e>>) /\ Range(<<e>>) = {e}
         /\ <<e>> \in Seq(Tid)
  <1>1. IsList(nx, e, <<e>>)
    BY DEF IsList
  <1>2. IsInjective(<<e>>) /\ Range(<<e>>) = {e} /\ <<e>> \in Seq(Tid)
    BY DEF IsInjective, Range
  <1> QED BY <1>1, <1>2

(* A next field outside of a queue is reset. *)
LEMMA ClearQueue ==
  ASSUME NEW l, NEW s, IsQueue(l, s), NEW e \in Tid \ Range(s)
  PROVE  /\ IsQueue([l EXCEPT !.next[e] = NULL], s)
         /\ [l EXCEPT !.next[e] = NULL].next = [l.next EXCEPT ![e] = NULL]
         /\ [l EXCEPT !.next[e] = NULL].head = l.head
  <1> DEFINE m == [l EXCEPT !.next[e] = NULL]
  <1>1. l \in [head : Pointer, next : [Tid -> Pointer]]
    BY DEF IsQueue
  <1>2. /\ m \in [head : Pointer, next : [Tid -> Pointer]] /\ m.head = l.head
        /\ m.next = [l.next EXCEPT ![e] = NULL]
    BY <1>1, Pointers
  <1>3. m.next[e] = NULL /\ \A t \in Tid \ {e} : m.next[t] = l.next[t]
    BY <1>1, <1>2
  <1> HIDE DEF m
  <1>4. Acyclic(m.next)
    BY <1>1, <1>2, <1>3, CutAcyclic DEF IsQueue
  <1>5. Range(s) \subseteq Tid
    BY RangeOfSeq DEF IsQueue, IsList
  <1>6. IsList(m.next, m.head, s)
    <2>1. \A t \in Range(s) : m.next[t] = l.next[t]
      BY <1>3, <1>5
    <2> QED BY <1>2, <2>1, ListFrame DEF IsQueue
  <1>7. IsQueue(m, s)
    BY <1>2, <1>4, <1>6 DEF IsQueue
  <1> QED BY <1>2, <1>7 DEF m

(* enqueue, of a thread whose next field is reset. *)
LEMMA EnqueueQueue ==
  ASSUME NEW l, NEW s, IsQueue(l, s), NEW e \in Tid \ Range(s), l.next[e] = NULL
  PROVE  /\ IsQueue(Enqueue(l, e), Append(s, e)) /\ Enqueue(l, e).next[e] = NULL
         /\ \A t \in Tid \ Range(s) : Enqueue(l, e).next[t] = l.next[t]
         /\ Splice(l, e) = Enqueue(l, e)
  <1>1. s \in Seq(Tid)
    BY DEF IsQueue, IsList
  <1>2. PICK m : m = Splice(l, e)
    OBVIOUS
  <1>3. IsQueue(m, s \o <<e>>) /\ \A t \in Tid \ Range(s) : m.next[t] = l.next[t]
    <2>1. /\ IsList(l.next, e, <<e>>) /\ IsInjective(<<e>>)
          /\ Range(s) \cap Range(<<e>>) = {} /\ e \in Pointer
      BY SingleList, Pointers
    <2> QED BY <1>2, <2>1, SpliceQueue
  <1>4. Append(s, e) = s \o <<e>>
    BY <1>1, AppendIsConcat
  <1>5. m \in [head : Pointer, next : [Tid -> Pointer]] /\ m.next[e] = NULL
    BY <1>3 DEF IsQueue
  <1>6. [m EXCEPT !.next[e] = NULL] = m
    <2>1. [m.next EXCEPT ![e] = NULL] = m.next
      BY <1>5
    <2> QED BY <1>5, <2>1
  <1>7. Enqueue(l, e) = m
    BY <1>2, <1>6 DEF Enqueue
  <1> QED BY <1>2, <1>3, <1>4, <1>5, <1>7

(* The rest of a queue, which its head still points to. *)
LEMMA RestQueue ==
  ASSUME NEW l, NEW s, IsQueue(l, s), s # <<>>
  PROVE  /\ l.head \in Tid /\ l.head = Head(s) /\ Head(s) \in Range(s)
         /\ Tail(s) \in Seq(Tid) /\ l.head \notin Range(Tail(s))
         /\ IsQueue([l EXCEPT !.head = l.next[l.head]], Tail(s))
         /\ [l EXCEPT !.head = l.next[l.head]].next = l.next
         /\ [l EXCEPT !.head = l.next[l.head]].head = l.next[l.head]
  <1> DEFINE m == [l EXCEPT !.head = l.next[l.head]]
  <1>1. l \in [head : Pointer, next : [Tid -> Pointer]] /\ IsList(l.next, l.head, s)
    BY DEF IsQueue
  <1>2. /\ l.head \in Tid /\ l.head = Head(s) /\ l.next[l.head] \in Pointer
        /\ IsList(l.next, l.next[l.head], Tail(s))
    BY <1>1, RestList
  <1>3. /\ m \in [head : Pointer, next : [Tid -> Pointer]]
        /\ m.head = l.next[l.head] /\ m.next = l.next
    BY <1>1, <1>2
  <1> HIDE DEF m
  <1>4. s \in Seq(Tid) /\ IsInjective(s)
    BY DEF IsQueue, IsList
  <1>5. /\ Tail(s) \in Seq(Tid) /\ IsInjective(Tail(s)) /\ Head(s) \in Range(s)
        /\ Range(Tail(s)) = Range(s) \ {Head(s)}
    BY <1>4, TailQueue
  <1>6. IsQueue(m, Tail(s))
    BY <1>2, <1>3, <1>5 DEF IsQueue
  <1> QED BY <1>2, <1>3, <1>5, <1>6 DEF m

(* Beheading a queue leaves its tail. *)
LEMMA BeheadQueue ==
  ASSUME NEW l, NEW s, IsQueue(l, s), s # <<>>
  PROVE  /\ IsQueue(Behead(l), Tail(s)) /\ Behead(l).next[l.head] = NULL
         /\ \A t \in Tid \ {l.head} : Behead(l).next[t] = l.next[t]
  <1>1. PICK m : m = [l EXCEPT !.head = l.next[l.head]]
    OBVIOUS
  <1>2. /\ l.head \in Tid /\ l.head \notin Range(Tail(s)) /\ IsQueue(m, Tail(s))
        /\ m.next = l.next /\ m.head = l.next[l.head]
    BY <1>1, RestQueue
  <1>3. PICK k : k = [m EXCEPT !.next[l.head] = NULL]
    OBVIOUS
  <1>4. IsQueue(k, Tail(s)) /\ k.next = [m.next EXCEPT ![l.head] = NULL] /\ k.head = m.head
    BY <1>2, <1>3, ClearQueue
  <1>5. k = [head |-> k.head, next |-> k.next]
    BY <1>4 DEF IsQueue
  <1>6. Behead(l) = k
    BY <1>2, <1>4, <1>5 DEF Behead
  <1>7. l.next \in [Tid -> Pointer]
    BY DEF IsQueue
  <1>8. k.next[l.head] = NULL /\ \A t \in Tid \ {l.head} : k.next[t] = l.next[t]
    BY <1>2, <1>4, <1>7
  <1> QED BY <1>4, <1>6, <1>8

(* Taking the first of a sequence out leaves the tail. *)
LEMMA RemoveHead ==
  ASSUME NEW s \in Seq(Tid), s # <<>>
  PROVE  RemoveAt(s, 1) = Tail(s)
  <1>1. PICK n \in Nat : n = Len(s) /\ DOMAIN s = 1 .. n /\ n >= 1
    BY LenProperties, EmptySeq
  <1>2. PICK u : u = Tail(s)
    OBVIOUS
  <1>3. PICK v : v = RemoveAt(s, 1)
    OBVIOUS
  <1>4. u \in Seq(Tid) /\ Len(u) = n - 1 /\ \A k \in 1 .. n - 1 : u[k] = s[k + 1]
    BY <1>1, <1>2, HeadTailProperties
  <1>5. 1 \in DOMAIN s
    BY <1>1
  <1>6. /\ v \in Seq(Tid) /\ DOMAIN v = 1 .. n - 1
        /\ \A k \in 1 .. n - 1 : v[k] = IF k < 1 THEN s[k] ELSE s[k + 1]
    BY <1>1, <1>3, <1>5, RemoveMembers
  <1>7. Len(v) = n - 1
    BY <1>1, <1>6, LenProperties
  <1>8. \A k \in 1 .. n - 1 : v[k] = u[k]
    BY <1>1, <1>4, <1>6
  <1>9. v = u
    BY <1>4, <1>6, <1>7, <1>8, SeqEqual
  <1> QED BY <1>2, <1>3, <1>9

(* dequeue, of the member at position i. *)
LEMMA DequeueQueue ==
  ASSUME NEW l, NEW s, IsQueue(l, s), NEW i \in DOMAIN s
  PROVE  /\ IsQueue(Dequeue(l, s[i]), RemoveAt(s, i)) /\ Dequeue(l, s[i]).next[s[i]] = NULL
         /\ \A t \in Tid \ Range(s) : Dequeue(l, s[i]).next[t] = l.next[t]
  <1>1. PICK n \in Nat : n = Len(s) /\ DOMAIN s = 1 .. n /\ n >= 1 /\ i \in 1 .. n
    <2>1. PICK m \in Nat : m = Len(s) /\ DOMAIN s = 1 .. m
      BY LenProperties DEF IsQueue, IsList
    <2>2. i \in 1 .. m
      BY <2>1
    <2>3. m >= 1
      BY <2>2
    <2> QED BY <2>1, <2>2, <2>3
  <1>2. /\ l \in [head : Pointer, next : [Tid -> Pointer]] /\ Acyclic(l.next)
        /\ IsList(l.next, l.head, s) /\ s \in Seq(Tid) /\ s # <<>> /\ l.head = s[1]
        /\ \A k \in 1 .. n : /\ s[k] \in Tid /\ s[k] \in Range(s)
                             /\ l.next[s[k]] = IF k = n THEN NULL ELSE s[k + 1]
        /\ \A j, k \in 1 .. n : s[j] = s[k] => j = k
    <2>1. s \in Seq(Tid) /\ IsList(l.next, l.head, s) /\ IsInjective(s)
      BY DEF IsQueue, IsList
    <2>2. s # <<>>
      BY <1>1, EmptySeq
    <2>3. \A k \in 1 .. n : s[k] \in Tid /\ s[k] \in Range(s)
      BY <1>1, <2>1, ElementOfSeq DEF Range
    <2>4. \A j, k \in 1 .. n : s[j] = s[k] => j = k
      BY <1>1, <2>1 DEF IsInjective
    <2> QED BY <1>1, <2>1, <2>2, <2>3, <2>4 DEF IsQueue, IsList
  <1>3. 1 \in 1 .. n
    BY <1>1
  <1>4. l.next[l.head] = NULL \/ l.head = s[i] <=> i = 1
    <2>1. CASE i = 1
      BY <1>2, <2>1
    <2>2. CASE i # 1
      <3>1. n # 1 /\ 1 + 1 \in 1 .. n
        BY <1>1, <2>2
      <3>2. l.next[s[1]] = s[1 + 1]
        BY <1>2, <1>3, <3>1
      <3>3. s[1 + 1] # NULL
        BY <1>2, <3>1, Pointers
      <3>4. s[1] # s[i]
        BY <1>1, <1>2, <1>3, <2>2
      <3> QED BY <1>2, <2>2, <3>2, <3>3, <3>4
    <2> QED BY <2>1, <2>2
  <1>5. CASE i = 1
    <2>1. Dequeue(l, s[i]) = Behead(l)
      BY <1>4, <1>5 DEF Dequeue
    <2>2. RemoveAt(s, i) = Tail(s)
      BY <1>2, <1>5, RemoveHead
    <2>3. \A t \in Tid \ Range(s) : t # l.head
      BY <1>2, <1>3
    <2>4. /\ IsQueue(Behead(l), Tail(s)) /\ Behead(l).next[l.head] = NULL
          /\ \A t \in Tid \ {l.head} : Behead(l).next[t] = l.next[t]
      BY <1>2, BeheadQueue
    <2>5. l.head = s[i]
      BY <1>2, <1>5
    <2>6. IsQueue(Dequeue(l, s[i]), RemoveAt(s, i))
      BY <2>1, <2>2, <2>4
    <2>7. Dequeue(l, s[i]).next[s[i]] = NULL
      BY <2>1, <2>4, <2>5
    <2>8. \A t \in Tid \ Range(s) : Dequeue(l, s[i]).next[t] = l.next[t]
      BY <2>1, <2>3, <2>4
    <2> QED BY <2>6, <2>7, <2>8
  <1>6. CASE i # 1
    <2>1. i - 1 \in 1 .. n /\ i - 1 # n /\ (i - 1) + 1 = i /\ i - 1 # i
      BY <1>1, <1>6
    <2>2. l.next[s[i - 1]] = s[i] /\ s[i - 1] \in Range(s) /\ s[i - 1] # s[i]
      BY <1>1, <1>2, <2>1
    <2>3. ASSUME NEW p \in Range(s), l.next[p] = s[i] PROVE p = s[i - 1]
      <3>1. PICK k \in 1 .. n : p = s[k]
        BY <1>1 DEF Range
      <3>2. k # n /\ l.next[s[k]] = s[k + 1]
        BY <1>1, <1>2, <2>3, <3>1, Pointers
      <3>3. k + 1 \in 1 .. n
        BY <3>1, <3>2
      <3>4. k + 1 = i
        BY <1>1, <1>2, <2>3, <3>1, <3>2, <3>3
      <3>5. k = i - 1
        BY <1>1, <3>4
      <3> QED BY <3>1, <3>5
    <2>4. Chain(l.next, l.head) = s
      BY <1>2, ChainOf
    <2>5. (CHOOSE p \in Range(Chain(l.next, l.head)) : l.next[p] = s[i]) = s[i - 1]
      BY <2>2, <2>3, <2>4
    <2>6. PICK ny : ny = [l.next EXCEPT ![s[i - 1]] = l.next[s[i]], ![s[i]] = NULL]
      OBVIOUS
    <2>7. Dequeue(l, s[i]) = [l EXCEPT !.next = ny]
      BY <1>4, <1>6, <2>5, <2>6 DEF Dequeue
    <2>8. s[i] \in Tid /\ s[i] \in Range(s) /\ s[i - 1] \in Tid
      BY <1>1, <1>2, <2>1
    <2>9. /\ ny \in [Tid -> Pointer] /\ ny[s[i - 1]] = l.next[s[i]] /\ ny[s[i]] = NULL
          /\ \A t \in Tid \ {s[i - 1], s[i]} : ny[t] = l.next[t]
      BY <1>2, <2>2, <2>6, <2>8, Pointers
    <2>10. PICK m : m = [l EXCEPT !.next = ny]
      OBVIOUS
    <2>11. /\ m \in [head : Pointer, next : [Tid -> Pointer]] /\ m.head = l.head
           /\ m.next = ny
      BY <1>2, <2>9, <2>10
    <2>12. IsList(ny, l.head, RemoveAt(s, i))
      BY <1>2, <1>6, <2>9, BypassList DEF IsQueue
    <2>13. Acyclic(ny)
      BY <1>2, <2>2, <2>8, <2>9, BypassAcyclic
    <2>14. IsInjective(RemoveAt(s, i))
      BY <1>2, RemoveQueue DEF IsQueue
    <2>15. IsQueue(m, RemoveAt(s, i))
      BY <2>11, <2>12, <2>13, <2>14 DEF IsQueue
    <2>16. \A t \in Tid \ Range(s) : ny[t] = l.next[t]
      BY <2>2, <2>8, <2>9
    <2> QED BY <2>7, <2>9, <2>10, <2>11, <2>15, <2>16
  <1> QED BY <1>5, <1>6

-----------------------------------------------------------------------------
(* The state.  What is proved of ThreadSched holds of the lists.            *)

SP == INSTANCE ThreadSchedProofs WITH
  ready <- Ready, killq <- Zombies, stranded <- Stranded,
  wq <- [q \in WaitQueues |-> Sleepers(q)]

(* The inductive invariant: the queues account for every thread (SP!IInv),  *)
(* nothing runs in circles, and the next field of the current thread, which *)
(* wait_enqueue does not write, is reset.                                   *)
Shape ==
  /\ LinkedTypeOK /\ Acyclic(next) /\ WaitSizesAreLengths
  /\ Up => next[current] = NULL

LInv == Shape /\ SP!IInv

(* The instance's copies of the operators are the operators. *)
LEMMA SameOperators ==
  /\ \A s : SP!Range(s) = Range(s) /\ (SP!IsInjective(s) <=> IsInjective(s))
  /\ \A s, i : SP!RemoveAt(s, i) = RemoveAt(s, i)
  /\ SP!WaitQueues = WaitQueues /\ SP!Tid = Tid
  <1>1. \A s : SP!Range(s) = Range(s)
    BY DEF SP!Range, Range
  <1>2. \A s : SP!IsInjective(s) <=> IsInjective(s)
    BY DEF SP!IsInjective, IsInjective
  <1>3. SP!WaitQueues = WaitQueues /\ SP!Tid = Tid
    BY DEF SP!WaitQueues, WaitQueues, SP!Tid, Tid
  <1>4. \A s, i : SP!RemoveAt(s, i) = RemoveAt(s, i)
    BY DEF SP!RemoveAt, RemoveAt
  <1> QED BY <1>1, <1>2, <1>3, <1>4

(* The same of the operator that joins the wait queues at an exit. *)
LEMMA SameFlatten == \A s : SP!FlattenSeq(s) = FlattenSeq(s)
  BY DEF SP!FlattenSeq, FlattenSeq

(* For steps in which the name Up stays folded. *)
LEMMA StatusIs == Up <=> status = "up"
  BY DEF Up

(* NULL starts no chain. *)
LEMMA NoChain == \A nx : Chain(nx, NULL) = <<>>
  BY DEF Chain

(* Every head in the state starts the list that the sequence of its name is. *)
LEMMA Lists ==
  ASSUME Shape
  PROVE  /\ next \in [Tid -> Pointer] /\ Acyclic(next) /\ current \in Tid
         /\ readyhead \in Pointer /\ killhead \in Pointer
         /\ \A q \in WaitQueues : head[q] \in Pointer /\ size[q] \in Nat
         /\ \A h \in leaked : h \in Pointer
         /\ IsList(next, readyhead, Ready) /\ Ready \in Seq(Tid)
         /\ IsList(next, killhead, Zombies) /\ Zombies \in Seq(Tid)
         /\ \A q \in WaitQueues : IsList(next, head[q], Sleepers(q)) /\ Sleepers(q) \in Seq(Tid)
  <1>1. /\ next \in [Tid -> Pointer] /\ Acyclic(next) /\ current \in Tid
        /\ readyhead \in Pointer /\ killhead \in Pointer
        /\ \A q \in WaitQueues : head[q] \in Pointer /\ size[q] \in Nat
        /\ \A h \in leaked : h \in Pointer
    BY Pointers DEF Shape, LinkedTypeOK
  <1>2. IsList(next, readyhead, Ready) /\ Ready \in Seq(Tid)
    BY <1>1, ChainIsList DEF Ready
  <1>3. IsList(next, killhead, Zombies) /\ Zombies \in Seq(Tid)
    BY <1>1, ChainIsList DEF Zombies
  <1>4. \A q \in WaitQueues : IsList(next, head[q], Sleepers(q)) /\ Sleepers(q) \in Seq(Tid)
    BY <1>1, ChainIsList DEF Sleepers
  <1> QED BY <1>1, <1>2, <1>3, <1>4

(* No thread is in two lists. *)
Asleep == UNION {Range(Sleepers(q)) : q \in WaitQueues}

(* What the invariance theorem of ThreadSched says of the lists. *)
LEMMA Apart ==
  ASSUME LInv, Up
  PROVE  /\ IsInjective(Ready) /\ IsInjective(Zombies)
         /\ \A q \in WaitQueues : IsInjective(Sleepers(q))
         /\ current \notin Range(Ready) \cup Range(Zombies) \cup Asleep \cup Stranded
         /\ Range(Ready) \cap (Range(Zombies) \cup Asleep \cup Stranded) = {}
         /\ Range(Zombies) \cap (Asleep \cup Stranded) = {}
         /\ Asleep \cap Stranded = {}
         /\ \A q, r \in WaitQueues : q # r => Range(Sleepers(q)) \cap Range(Sleepers(r)) = {}
         /\ exists = {current} \cup Range(Ready) \cup Range(Zombies) \cup Asleep \cup Stranded
         /\ Len(Zombies) <= 1
         /\ \A t \in Tid \ exists : Sleepers(t) = <<>>
  <1>1. SP!NoThreadTwice /\ SP!NoThreadLost /\ SP!OneZombie /\ SP!FreeIdHasNoWaiters
    BY StatusIs DEF LInv, SP!IInv, SP!Accounted
  <1>2. SP!WaitQueues = WaitQueues /\ SP!Tid = Tid
    BY SameOperators
  <1>3. SP!Sleepers = Asleep /\ SP!Zombies = Range(Zombies)
    BY <1>2, SameOperators DEF SP!Sleepers, Asleep, SP!Zombies
  <1>4. /\ current \notin Range(Ready) \cup Range(Zombies) \cup Asleep \cup Stranded
        /\ Range(Ready) \cap (Range(Zombies) \cup Asleep \cup Stranded) = {}
        /\ Range(Zombies) \cap (Asleep \cup Stranded) = {}
        /\ Asleep \cap Stranded = {}
        /\ IsInjective(Ready) /\ IsInjective(Zombies)
    BY <1>1, <1>3, SameOperators DEF SP!NoThreadTwice
  <1>5. \A q, r \in WaitQueues : q # r => Range(Sleepers(q)) \cap Range(Sleepers(r)) = {}
    BY <1>1, <1>2, SameOperators DEF SP!NoThreadTwice
  <1>6. \A q \in WaitQueues : IsInjective(Sleepers(q))
    BY <1>1, <1>2, SameOperators DEF SP!NoThreadTwice
  <1>7. exists = {current} \cup Range(Ready) \cup Range(Zombies) \cup Asleep \cup Stranded
    BY <1>1, <1>3, SameOperators DEF SP!NoThreadLost
  <1>8. Len(Zombies) <= 1
    BY <1>1 DEF SP!OneZombie
  <1>9. \A t \in Tid \ exists : Sleepers(t) = <<>>
    BY <1>1, <1>2, Pointers DEF SP!FreeIdHasNoWaiters
  <1> QED BY <1>4, <1>5, <1>6, <1>7, <1>8, <1>9

(* The ready queue, for the operations on it. *)
LEMMA ReadyQueue ==
  ASSUME LInv, Up
  PROVE  /\ IsQueue(List(readyhead), Ready)
         /\ List(readyhead).head = readyhead /\ List(readyhead).next = next
         /\ current \in Tid \ Range(Ready) /\ next[current] = NULL
         /\ readyhead = NULL <=> Ready = <<>>
         /\ \A q \in WaitQueues : /\ head[q] = NULL <=> Sleepers(q) = <<>>
                                  /\ Range(Sleepers(q)) \cap Range(Ready) = {}
                                  /\ IsInjective(Sleepers(q))
                                  /\ current \notin Range(Sleepers(q))
  <1>1. /\ next \in [Tid -> Pointer] /\ Acyclic(next) /\ readyhead \in Pointer
        /\ IsList(next, readyhead, Ready) /\ current \in Tid
        /\ \A q \in WaitQueues : IsList(next, head[q], Sleepers(q))
    BY Lists DEF LInv
  <1>2. /\ List(readyhead) \in [head : Pointer, next : [Tid -> Pointer]]
        /\ List(readyhead).head = readyhead /\ List(readyhead).next = next
    BY <1>1 DEF List
  <1>3. IsQueue(List(readyhead), Ready)
    BY <1>1, <1>2, Apart DEF IsQueue
  <1>4. readyhead = NULL <=> Ready = <<>>
    BY <1>1, EmptyList
  <1>5. \A q \in WaitQueues : head[q] = NULL <=> Sleepers(q) = <<>>
    BY <1>1, EmptyList
  <1>6. current \notin Range(Ready) /\ next[current] = NULL
    BY Apart DEF LInv, Shape
  <1>7. \A q \in WaitQueues : /\ Range(Sleepers(q)) \cap Range(Ready) = {}
                              /\ IsInjective(Sleepers(q))
                              /\ current \notin Range(Sleepers(q))
    BY Apart DEF Asleep
  <1> QED BY <1>1, <1>2, <1>3, <1>4, <1>5, <1>6, <1>7

(* kill_exit_threads, in a step that changes next fields of ready threads   *)
(* and of the current one only.                                             *)
LEMMA Reap ==
  ASSUME LInv, Up, KillExitThreads, next' \in [Tid -> Pointer], Acyclic(next'),
         \A t \in Tid \ (Range(Ready) \cup {current}) : next'[t] = next[t]
  PROVE  /\ SP!KillExitThreads
         /\ exists' \subseteq exists /\ killhead' \in Pointer
         /\ head' \in [WaitQueues -> Pointer] /\ size' \in [WaitQueues -> Nat]
         /\ leaked' \subseteq Tid
         /\ \A q \in WaitQueues : size'[q] = Len(Sleepers(q)')
  <1> DEFINE G == Range(Zombies)
  <1>1. Zombies' = <<>> /\ exists' = exists \ G
    BY NoChain DEF KillExitThreads, Zombies
  <1>2. G \subseteq Tid /\ \A z \in G : z \in WaitQueues
    BY Lists, RangeOfSeq, Pointers DEF LInv
  <1>3. ASSUME NEW p \in Pointer,
               Range(Chain(next, p)) \cap (Range(Ready) \cup {current}) = {}
        PROVE  Chain(next', p) = Chain(next, p)
    <2>1. Range(Chain(next, p)) \subseteq Tid
      BY Lists, ChainIsList, RangeOfSeq DEF LInv
    <2>2. \A t \in Range(Chain(next, p)) : next'[t] = next[t]
      BY <1>3, <2>1
    <2> QED BY <2>2, Lists, ChainFrame DEF LInv
  <1>4. \A q \in WaitQueues : Chain(next', head[q]) = Chain(next, head[q])
    <2> SUFFICES ASSUME NEW q \in WaitQueues PROVE Chain(next', head[q]) = Chain(next, head[q])
      OBVIOUS
    <2>1. head[q] \in Pointer /\ Range(Sleepers(q)) \cap (Range(Ready) \cup {current}) = {}
      BY Lists, ReadyQueue DEF LInv
    <2> QED BY <1>3, <2>1 DEF Sleepers
  <1>5. \A h \in leaked : Chain(next', h) = Chain(next, h)
    <2> SUFFICES ASSUME NEW h \in leaked PROVE Chain(next', h) = Chain(next, h)
      OBVIOUS
    <2>1. h \in Pointer /\ Range(Chain(next, h)) \subseteq Stranded
      BY Lists DEF LInv, Stranded
    <2>2. Range(Chain(next, h)) \cap (Range(Ready) \cup {current}) = {}
      BY <2>1, Apart
    <2> QED BY <1>3, <2>1, <2>2
  <1>6. \A q \in WaitQueues :
          /\ Sleepers(q)' = IF q \in G THEN <<>> ELSE Sleepers(q)
          /\ size'[q] = IF q \in G THEN 0 ELSE size[q]
    BY <1>4, NoChain DEF KillExitThreads, Sleepers
  <1>7. Stranded' = Stranded \cup UNION {Range(Sleepers(z)) : z \in G}
    <2> DEFINE H == {head[z] : z \in G} \ {NULL}
    <2>1. leaked' = leaked \cup H
      BY DEF KillExitThreads
    <2>2. Stranded' = UNION {Range(Chain(next', h)) : h \in leaked \cup H}
      BY <2>1 DEF Stranded
    <2>3. \A h \in leaked \cup H : Chain(next', h) = Chain(next, h)
      BY <1>2, <1>4, <1>5
    <2>4. Stranded' = UNION {Range(Chain(next, h)) : h \in leaked \cup H}
      BY <2>2, <2>3
    <2>5. \A z \in G : head[z] \notin H => Range(Sleepers(z)) = {}
      BY NoChain, EmptyQueue DEF Sleepers
    <2>6. \A h \in H : \E z \in G : h = head[z]
      OBVIOUS
    <2> HIDE DEF H, G
    <2> QED BY <2>4, <2>5, <2>6 DEF Stranded, Sleepers
  <1>8. SP!KillExitThreads
    <2>1. SP!Zombies = G /\ SP!WaitQueues = WaitQueues
      BY SameOperators DEF SP!Zombies
    <2> HIDE DEF G
    <2>2. [q \in WaitQueues |-> Sleepers(q)]' = SP!Without(G)
      BY <1>2, <1>6, <2>1 DEF SP!Without
    <2>3. UNION {Range(Sleepers(z)) : z \in G}
            = UNION {Range([q \in WaitQueues |-> Sleepers(q)][z]) : z \in G}
      BY <1>2
    <2> QED BY <1>1, <1>7, <2>1, <2>2, <2>3, SameOperators DEF SP!KillExitThreads
  <1>9. /\ head' \in [WaitQueues -> Pointer] /\ size' \in [WaitQueues -> Nat]
        /\ leaked' \subseteq Tid /\ killhead' \in Pointer /\ exists' \subseteq exists
    <2>1. \A z \in G : head[z] \in Pointer
      BY <1>2, Lists DEF LInv
    <2>2. leaked' \subseteq Tid
      BY <2>1, Pointers DEF KillExitThreads, LInv, Shape, LinkedTypeOK
    <2> QED BY <2>2, Pointers DEF KillExitThreads, LInv, Shape, LinkedTypeOK
  <1>10. \A q \in WaitQueues : size'[q] = Len(Sleepers(q)')
    <2>1. \A q \in WaitQueues : size[q] = Len(Sleepers(q))
      BY DEF LInv, Shape, WaitSizesAreLengths
    <2>2. Len(<<>>) = 0
      OBVIOUS
    <2> QED BY <1>6, <2>1, <2>2
  <1> QED BY <1>8, <1>9, <1>10

-----------------------------------------------------------------------------
(* A step that leaves the lists other than the ready queue as they are, but *)
(* for those of exited threads.                                             *)
ReadyStep ==
  /\ next' \in [Tid -> Pointer] /\ Acyclic(next') /\ readyhead' \in Pointer
  /\ \A t \in Tid \ (Range(Ready) \cup {current}) : next'[t] = next[t]
  /\ current' \in Tid /\ next'[current'] = NULL
  /\ ctx' \in [Tid -> Sched!Ctx] /\ setcontext_called' \in {0, 1}
  /\ status' \in Sched!Status
  /\ masked' \in BOOLEAN /\ enabled' \in [Tid -> BOOLEAN] /\ wants' \in [Tid -> BOOLEAN]

(* Suspend saves a context and keeps the types. *)
LEMMA SuspendTypes ==
  ASSUME LinkedTypeOK, NEW c \in Sched!Ctx, Suspend(c)
  PROVE  /\ ctx' \in [Tid -> Sched!Ctx] /\ ctx' = [ctx EXCEPT ![current] = c]
         /\ masked' \in BOOLEAN /\ enabled' \in [Tid -> BOOLEAN]
         /\ wants' \in [Tid -> BOOLEAN]
  BY DEF LinkedTypeOK, Suspend

(* Restore does. *)
LEMMA RestoreTypes ==
  ASSUME LinkedTypeOK, Restore
  PROVE  /\ ctx' \in [Tid -> Sched!Ctx] /\ ctx' = [ctx EXCEPT ![current] = "run"]
         /\ masked' \in BOOLEAN /\ enabled' \in [Tid -> BOOLEAN]
         /\ wants' \in [Tid -> BOOLEAN]
  BY DEF LinkedTypeOK, Restore, Sched!Ctx

(* So does a step that leaves the mask. *)
LEMMA MaskTypes ==
  ASSUME LinkedTypeOK, UNCHANGED mask
  PROVE  masked' \in BOOLEAN /\ enabled' \in [Tid -> BOOLEAN] /\ wants' \in [Tid -> BOOLEAN]
  BY DEF LinkedTypeOK, mask

(* The values of ctx and status that the actions assign. *)
LEMMA Contexts ==
  /\ {"any", "tid", "run", "stub", "sleep", "wait", "exit"} \subseteq Sched!Ctx
  /\ {"up", "exited", "segv", "wild", "corrupt"} \subseteq Sched!Status
  BY DEF Sched!Ctx, Sched!Yielded, Sched!Status

(* The tail of a switch: the current thread goes behind rest, t runs.       *)
LEMMA SwitchStep ==
  ASSUME LInv, Up, NEW l, NEW rest, IsQueue(l, rest),
         NEW t \in Range(Ready), t \notin Range(rest), Range(rest) \subseteq Range(Ready),
         \A u \in Tid \ Range(Ready) : l.next[u] = next[u],
         NEW saved \in Sched!Ctx, SwitchTo(t, l, saved), UNCHANGED status
  PROVE  ReadyStep /\ SP!SwitchTo(t, rest, saved)
  <1>1. current \in Tid \ Range(Ready) /\ next[current] = NULL /\ t \in Tid
    BY ReadyQueue, Lists, RangeOfSeq DEF LInv
  <1>2. current \notin Range(rest) /\ l.next[current] = NULL /\ current # t
    BY <1>1
  <1>3. PICK m : m = Enqueue(l, current)
    OBVIOUS
  <1>4. /\ IsQueue(m, Append(rest, current)) /\ m.next[current] = NULL
        /\ \A u \in Tid \ Range(rest) : m.next[u] = l.next[u]
    BY <1>1, <1>2, <1>3, EnqueueQueue
  <1>5. rest \in Seq(Tid)
    BY DEF IsQueue, IsList
  <1>6. t \notin Range(Append(rest, current))
    BY <1>1, <1>2, <1>5, AppendQueue
  <1>7. PICK k : k = [m EXCEPT !.next[t] = NULL]
    OBVIOUS
  <1>8. /\ IsQueue(k, Append(rest, current)) /\ k.next = [m.next EXCEPT ![t] = NULL]
    BY <1>1, <1>4, <1>6, <1>7, ClearQueue
  <1>9. readyhead' = k.head /\ next' = k.next
    BY <1>3, <1>7 DEF SwitchTo, Becomes
  <1>10. /\ next' \in [Tid -> Pointer] /\ Acyclic(next') /\ readyhead' \in Pointer
         /\ IsList(next', readyhead', Append(rest, current))
    BY <1>8, <1>9 DEF IsQueue
  <1>11. Ready' = Append(rest, current)
    BY <1>10, ChainOf DEF Ready
  <1>12. m.next \in [Tid -> Pointer]
    BY <1>4 DEF IsQueue
  <1>13. next'[t] = NULL /\ \A u \in Tid \ (Range(Ready) \cup {current}) : next'[u] = next[u]
    <2>1. next'[t] = NULL
      BY <1>1, <1>8, <1>9, <1>12
    <2>2. ASSUME NEW u \in Tid \ (Range(Ready) \cup {current}) PROVE next'[u] = next[u]
      <3>1. u # t /\ u \notin Range(rest)
        OBVIOUS
      <3>2. next'[u] = m.next[u]
        BY <1>8, <1>9, <1>12, <3>1
      <3> QED BY <1>4, <3>1, <3>2
    <2> QED BY <2>1, <2>2
  <1>14. /\ current' = t /\ setcontext_called' = 1 /\ ctx' = [ctx EXCEPT ![current] = saved]
         /\ ctx' \in [Tid -> Sched!Ctx] /\ masked' \in BOOLEAN
         /\ enabled' \in [Tid -> BOOLEAN] /\ wants' \in [Tid -> BOOLEAN]
    BY SuspendTypes DEF SwitchTo, LInv, Shape
  <1>15. status' \in Sched!Status
    BY DEF LInv, Shape, LinkedTypeOK
  <1>16. SP!SwitchTo(t, rest, saved)
    BY <1>11, <1>14 DEF SP!SwitchTo
  <1>17. ReadyStep
    BY <1>1, <1>10, <1>13, <1>14, <1>15 DEF ReadyStep
  <1> QED BY <1>16, <1>17

(* A step that leaves the ready queue alone. *)
LEMMA StayStep ==
  ASSUME LInv, Up, UNCHANGED <<current, ctx, next, readyhead, mask>>,
         setcontext_called' \in {0, 1}, status' \in Sched!Status
  PROVE  ReadyStep /\ Ready' = Ready
  <1>1. masked' \in BOOLEAN /\ enabled' \in [Tid -> BOOLEAN] /\ wants' \in [Tid -> BOOLEAN]
    BY MaskTypes DEF LInv, Shape
  <1>2. ctx' \in [Tid -> Sched!Ctx]
    BY DEF LInv, Shape, LinkedTypeOK
  <1>3. ReadyStep
    BY <1>1, <1>2, Lists, ReadyQueue DEF ReadyStep, LInv
  <1> QED BY <1>3 DEF Ready

(* yield to anyone. *)
LEMMA YieldAnyStep ==
  ASSUME LInv, Up, NEW want, YieldAny(want)
  PROVE  ReadyStep /\ SP!YieldAny(want)
  <1>1. Ready # <<>> /\ IsQueue(List(readyhead), Ready)
    BY ReadyQueue DEF YieldAny
  <1>2. PICK l : l = [List(readyhead) EXCEPT !.head = next[readyhead]]
    OBVIOUS
  <1>3. /\ readyhead = Head(Ready) /\ readyhead \in Range(Ready)
        /\ readyhead \notin Range(Tail(Ready)) /\ IsQueue(l, Tail(Ready)) /\ l.next = next
    BY <1>1, <1>2, ReadyQueue, RestQueue
  <1>4. Range(Tail(Ready)) \subseteq Range(Ready)
    BY <1>1, TailQueue DEF IsQueue, IsList
  <1>5. SwitchTo(readyhead, l, "any") /\ UNCHANGED status /\ want = Sched!THREAD_ANY
    BY <1>2 DEF YieldAny
  <1>6. ReadyStep /\ SP!SwitchTo(readyhead, Tail(Ready), "any")
    BY <1>3, <1>4, <1>5, Contexts, SwitchStep
  <1>7. SP!THREAD_ANY = Sched!THREAD_ANY
    BY DEF SP!THREAD_ANY, Sched!THREAD_ANY
  <1> QED BY <1>1, <1>3, <1>5, <1>6, <1>7 DEF SP!YieldAny

(* yield to a thread in the ready queue. *)
LEMMA YieldToStep ==
  ASSUME LInv, Up, NEW want, YieldTo(want)
  PROVE  ReadyStep /\ SP!YieldTo(want)
  <1>1. Ready \in Seq(Tid) /\ IsQueue(List(readyhead), Ready) /\ IsInjective(Ready)
    BY ReadyQueue, Lists, Apart DEF LInv
  <1>2. want # current /\ want \in Range(Ready)
    BY DEF YieldTo
  <1>3. PICK i \in DOMAIN Ready : Ready[i] = want
    BY <1>2 DEF Range
  <1>4. PICK l : l = Dequeue(List(readyhead), want)
    OBVIOUS
  <1>5. /\ IsQueue(l, RemoveAt(Ready, i))
        /\ \A t \in Tid \ Range(Ready) : l.next[t] = next[t]
    BY <1>1, <1>3, <1>4, ReadyQueue, DequeueQueue
  <1>6. Range(RemoveAt(Ready, i)) = Range(Ready) \ {want}
    BY <1>1, <1>3, RemoveQueue
  <1>7. SwitchTo(want, l, "tid") /\ UNCHANGED status
    BY <1>4 DEF YieldTo
  <1>8. ReadyStep /\ SP!SwitchTo(want, RemoveAt(Ready, i), "tid")
    BY <1>2, <1>5, <1>6, <1>7, Contexts, SwitchStep
  <1>9. SP!RemoveAt(Ready, i) = RemoveAt(Ready, i)
    BY SameOperators
  <1> QED BY <1>2, <1>3, <1>7, <1>8, <1>9 DEF SP!YieldTo

(* yield to a thread that is not. *)
LEMMA YieldAbsentStep ==
  ASSUME LInv, Up, NEW want, YieldAbsent(want)
  PROVE  ReadyStep /\ SP!YieldAbsent(want)
  <1>1. /\ IsList(next, readyhead, Ready) /\ Ready \in Seq(Tid) /\ Ready # <<>>
    BY Lists, ReadyQueue DEF LInv, YieldAbsent
  <1>2. next[readyhead] = NULL <=> Len(Ready) = 1
    <2>1. PICK n \in Nat : n = Len(Ready) /\ n >= 1
      BY <1>1, LenProperties, EmptySeq
    <2>2. 1 \in 1 .. n /\ (n # 1 => 1 + 1 \in 1 .. n)
      BY <2>1
    <2>3. readyhead = Ready[1] /\ next[Ready[1]] = IF 1 = n THEN NULL ELSE Ready[1 + 1]
      BY <1>1, <2>1, <2>2 DEF IsList
    <2>4. n # 1 => Ready[1 + 1] # NULL
      BY <1>1, <2>1, <2>2, ElementOfSeq, Pointers
    <2> QED BY <2>1, <2>3, <2>4
  <1>3. /\ want \in 0 .. MaxThreads \ (Range(Ready) \cup {current})
        /\ setcontext_called' = 0 /\ UNCHANGED <<current, ctx, next, readyhead, mask>>
        /\ status' = IF Len(Ready) = 1 THEN "up" ELSE "segv"
    BY <1>2 DEF YieldAbsent
  <1>4. status' \in Sched!Status
    BY <1>3, Contexts
  <1>5. ReadyStep /\ Ready' = Ready
    BY <1>3, <1>4, StayStep
  <1> QED BY <1>1, <1>3, <1>5, SameOperators DEF SP!YieldAbsent

(* kill_exit_threads and a change of the ready queue: the invariant that    *)
(* does not depend on the scheduler.                                        *)
LEMMA ReapShape ==
  ASSUME LInv, Up, KillExitThreads, ReadyStep
  PROVE  Shape' /\ SP!KillExitThreads
  <1>1. /\ next' \in [Tid -> Pointer] /\ Acyclic(next')
        /\ \A t \in Tid \ (Range(Ready) \cup {current}) : next'[t] = next[t]
    BY DEF ReadyStep
  <1>2. /\ SP!KillExitThreads
        /\ exists' \subseteq exists /\ killhead' \in Pointer
        /\ head' \in [WaitQueues -> Pointer] /\ size' \in [WaitQueues -> Nat]
        /\ leaked' \subseteq Tid
        /\ \A q \in WaitQueues : size'[q] = Len(Sleepers(q)')
    BY <1>1, Reap
  <1>3. exists' \subseteq Tid
    BY <1>2 DEF LInv, Shape, LinkedTypeOK
  <1>4. LinkedTypeOK'
    BY <1>2, <1>3 DEF ReadyStep, LinkedTypeOK
  <1>5. WaitSizesAreLengths'
    BY <1>2 DEF WaitSizesAreLengths
  <1> QED BY <1>2, <1>4, <1>5 DEF Shape, ReadyStep

(* thread_yield implements that of ThreadSched, whichever way it goes. *)
LEMMA YieldStep ==
  ASSUME LInv, NEW want, ThreadYield(want)
  PROVE  Shape' /\ SP!ThreadYield(want)
  <1>1. Up /\ KillExitThreads
    BY StatusIs DEF ThreadYield, InUser
  <1>2. SP!InUser
    BY DEF ThreadYield, InUser, SP!InUser
  <1>3. SP!THREAD_SELF = Sched!THREAD_SELF
    BY DEF SP!THREAD_SELF, Sched!THREAD_SELF
  <1>4. setcontext_called \in {0, 1} /\ status \in Sched!Status
    BY DEF LInv, Shape, LinkedTypeOK
  <1>5. CASE YieldAlone(want)
    <2>1. ReadyStep /\ Ready' = Ready
      BY <1>1, <1>4, <1>5, StayStep DEF YieldAlone
    <2>2. SP!YieldAlone(want)
      BY <1>1, <1>3, <1>5, <2>1, ReadyQueue DEF YieldAlone, SP!YieldAlone
    <2> QED BY <1>1, <1>2, <2>1, <2>2, ReapShape DEF SP!ThreadYield
  <1>6. CASE YieldAny(want)
    BY <1>1, <1>2, <1>6, YieldAnyStep, ReapShape DEF SP!ThreadYield
  <1>7. CASE YieldSelf(want)
    <2>1. ReadyStep /\ Ready' = Ready
      BY <1>1, <1>4, <1>7, StayStep DEF YieldSelf
    <2>2. SP!YieldSelf(want)
      BY <1>3, <1>7, <2>1 DEF YieldSelf, SP!YieldSelf
    <2> QED BY <1>1, <1>2, <2>1, <2>2, ReapShape DEF SP!ThreadYield
  <1>8. CASE YieldTo(want)
    BY <1>1, <1>2, <1>8, YieldToStep, ReapShape DEF SP!ThreadYield
  <1>9. CASE YieldAbsent(want)
    BY <1>1, <1>2, <1>9, YieldAbsentStep, ReapShape DEF SP!ThreadYield
  <1> QED BY <1>5, <1>6, <1>7, <1>8, <1>9 DEF ThreadYield

-----------------------------------------------------------------------------
(* The lists a step does not reach. *)
LEMMA OtherLists ==
  ASSUME LInv, next' \in [Tid -> Pointer], Acyclic(next'),
         NEW M, \A t \in Tid \ M : next'[t] = next[t]
  PROVE  /\ M \cap Range(Ready) = {} => Chain(next', readyhead) = Ready
         /\ M \cap Range(Zombies) = {} => Chain(next', killhead) = Zombies
         /\ M \cap Stranded = {} => UNION {Range(Chain(next', h)) : h \in leaked} = Stranded
         /\ \A q \in WaitQueues :
              M \cap Range(Sleepers(q)) = {} => Chain(next', head[q]) = Sleepers(q)
  <1>1. ASSUME NEW p \in Pointer, M \cap Range(Chain(next, p)) = {}
        PROVE  Chain(next', p) = Chain(next, p)
    <2>1. Range(Chain(next, p)) \subseteq Tid
      BY Lists, ChainIsList, RangeOfSeq DEF LInv
    <2>2. \A t \in Range(Chain(next, p)) : next'[t] = next[t]
      BY <1>1, <2>1
    <2> QED BY <2>2, Lists, ChainFrame DEF LInv
  <1>2. M \cap Range(Ready) = {} => Chain(next', readyhead) = Ready
    BY <1>1, Lists DEF LInv, Ready
  <1>3. M \cap Range(Zombies) = {} => Chain(next', killhead) = Zombies
    BY <1>1, Lists DEF LInv, Zombies
  <1>4. ASSUME M \cap Stranded = {}
        PROVE  UNION {Range(Chain(next', h)) : h \in leaked} = Stranded
    <2>1. \A h \in leaked : h \in Pointer /\ M \cap Range(Chain(next, h)) = {}
      BY <1>4, Lists DEF LInv, Stranded
    <2>2. \A h \in leaked : Chain(next', h) = Chain(next, h)
      BY <1>1, <2>1
    <2> QED BY <2>2 DEF Stranded
  <1>5. ASSUME NEW q \in WaitQueues, M \cap Range(Sleepers(q)) = {}
        PROVE  Chain(next', head[q]) = Sleepers(q)
    BY <1>1, <1>5, Lists DEF LInv, Sleepers
  <1> QED BY <1>2, <1>3, <1>4, <1>5

(* A step that moves no thread. *)
LEMMA QuietStep ==
  ASSUME LInv, Up, UNCHANGED <<exists, current, setcontext_called, lists>>,
         ctx' \in [Tid -> Sched!Ctx], status' \in Sched!Status, masked' \in BOOLEAN,
         enabled' \in [Tid -> BOOLEAN], wants' \in [Tid -> BOOLEAN]
  PROVE  /\ Shape' /\ Ready' = Ready /\ Zombies' = Zombies /\ Stranded' = Stranded
         /\ [q \in WaitQueues |-> Sleepers(q)]' = [q \in WaitQueues |-> Sleepers(q)]
  <1>1. /\ next' = next /\ readyhead' = readyhead /\ killhead' = killhead
        /\ head' = head /\ size' = size /\ leaked' = leaked
    BY DEF lists
  <1>2. /\ Ready' = Ready /\ Zombies' = Zombies /\ Stranded' = Stranded
        /\ \A q \in WaitQueues : Sleepers(q)' = Sleepers(q)
    BY <1>1 DEF Ready, Zombies, Stranded, Sleepers
  <1>3. LinkedTypeOK'
    BY <1>1 DEF LInv, Shape, LinkedTypeOK
  <1>4. WaitSizesAreLengths'
    BY <1>1, <1>2 DEF LInv, Shape, WaitSizesAreLengths
  <1>5. Acyclic(next)' /\ (Up => next[current] = NULL)'
    BY <1>1 DEF LInv, Shape
  <1> QED BY <1>2, <1>3, <1>4, <1>5 DEF Shape

(* The actions that touch no list. *)
LEMMA QuietActions ==
  ASSUME LInv
  PROVE  /\ SetMask => Shape' /\ UNCHANGED SP!vars
         /\ ThreadStub => Shape' /\ SP!ThreadStub
         /\ ResumeYield => Shape' /\ SP!ResumeYield
         /\ ResumeSleep => Shape' /\ SP!ResumeSleep
         /\ BeyondTable => Shape' /\ SP!BeyondTable
         /\ \A tid \in Tid : ThreadKill(tid) => Shape' /\ SP!ThreadKill(tid)
  <1> USE StatusIs
  <1>1. /\ ctx \in [Tid -> Sched!Ctx] /\ status \in Sched!Status /\ masked \in BOOLEAN
        /\ enabled \in [Tid -> BOOLEAN] /\ wants \in [Tid -> BOOLEAN] /\ LinkedTypeOK
        /\ current \in Tid
    BY DEF LInv, Shape, LinkedTypeOK
  <1>2. ASSUME SetMask PROVE Shape' /\ UNCHANGED SP!vars
    <2>1. /\ UNCHANGED <<exists, current, setcontext_called, lists, ctx, status>>
          /\ masked' \in BOOLEAN /\ enabled' \in [Tid -> BOOLEAN]
          /\ wants' \in [Tid -> BOOLEAN] /\ Up
      BY <1>1, <1>2 DEF SetMask, InUser
    <2>2. /\ Shape' /\ Ready' = Ready /\ Zombies' = Zombies /\ Stranded' = Stranded
          /\ [q \in WaitQueues |-> Sleepers(q)]' = [q \in WaitQueues |-> Sleepers(q)]
      BY <1>1, <2>1, QuietStep
    <2> QED BY <2>1, <2>2 DEF SP!vars
  <1>3. ASSUME ThreadStub PROVE Shape' /\ SP!ThreadStub
    <2>1. /\ UNCHANGED <<exists, current, setcontext_called, lists, status>>
          /\ masked' \in BOOLEAN /\ enabled' \in [Tid -> BOOLEAN]
          /\ wants' \in [Tid -> BOOLEAN] /\ ctx' \in [Tid -> Sched!Ctx] /\ Up
      BY <1>1, <1>3, Contexts DEF ThreadStub
    <2>2. /\ Shape' /\ Ready' = Ready /\ Zombies' = Zombies /\ Stranded' = Stranded
          /\ [q \in WaitQueues |-> Sleepers(q)]' = [q \in WaitQueues |-> Sleepers(q)]
      BY <1>1, <2>1, QuietStep
    <2> QED BY <1>3, <2>1, <2>2 DEF ThreadStub, SP!ThreadStub
  <1>4. ASSUME ResumeYield PROVE Shape' /\ SP!ResumeYield
    <2>1. /\ UNCHANGED <<exists, current, setcontext_called, lists>>
          /\ masked' \in BOOLEAN /\ enabled' \in [Tid -> BOOLEAN] /\ Up
          /\ wants' \in [Tid -> BOOLEAN] /\ ctx' \in [Tid -> Sched!Ctx]
          /\ status' \in Sched!Status
          /\ IF setcontext_called = 1
               THEN ctx' = [ctx EXCEPT ![current] = "run"] /\ UNCHANGED status
               ELSE status' = "corrupt" /\ UNCHANGED ctx
      <3>1. CASE setcontext_called = 1
        BY <1>1, <1>4, <3>1, RestoreTypes DEF ResumeYield
      <3>2. CASE setcontext_called # 1
        BY <1>1, <1>4, <3>2, Contexts, MaskTypes DEF ResumeYield
      <3> QED BY <3>1, <3>2
    <2>2. /\ Shape' /\ Ready' = Ready /\ Zombies' = Zombies /\ Stranded' = Stranded
          /\ [q \in WaitQueues |-> Sleepers(q)]' = [q \in WaitQueues |-> Sleepers(q)]
      BY <1>1, <2>1, QuietStep
    <2>3. status = "up" /\ ctx[current] \in SP!Yielded
      BY <1>4 DEF ResumeYield, SP!Yielded
    <2> QED BY <2>1, <2>2, <2>3 DEF SP!ResumeYield
  <1>5. ASSUME ResumeSleep PROVE Shape' /\ SP!ResumeSleep
    <2>1. /\ UNCHANGED <<exists, current, setcontext_called, lists, status>>
          /\ masked' \in BOOLEAN /\ enabled' \in [Tid -> BOOLEAN] /\ Up
          /\ wants' \in [Tid -> BOOLEAN] /\ ctx' \in [Tid -> Sched!Ctx]
          /\ ctx' = [ctx EXCEPT ![current] = "run"]
      BY <1>1, <1>5, RestoreTypes DEF ResumeSleep
    <2>2. /\ Shape' /\ Ready' = Ready /\ Zombies' = Zombies /\ Stranded' = Stranded
          /\ [q \in WaitQueues |-> Sleepers(q)]' = [q \in WaitQueues |-> Sleepers(q)]
      BY <1>1, <2>1, QuietStep
    <2> QED BY <1>5, <2>1, <2>2 DEF ResumeSleep, SP!ResumeSleep
  <1>6. ASSUME BeyondTable PROVE Shape' /\ SP!BeyondTable
    <2>1. /\ UNCHANGED <<exists, current, setcontext_called, lists, ctx>>
          /\ masked' \in BOOLEAN /\ enabled' \in [Tid -> BOOLEAN] /\ Up
          /\ wants' \in [Tid -> BOOLEAN] /\ status' \in Sched!Status
      BY <1>1, <1>6, Contexts, MaskTypes DEF BeyondTable, InUser
    <2>2. /\ Shape' /\ Ready' = Ready /\ Zombies' = Zombies /\ Stranded' = Stranded
          /\ [q \in WaitQueues |-> Sleepers(q)]' = [q \in WaitQueues |-> Sleepers(q)]
      BY <1>1, <2>1, QuietStep
    <2> QED BY <1>6, <2>1, <2>2 DEF BeyondTable, SP!BeyondTable, InUser, SP!InUser
  <1>7. ASSUME NEW tid \in Tid, ThreadKill(tid) PROVE Shape' /\ SP!ThreadKill(tid)
    <2>1. /\ UNCHANGED <<exists, current, setcontext_called, lists, status>>
          /\ masked' \in BOOLEAN /\ enabled' \in [Tid -> BOOLEAN] /\ Up
          /\ wants' \in [Tid -> BOOLEAN] /\ ctx' \in [Tid -> Sched!Ctx]
      BY <1>1, <1>7, Contexts, MaskTypes DEF ThreadKill, InUser
    <2>2. /\ Shape' /\ Ready' = Ready /\ Zombies' = Zombies /\ Stranded' = Stranded
          /\ [q \in WaitQueues |-> Sleepers(q)]' = [q \in WaitQueues |-> Sleepers(q)]
      BY <1>1, <2>1, QuietStep
    <2> QED BY <1>7, <2>1, <2>2 DEF ThreadKill, SP!ThreadKill, InUser, SP!InUser
  <1> QED BY <1>2, <1>3, <1>4, <1>5, <1>6, <1>7

-----------------------------------------------------------------------------
(* Steps that move threads between the ready queue and wait queue q.        *)

(* What a step has to show: the next fields it changed are in none of the   *)
(* other lists.                                                             *)
LEMMA MoveStep ==
  ASSUME LInv, Up, Up', next' \in [Tid -> Pointer], Acyclic(next'), NEW q \in WaitQueues,
         NEW M, \A t \in Tid \ M : next'[t] = next[t],
         M \cap (Range(Zombies) \cup Stranded) = {},
         \A r \in WaitQueues \ {q} : M \cap Range(Sleepers(r)) = {},
         UNCHANGED <<setcontext_called, status, killhead, leaked>>,
         \A r \in WaitQueues \ {q} : head'[r] = head[r] /\ size'[r] = size[r],
         head' \in [WaitQueues -> Pointer], size' \in [WaitQueues -> Nat],
         NEW s, Chain(next', head'[q]) = s, size'[q] = Len(s),
         exists' \subseteq Tid, current' \in Tid, next'[current'] = NULL,
         readyhead' \in Pointer, ctx' \in [Tid -> Sched!Ctx],
         masked' \in BOOLEAN, enabled' \in [Tid -> BOOLEAN], wants' \in [Tid -> BOOLEAN]
  PROVE  /\ Shape' /\ Zombies' = Zombies /\ Stranded' = Stranded
         /\ [r \in WaitQueues |-> Sleepers(r)]'
              = [[r \in WaitQueues |-> Sleepers(r)] EXCEPT ![q] = s]
  <1>1. Zombies' = Zombies /\ Stranded' = Stranded
    <2>1. /\ Chain(next', killhead) = Zombies
          /\ UNION {Range(Chain(next', h)) : h \in leaked} = Stranded
      <3>1. M \cap Range(Zombies) = {} /\ M \cap Stranded = {}
        OBVIOUS
      <3> QED BY <3>1, OtherLists
    <2> QED BY <2>1 DEF Zombies, Stranded
  <1>2. \A r \in WaitQueues : Sleepers(r)' = IF r = q THEN s ELSE Sleepers(r)
    <2>1. \A r \in WaitQueues \ {q} : Chain(next', head[r]) = Sleepers(r)
      BY OtherLists
    <2> QED BY <2>1 DEF Sleepers
  <1>3. \A r \in WaitQueues : size'[r] = Len(Sleepers(r)')
    <2>1. \A r \in WaitQueues : size[r] = Len(Sleepers(r))
      BY DEF LInv, Shape, WaitSizesAreLengths
    <2> QED BY <1>2, <2>1
  <1>4. LinkedTypeOK'
    <2>1. /\ setcontext_called' \in {0, 1} /\ status' \in Sched!Status
          /\ killhead' \in Pointer /\ leaked' \subseteq Tid
      BY DEF LInv, Shape, LinkedTypeOK
    <2> QED BY <2>1 DEF LinkedTypeOK
  <1>5. WaitSizesAreLengths'
    BY <1>3 DEF WaitSizesAreLengths
  <1> QED BY <1>1, <1>2, <1>4, <1>5 DEF Shape

(* thread_create. *)
LEMMA CreateStep ==
  ASSUME LInv, ThreadCreate
  PROVE  Shape' /\ SP!ThreadCreate
  <1>1. InUser /\ Up
    BY StatusIs DEF ThreadCreate, InUser
  <1>2. PICK id \in Tid \ exists :
          /\ \A other \in Tid \ exists : id <= other
          /\ exists' = exists \cup {id}
          /\ Becomes(Enqueue([head |-> readyhead, next |-> [next EXCEPT ![id] = NULL]], id))
          /\ head' = [head EXCEPT ![id] = NULL]
          /\ size' = [size EXCEPT ![id] = 0]
          /\ ctx' = [ctx EXCEPT ![id] = "stub"]
          /\ wants' = [wants EXCEPT ![id] = FALSE]
    BY DEF ThreadCreate
  <1>3. /\ UNCHANGED <<current, setcontext_called, status, killhead, leaked, masked, enabled>>
        /\ Up'
    BY <1>1, StatusIs DEF ThreadCreate, Up
  <1>4. /\ id \notin Range(Ready) /\ id \notin Range(Zombies) /\ id \notin Asleep
        /\ id \notin Stranded /\ id # current /\ Sleepers(id) = <<>>
        /\ id \in WaitQueues
    BY <1>1, Apart, Pointers
  <1>5. PICK l : l = [List(readyhead) EXCEPT !.next[id] = NULL]
    OBVIOUS
  <1>6. /\ IsQueue(l, Ready) /\ l.next = [next EXCEPT ![id] = NULL] /\ l.head = readyhead
    BY <1>1, <1>4, <1>5, ReadyQueue, ClearQueue
  <1>7. l = [head |-> readyhead, next |-> [next EXCEPT ![id] = NULL]]
    BY <1>6 DEF IsQueue
  <1>8. next \in [Tid -> Pointer] /\ l.next[id] = NULL /\ \A t \in Tid \ {id} : l.next[t] = next[t]
    BY <1>6, Lists DEF LInv
  <1>9. PICK m : m = Enqueue(l, id)
    OBVIOUS
  <1>10. /\ IsQueue(m, Append(Ready, id)) /\ \A t \in Tid \ Range(Ready) : m.next[t] = l.next[t]
    <2>1. id \in Tid \ Range(Ready) /\ l.next[id] = NULL /\ IsQueue(l, Ready)
      BY <1>4, <1>6, <1>8
    <2> QED BY <1>9, <2>1, EnqueueQueue
  <1>11. readyhead' = m.head /\ next' = m.next
    BY <1>2, <1>7, <1>9 DEF Becomes
  <1>12. /\ next' \in [Tid -> Pointer] /\ Acyclic(next') /\ readyhead' \in Pointer
         /\ Ready' = Append(Ready, id)
    <2>1. /\ next' \in [Tid -> Pointer] /\ Acyclic(next') /\ readyhead' \in Pointer
          /\ IsList(next', readyhead', Append(Ready, id))
      BY <1>10, <1>11 DEF IsQueue
    <2> QED BY <2>1, ChainOf DEF Ready
  <1> DEFINE M == Range(Ready) \cup {id}
  <1>13. \A t \in Tid \ M : next'[t] = next[t]
    BY <1>8, <1>10, <1>11
  <1>14. /\ M \cap (Range(Zombies) \cup Stranded) = {}
         /\ \A r \in WaitQueues \ {id} : M \cap Range(Sleepers(r)) = {}
    BY <1>1, <1>4, Apart DEF Asleep
  <1>15. next'[current'] = NULL /\ current' \in Tid
    BY <1>1, <1>3, <1>4, <1>13, ReadyQueue
  <1>16. /\ head' \in [WaitQueues -> Pointer] /\ size' \in [WaitQueues -> Nat]
         /\ head'[id] = NULL /\ size'[id] = 0
         /\ \A r \in WaitQueues \ {id} : head'[r] = head[r] /\ size'[r] = size[r]
    BY <1>2, <1>4, Pointers DEF LInv, Shape, LinkedTypeOK
  <1>17. /\ ctx' \in [Tid -> Sched!Ctx] /\ exists' \subseteq Tid /\ masked' \in BOOLEAN
         /\ enabled' \in [Tid -> BOOLEAN] /\ wants' \in [Tid -> BOOLEAN]
    BY <1>2, <1>3, Contexts DEF LInv, Shape, LinkedTypeOK
  <1>18. Chain(next', head'[id]) = <<>> /\ size'[id] = Len(<<>>)
    BY <1>16, NoChain
  <1> HIDE DEF M
  <1>19. /\ Shape' /\ Zombies' = Zombies /\ Stranded' = Stranded
         /\ [r \in WaitQueues |-> Sleepers(r)]'
              = [[r \in WaitQueues |-> Sleepers(r)] EXCEPT ![id] = <<>>]
    BY <1>1, <1>3, <1>4, <1>12, <1>13, <1>14, <1>15, <1>16, <1>17, <1>18, MoveStep
  <1>20. id \in 0 .. MaxThreads /\ SP!NewId(id) /\ SP!InUser
    BY <1>1, <1>2, SameOperators, LinkedAssumption DEF SP!NewId, Tid, SP!InUser, InUser
  <1> QED BY <1>2, <1>3, <1>12, <1>19, <1>20 DEF SP!ThreadCreate

(* thread_sleep, and the sleep of thread_wait. *)
LEMMA SleepStep ==
  ASSUME LInv, Up, NEW q \in WaitQueues, NEW saved \in Sched!Ctx, GoToSleep(q, saved)
  PROVE  Shape' /\ SP!GoToSleep(q, saved)
  <1>1. Ready # <<>> /\ IsQueue(List(readyhead), Ready) /\ readyhead # NULL
    BY ReadyQueue DEF GoToSleep
  <1>2. /\ readyhead = Head(Ready) /\ readyhead \in Range(Ready) /\ readyhead \in Tid
        /\ Tail(Ready) \in Seq(Tid) /\ readyhead \notin Range(Tail(Ready))
    <2>1. PICK l : l = List(readyhead)
      OBVIOUS
    <2>2. l.head = readyhead
      BY <2>1, ReadyQueue
    <2>3. /\ l.head \in Tid /\ l.head = Head(Ready) /\ Head(Ready) \in Range(Ready)
          /\ Tail(Ready) \in Seq(Tid) /\ l.head \notin Range(Tail(Ready))
      BY <1>1, <2>1, RestQueue
    <2> QED BY <2>2, <2>3
  <1>3. /\ next[readyhead] \in Pointer /\ IsList(next, next[readyhead], Tail(Ready))
    BY <1>1, Lists, RestList DEF LInv
  <1>4. Range(Tail(Ready)) \subseteq Range(Ready)
    BY <1>1, TailQueue DEF IsQueue, IsList
  <1>5. /\ IsQueue(List(head[q]), Sleepers(q)) /\ Sleepers(q) \in Seq(Tid)
        /\ List(head[q]).next = next /\ List(head[q]).head = head[q]
    BY Lists, ReadyQueue DEF IsQueue, List, LInv
  <1>6. /\ current \in Tid \ Range(Sleepers(q)) /\ next[current] = NULL
        /\ current \notin Range(Ready) /\ readyhead \notin Range(Sleepers(q))
        /\ Range(Ready) \cap Range(Sleepers(q)) = {}
    BY <1>2, ReadyQueue
  <1>7. PICK l : l = WaitEnqueue(List(head[q]), current)
    OBVIOUS
  <1>8. /\ IsQueue(l, Append(Sleepers(q), current)) /\ l.next[current] = NULL
        /\ \A t \in Tid \ Range(Sleepers(q)) : l.next[t] = next[t]
    BY <1>5, <1>6, <1>7, EnqueueQueue DEF WaitEnqueue
  <1>9. readyhead \notin Range(Append(Sleepers(q), current))
    BY <1>2, <1>5, <1>6, AppendQueue
  <1>10. PICK k : k = [l EXCEPT !.next[readyhead] = NULL]
    OBVIOUS
  <1>11. /\ IsQueue(k, Append(Sleepers(q), current)) /\ k.head = l.head
         /\ k.next = [l.next EXCEPT ![readyhead] = NULL]
    BY <1>2, <1>8, <1>9, <1>10, ClearQueue
  <1>12. /\ head' = [head EXCEPT ![q] = l.head] /\ next' = k.next
         /\ size' = [size EXCEPT ![q] = IF head[q] = NULL THEN 1 ELSE @ + 1]
         /\ readyhead' = next[readyhead] /\ current' = readyhead
         /\ Suspend(saved) /\ UNCHANGED <<exists, setcontext_called, status, killhead, leaked>>
    BY <1>7, <1>11 DEF GoToSleep
  <1>13. /\ next' \in [Tid -> Pointer] /\ Acyclic(next') /\ l.head \in Pointer
         /\ IsList(next', l.head, Append(Sleepers(q), current))
    BY <1>11, <1>12 DEF IsQueue
  <1>14. l.next \in [Tid -> Pointer]
    BY <1>8 DEF IsQueue
  <1> DEFINE M == Range(Sleepers(q)) \cup {readyhead}
  <1>15. next'[readyhead] = NULL /\ \A t \in Tid \ M : next'[t] = next[t]
    BY <1>2, <1>8, <1>11, <1>12, <1>14
  <1>16. /\ M \cap (Range(Zombies) \cup Stranded) = {}
         /\ \A r \in WaitQueues \ {q} : M \cap Range(Sleepers(r)) = {}
    <2>1. M \cap (Range(Zombies) \cup Stranded) = {}
      BY <1>2, Apart DEF Asleep
    <2>2. ASSUME NEW r \in WaitQueues \ {q} PROVE M \cap Range(Sleepers(r)) = {}
      <3>1. Range(Sleepers(q)) \cap Range(Sleepers(r)) = {}
        BY Apart
      <3>2. readyhead \notin Range(Sleepers(r))
        BY <1>2, ReadyQueue
      <3> QED BY <3>1, <3>2
    <2> QED BY <2>1, <2>2
  <1>17. Ready' = Tail(Ready)
    <2>1. \A t \in Range(Tail(Ready)) : next'[t] = next[t]
      <3>1. Range(Tail(Ready)) \subseteq Tid
        BY <1>2, RangeOfSeq
      <3> QED BY <1>2, <1>4, <1>6, <1>15, <3>1
    <2>2. IsList(next', readyhead', Tail(Ready))
      BY <1>3, <1>12, <2>1, ListFrame
    <2>3. readyhead' \in Pointer
      BY <1>3, <1>12
    <2> QED BY <1>13, <2>2, <2>3, ChainOf DEF Ready
  <1>18. /\ head' \in [WaitQueues -> Pointer] /\ size' \in [WaitQueues -> Nat]
         /\ head'[q] = l.head /\ size'[q] = IF head[q] = NULL THEN 1 ELSE size[q] + 1
         /\ \A r \in WaitQueues \ {q} : head'[r] = head[r] /\ size'[r] = size[r]
    BY <1>12, <1>13 DEF LInv, Shape, LinkedTypeOK
  <1>19. /\ Chain(next', head'[q]) = Append(Sleepers(q), current)
         /\ size'[q] = Len(Append(Sleepers(q), current))
    <2>1. Chain(next', head'[q]) = Append(Sleepers(q), current)
      BY <1>13, <1>18, ChainOf
    <2>2. Len(Append(Sleepers(q), current)) = Len(Sleepers(q)) + 1
      BY <1>5, <1>6, AppendProperties
    <2>3. size[q] = Len(Sleepers(q))
      BY DEF LInv, Shape, WaitSizesAreLengths
    <2>4. head[q] = NULL => Len(Sleepers(q)) = 0
      BY ReadyQueue
    <2> QED BY <1>18, <2>1, <2>2, <2>3, <2>4
  <1>20. /\ ctx' \in [Tid -> Sched!Ctx] /\ ctx' = [ctx EXCEPT ![current] = saved]
         /\ masked' \in BOOLEAN /\ enabled' \in [Tid -> BOOLEAN]
         /\ wants' \in [Tid -> BOOLEAN]
    BY <1>12, SuspendTypes DEF LInv, Shape
  <1>21. /\ exists' \subseteq Tid /\ current' \in Tid /\ next'[current'] = NULL
         /\ readyhead' \in Pointer /\ Up'
    BY <1>2, <1>3, <1>12, <1>15, StatusIs DEF LInv, Shape, LinkedTypeOK, Up
  <1> HIDE DEF M
  <1>22. /\ Shape' /\ Zombies' = Zombies /\ Stranded' = Stranded
         /\ [r \in WaitQueues |-> Sleepers(r)]'
              = [[r \in WaitQueues |-> Sleepers(r)] EXCEPT ![q] = Append(Sleepers(q), current)]
    <2>1. UNCHANGED <<setcontext_called, status, killhead, leaked>>
      BY <1>12
    <2>2. PICK s : s = Append(Sleepers(q), current)
      OBVIOUS
    <2>3. Chain(next', head'[q]) = s /\ size'[q] = Len(s)
      BY <1>19, <2>2
    <2>4. /\ Shape' /\ Zombies' = Zombies /\ Stranded' = Stranded
          /\ [r \in WaitQueues |-> Sleepers(r)]'
               = [[r \in WaitQueues |-> Sleepers(r)] EXCEPT ![q] = s]
      BY <1>13, <1>15, <1>16, <1>18, <1>20, <1>21, <2>1, <2>3, MoveStep
    <2> QED BY <2>2, <2>4
  <1> QED BY <1>1, <1>2, <1>12, <1>17, <1>20, <1>22 DEF SP!GoToSleep

(* thread_wakeup of all threads. *)
LEMMA WakeAllStep ==
  ASSUME LInv, Up, NEW q \in WaitQueues, WakeAll(q),
         UNCHANGED <<exists, current, ctx, setcontext_called, status, killhead, leaked, mask>>
  PROVE  /\ Shape' /\ SP!WakeAll(q) /\ Zombies' = Zombies /\ Stranded' = Stranded
  <1>1. /\ IsQueue(List(readyhead), Ready) /\ List(readyhead).next = next
        /\ head[q] \in Pointer /\ IsList(next, head[q], Sleepers(q))
        /\ IsInjective(Sleepers(q)) /\ Range(Ready) \cap Range(Sleepers(q)) = {}
        /\ current \in Tid \ Range(Ready) /\ next[current] = NULL
    BY Lists, ReadyQueue DEF LInv
  <1>2. PICK m : m = Splice(List(readyhead), head[q])
    OBVIOUS
  <1>3. /\ IsQueue(m, Ready \o Sleepers(q))
        /\ \A t \in Tid \ Range(Ready) : m.next[t] = next[t]
    BY <1>1, <1>2, SpliceQueue
  <1>4. /\ readyhead' = m.head /\ next' = m.next
        /\ head' = [head EXCEPT ![q] = NULL] /\ size' = [size EXCEPT ![q] = 0]
    BY <1>2 DEF WakeAll, Becomes
  <1>5. /\ next' \in [Tid -> Pointer] /\ Acyclic(next') /\ readyhead' \in Pointer
        /\ IsList(next', readyhead', Ready \o Sleepers(q))
    BY <1>3, <1>4 DEF IsQueue
  <1>6. Ready' = Ready \o Sleepers(q)
    BY <1>5, ChainOf DEF Ready
  <1> DEFINE M == Range(Ready)
  <1>7. /\ \A t \in Tid \ M : next'[t] = next[t]
        /\ M \cap (Range(Zombies) \cup Stranded) = {}
        /\ \A r \in WaitQueues \ {q} : M \cap Range(Sleepers(r)) = {}
    BY <1>3, <1>4, Apart, ReadyQueue
  <1>8. /\ head' \in [WaitQueues -> Pointer] /\ size' \in [WaitQueues -> Nat]
        /\ head'[q] = NULL /\ size'[q] = 0
        /\ \A r \in WaitQueues \ {q} : head'[r] = head[r] /\ size'[r] = size[r]
    BY <1>4, Pointers DEF LInv, Shape, LinkedTypeOK
  <1>9. Chain(next', head'[q]) = <<>> /\ size'[q] = Len(<<>>)
    BY <1>8, NoChain
  <1>10. /\ ctx' \in [Tid -> Sched!Ctx] /\ masked' \in BOOLEAN
         /\ enabled' \in [Tid -> BOOLEAN] /\ wants' \in [Tid -> BOOLEAN]
    BY MaskTypes DEF LInv, Shape, LinkedTypeOK
  <1>11. /\ exists' \subseteq Tid /\ current' \in Tid /\ next'[current'] = NULL /\ Up'
    BY <1>1, <1>7, StatusIs DEF LInv, Shape, LinkedTypeOK, Up
  <1> HIDE DEF M
  <1>12. /\ Shape' /\ Zombies' = Zombies /\ Stranded' = Stranded
         /\ [r \in WaitQueues |-> Sleepers(r)]'
              = [[r \in WaitQueues |-> Sleepers(r)] EXCEPT ![q] = <<>>]
    BY <1>5, <1>7, <1>8, <1>9, <1>10, <1>11, MoveStep
  <1> QED BY <1>6, <1>12 DEF SP!WakeAll

(* thread_wakeup of one thread. *)
LEMMA WakeOneStep ==
  ASSUME LInv, Up, NEW q \in WaitQueues, WakeOne(q), head[q] # NULL,
         UNCHANGED <<exists, current, ctx, setcontext_called, status, killhead, leaked, mask>>
  PROVE  /\ Shape' /\ SP!WakeOne(q) /\ Zombies' = Zombies /\ Stranded' = Stranded
  <1>1. /\ IsQueue(List(readyhead), Ready) /\ List(readyhead).next = next
        /\ List(readyhead).head = readyhead
        /\ head[q] \in Pointer /\ IsList(next, head[q], Sleepers(q))
        /\ IsInjective(Sleepers(q)) /\ Range(Ready) \cap Range(Sleepers(q)) = {}
        /\ current \in Tid \ Range(Ready) /\ next[current] = NULL
        /\ current \notin Range(Sleepers(q))
        /\ Sleepers(q) # <<>> /\ Sleepers(q) \in Seq(Tid) /\ next \in [Tid -> Pointer]
    BY Lists, ReadyQueue DEF LInv
  <1>2. PICK h : h = head[q]
    OBVIOUS
  <1>3. /\ h \in Tid /\ h = Head(Sleepers(q)) /\ IsList(next, next[h], Tail(Sleepers(q)))
        /\ next[h] \in Pointer /\ h \in Range(Sleepers(q))
        /\ Range(Tail(Sleepers(q))) = Range(Sleepers(q)) \ {h}
        /\ Tail(Sleepers(q)) \in Seq(Tid)
    <2>1. PICK s : s = Sleepers(q)
      OBVIOUS
    <2>2. s \in Seq(Tid) /\ s # <<>> /\ IsInjective(s) /\ IsList(next, h, s)
      BY <1>1, <1>2, <2>1
    <2>3. h \in Tid /\ h = Head(s) /\ next[h] \in Pointer /\ IsList(next, next[h], Tail(s))
      BY <2>2, RestList
    <2>4. /\ Head(s) \in Range(s) /\ Tail(s) \in Seq(Tid)
          /\ Range(Tail(s)) = Range(s) \ {Head(s)}
      BY <2>2, TailQueue
    <2> QED BY <2>1, <2>3, <2>4
  <1>4. PICK l : l = [List(readyhead) EXCEPT !.next[h] = NULL]
    OBVIOUS
  <1>5. /\ h \notin Range(Ready)
        /\ IsQueue(l, Ready) /\ l.next = [next EXCEPT ![h] = NULL] /\ l.head = readyhead
    <2>1. h \in Tid \ Range(Ready)
      BY <1>1, <1>3
    <2>2. PICK k : k = List(readyhead)
      OBVIOUS
    <2>3. IsQueue(k, Ready) /\ k.next = next /\ k.head = readyhead
      BY <1>1, <2>2
    <2>4. IsQueue(l, Ready) /\ l.next = [k.next EXCEPT ![h] = NULL] /\ l.head = k.head
      BY <1>4, <2>1, <2>2, <2>3, ClearQueue
    <2> QED BY <2>1, <2>3, <2>4
  <1>6. l = [head |-> readyhead, next |-> [next EXCEPT ![h] = NULL]]
    BY <1>5 DEF IsQueue
  <1>7. l.next[h] = NULL /\ \A t \in Tid \ {h} : l.next[t] = next[t]
    BY <1>1, <1>3, <1>5
  <1>8. PICK m : m = Splice(l, h)
    OBVIOUS
  <1>9. /\ IsQueue(m, Append(Ready, h)) /\ \A t \in Tid \ Range(Ready) : m.next[t] = l.next[t]
    <2>1. h \in Tid \ Range(Ready) /\ l.next[h] = NULL /\ IsQueue(l, Ready)
      BY <1>3, <1>5, <1>7
    <2>2. /\ IsQueue(Enqueue(l, h), Append(Ready, h)) /\ Splice(l, h) = Enqueue(l, h)
          /\ \A t \in Tid \ Range(Ready) : Enqueue(l, h).next[t] = l.next[t]
      BY <2>1, EnqueueQueue
    <2> QED BY <1>8, <2>2
  <1>10. /\ readyhead' = m.head /\ next' = m.next /\ head' = [head EXCEPT ![q] = next[h]]
         /\ size' = [size EXCEPT ![q] = @ - 1]
    BY <1>2, <1>6, <1>8 DEF WakeOne, Becomes
  <1>11. /\ next' \in [Tid -> Pointer] /\ Acyclic(next') /\ readyhead' \in Pointer
         /\ IsList(next', readyhead', Append(Ready, h))
    BY <1>9, <1>10 DEF IsQueue
  <1>12. Ready' = Append(Ready, h)
    BY <1>11, ChainOf DEF Ready
  <1> DEFINE M == Range(Ready) \cup {h}
  <1>13. \A t \in Tid \ M : next'[t] = next[t]
    BY <1>7, <1>9, <1>10
  <1>14. /\ M \cap (Range(Zombies) \cup Stranded) = {}
         /\ \A r \in WaitQueues \ {q} : M \cap Range(Sleepers(r)) = {}
    <2>1. M \cap (Range(Zombies) \cup Stranded) = {}
      BY <1>3, Apart DEF Asleep
    <2>2. ASSUME NEW r \in WaitQueues \ {q} PROVE M \cap Range(Sleepers(r)) = {}
      <3>1. Range(Sleepers(q)) \cap Range(Sleepers(r)) = {}
        BY Apart
      <3>2. Range(Ready) \cap Range(Sleepers(r)) = {}
        BY ReadyQueue
      <3> QED BY <1>3, <3>1, <3>2
    <2> QED BY <2>1, <2>2
  <1>15. /\ Len(Sleepers(q)) \in Nat /\ Len(Sleepers(q)) >= 1
         /\ Len(Tail(Sleepers(q))) = Len(Sleepers(q)) - 1
    BY <1>1, LenProperties, EmptySeq, HeadTailProperties
  <1>16. size[q] = Len(Sleepers(q))
    BY DEF LInv, Shape, WaitSizesAreLengths
  <1>17. /\ head \in [WaitQueues -> Pointer] /\ size \in [WaitQueues -> Nat]
    BY DEF LInv, Shape, LinkedTypeOK
  <1>18. size[q] - 1 \in Nat /\ size[q] - 1 = Len(Tail(Sleepers(q)))
    BY <1>15, <1>16
  <1>19. /\ head' \in [WaitQueues -> Pointer] /\ size' \in [WaitQueues -> Nat]
         /\ head'[q] = next[h] /\ size'[q] = Len(Tail(Sleepers(q)))
         /\ \A r \in WaitQueues \ {q} : head'[r] = head[r] /\ size'[r] = size[r]
    BY <1>3, <1>10, <1>17, <1>18
  <1>20. Chain(next', head'[q]) = Tail(Sleepers(q))
    <2>1. \A t \in Range(Tail(Sleepers(q))) : next'[t] = next[t]
      <3>1. Range(Tail(Sleepers(q))) \subseteq Tid
        BY <1>3, RangeOfSeq
      <3> QED BY <1>1, <1>3, <1>13, <3>1
    <2>2. IsList(next', next[h], Tail(Sleepers(q)))
      BY <1>3, <2>1, ListFrame
    <2> QED BY <1>3, <1>11, <1>19, <2>2, ChainOf
  <1>21. /\ ctx' \in [Tid -> Sched!Ctx] /\ masked' \in BOOLEAN
         /\ enabled' \in [Tid -> BOOLEAN] /\ wants' \in [Tid -> BOOLEAN]
    BY MaskTypes DEF LInv, Shape, LinkedTypeOK
  <1>22. /\ exists' \subseteq Tid /\ current' \in Tid /\ next'[current'] = NULL /\ Up'
    BY <1>1, <1>3, <1>13, StatusIs DEF LInv, Shape, LinkedTypeOK, Up
  <1> HIDE DEF M
  <1>23. /\ Shape' /\ Zombies' = Zombies /\ Stranded' = Stranded
         /\ [r \in WaitQueues |-> Sleepers(r)]'
              = [[r \in WaitQueues |-> Sleepers(r)] EXCEPT ![q] = Tail(Sleepers(q))]
    BY <1>11, <1>13, <1>14, <1>19, <1>20, <1>21, <1>22, MoveStep
  <1> QED BY <1>3, <1>12, <1>23 DEF SP!WakeOne

(* thread_wakeup. *)
LEMMA WakeupStep ==
  ASSUME LInv, NEW q \in WaitQueues, NEW all \in BOOLEAN, ThreadWakeup(q, all)
  PROVE  Shape' /\ SP!ThreadWakeup(q, all)
  <1>1. /\ InUser /\ Up /\ head[q] # NULL /\ (IF all THEN WakeAll(q) ELSE WakeOne(q))
        /\ UNCHANGED <<exists, current, ctx, setcontext_called, status, killhead, leaked, mask>>
    BY StatusIs DEF ThreadWakeup, InUser
  <1>2. Sleepers(q) # <<>> /\ SP!InUser
    BY <1>1, ReadyQueue DEF InUser, SP!InUser
  <1>3. CASE all
    BY <1>1, <1>2, <1>3, WakeAllStep DEF SP!ThreadWakeup
  <1>4. CASE ~all
    BY <1>1, <1>2, <1>4, WakeOneStep DEF SP!ThreadWakeup
  <1> QED BY <1>3, <1>4

(* thread_wait. *)
LEMMA WaitStep ==
  ASSUME LInv, NEW tid \in Tid, ThreadWait(tid)
  PROVE  Shape' /\ SP!ThreadWait(tid)
  <1>1. InUser /\ Up /\ tid \in exists \ {current} /\ tid \in WaitQueues
    BY StatusIs, Pointers DEF ThreadWait, InUser
  <1>2. SP!InUser
    BY <1>1 DEF InUser, SP!InUser
  <1>3. CASE GoToSleep(tid, "wait")
    BY <1>1, <1>2, <1>3, Contexts, SleepStep DEF SP!ThreadWait
  <1>4. CASE /\ readyhead = NULL /\ KillExitThreads
             /\ UNCHANGED <<current, ctx, setcontext_called, status, next, readyhead, mask>>
    <2>1. setcontext_called \in {0, 1} /\ status \in Sched!Status
      BY DEF LInv, Shape, LinkedTypeOK
    <2>2. ReadyStep /\ Ready' = Ready
      BY <1>1, <1>4, <2>1, StayStep
    <2>3. Shape' /\ SP!KillExitThreads
      BY <1>1, <1>4, <2>2, ReapShape
    <2> QED BY <1>1, <1>2, <1>4, <2>2, <2>3, ReadyQueue DEF SP!ThreadWait
  <1> QED BY <1>3, <1>4 DEF ThreadWait

(* The rest of thread_wait, after the wakeup. *)
LEMMA ResumeWaitStep ==
  ASSUME LInv, ResumeWait
  PROVE  Shape' /\ SP!ResumeWait
  <1>1. /\ Up /\ ctx[current] = "wait" /\ KillExitThreads /\ Restore
        /\ UNCHANGED <<current, setcontext_called, status, next, readyhead>>
    BY StatusIs DEF ResumeWait
  <1>2. /\ ctx' \in [Tid -> Sched!Ctx] /\ ctx' = [ctx EXCEPT ![current] = "run"]
        /\ masked' \in BOOLEAN /\ enabled' \in [Tid -> BOOLEAN]
        /\ wants' \in [Tid -> BOOLEAN]
    BY <1>1, RestoreTypes DEF LInv, Shape
  <1>3. setcontext_called \in {0, 1} /\ status \in Sched!Status
    BY DEF LInv, Shape, LinkedTypeOK
  <1>4. ReadyStep
    BY <1>1, <1>2, <1>3, Lists, ReadyQueue DEF ReadyStep, LInv
  <1>5. Shape' /\ SP!KillExitThreads
    BY <1>1, <1>4, ReapShape
  <1>6. Ready' = Ready
    BY <1>1 DEF Ready
  <1> QED BY <1>1, <1>2, <1>5, <1>6, StatusIs DEF SP!ResumeWait

-----------------------------------------------------------------------------
(* thread_exit. *)

(* What it makes of the ready queue when at most one exited thread awaits   *)
(* its reaping.                                                             *)
SpliceAll(base, s) == FoldLeft(LAMBDA l, z : Splice(l, head[z]), base, s)

(* The fold over killq splices for one exited thread, or for none. *)
LEMMA SpliceAtMostOne ==
  ASSUME NEW base
  PROVE  SpliceAll(base, <<>>) = base /\ \A y : SpliceAll(base, <<y>>) = Splice(base, head[y])
  <1> DEFINE R(f, s, S) == IF S = {} THEN base
                           ELSE Splice(f[S \ {Max(S)}], head[s[Max(S)]])
             Solves(f, s) == f = [S \in SUBSET DOMAIN s |-> R(f, s, S)]
  <1>1. ASSUME NEW s PROVE SpliceAll(base, s) = (CHOOSE f : Solves(f, s))[DOMAIN s]
    BY DEF SpliceAll, FoldLeft, MapThenFoldSet
  <1>2. SpliceAll(base, <<>>) = base
    <2>1. DOMAIN <<>> = {}
      OBVIOUS
    <2>2. PICK g : g = [S \in SUBSET {} |-> base]
      OBVIOUS
    <2>3. Solves(g, <<>>)
      BY <2>1, <2>2
    <2> HIDE DEF Solves
    <2>4. Solves(CHOOSE f : Solves(f, <<>>), <<>>)
      BY <2>3
    <2>5. (CHOOSE f : Solves(f, <<>>))[{}] = base
      <3>1. PICK h : h = CHOOSE f : Solves(f, <<>>)
        OBVIOUS
      <3>2. Solves(h, <<>>)
        BY <2>4, <3>1
      <3>3. h[{}] = base
        BY <2>1, <3>2 DEF Solves
      <3> QED BY <3>1, <3>3
    <2> QED BY <1>1, <2>1, <2>5
  <1>3. ASSUME NEW y PROVE SpliceAll(base, <<y>>) = Splice(base, head[y])
    <2>1. DOMAIN <<y>> = {1} /\ <<y>>[1] = y
      OBVIOUS
    <2>2. Max({1}) = 1
      BY DEF Max
    <2>3. PICK one : one = Splice(base, head[y])
      OBVIOUS
    <2>4. PICK g : g = [S \in SUBSET {1} |-> IF S = {} THEN base ELSE one]
      OBVIOUS
    <2>5. Solves(g, <<y>>)
      <3>1. \A S \in SUBSET {1} : R(g, <<y>>, S) = IF S = {} THEN base ELSE one
        <4> SUFFICES ASSUME NEW S \in SUBSET {1}, S # {} PROVE R(g, <<y>>, S) = one
          OBVIOUS
        <4>1. S = {1} /\ S \ {1} = {} /\ g[{}] = base
          BY <2>4
        <4> QED BY <2>1, <2>2, <2>3, <4>1
      <3> HIDE DEF R
      <3> QED BY <2>1, <2>4, <3>1
    <2> HIDE DEF Solves
    <2>6. Solves(CHOOSE f : Solves(f, <<y>>), <<y>>)
      BY <2>5
    <2>7. PICK h : h = CHOOSE f : Solves(f, <<y>>)
      OBVIOUS
    <2>8. h = [S \in SUBSET {1} |-> R(h, <<y>>, S)]
      <3>1. Solves(h, <<y>>)
        BY <2>6, <2>7
      <3> HIDE DEF R
      <3> QED BY <2>1, <3>1 DEF Solves
    <2>9. h[{}] = base
      BY <2>8
    <2>10. h[{1}] = Splice(base, head[y])
      <3>1. h[{1}] = R(h, <<y>>, {1})
        BY <2>8
      <3>2. {1} \ {1} = {}
        OBVIOUS
      <3> QED BY <2>1, <2>2, <2>9, <3>1, <3>2
    <2> QED BY <1>1, <2>1, <2>7, <2>10
  <1> QED BY <1>2, <1>3

(* The ready queue of an exit, in these terms. *)
LEMMA AtExitIs == ReadyAtExit = SpliceAll(Splice(List(readyhead), head[current]), Zombies)
  BY DEF ReadyAtExit, SpliceAll

(* The ready queue once all have been woken is that of ThreadSched, and     *)
(* only next fields of its threads were written.                            *)
LEMMA ExitQueue ==
  ASSUME LInv, Up
  PROVE  /\ IsQueue(ReadyAtExit, SP!ReadyAtExit)
         /\ Range(SP!ReadyAtExit) = UNION {Range(Ready), Range(Sleepers(current)),
                                           UNION {Range(Sleepers(z)) : z \in Range(Zombies)}}
         /\ \A t \in Tid \ Range(SP!ReadyAtExit) : ReadyAtExit.next[t] = next[t]
  <1>1. /\ IsQueue(List(readyhead), Ready) /\ List(readyhead).next = next
        /\ current \in Tid /\ current \in WaitQueues /\ Ready \in Seq(Tid)
        /\ \A q \in WaitQueues : /\ head[q] \in Pointer /\ IsList(next, head[q], Sleepers(q))
                                 /\ Sleepers(q) \in Seq(Tid)
                                 /\ IsInjective(Sleepers(q))
                                 /\ Range(Ready) \cap Range(Sleepers(q)) = {}
    BY Lists, ReadyQueue, Pointers DEF LInv
  <1>2. PICK own : own = Ready \o Sleepers(current)
    OBVIOUS
  <1>3. PICK l : l = Splice(List(readyhead), head[current])
    OBVIOUS
  <1>4. IsQueue(l, own) /\ \A t \in Tid \ Range(Ready) : l.next[t] = next[t]
    BY <1>1, <1>2, <1>3, SpliceQueue
  <1>5. own \in Seq(Tid) /\ Range(own) = Range(Ready) \cup Range(Sleepers(current))
    BY <1>1, <1>2, ConcatQueue
  <1>6. /\ ReadyAtExit = SpliceAll(l, Zombies)
        /\ SpliceAll(l, <<>>) = l /\ \A z : SpliceAll(l, <<z>>) = Splice(l, head[z])
    BY <1>3, AtExitIs, SpliceAtMostOne
  <1>7. SP!ReadyAtExit = own \o SP!FlattenSeq([i \in DOMAIN Zombies |->
                                   [q \in WaitQueues |-> Sleepers(q)][Zombies[i]]])
    BY <1>1, <1>2 DEF SP!ReadyAtExit
  <1>8. CASE Zombies = <<>>
    <2>1. [i \in DOMAIN Zombies |-> [q \in WaitQueues |-> Sleepers(q)][Zombies[i]]] = <<>>
      BY <1>8
    <2>2. SP!FlattenSeq(<<>>) = <<>>
      BY SameFlatten, FlattenEmpty
    <2>3. SP!ReadyAtExit = own /\ ReadyAtExit = l
      BY <1>5, <1>6, <1>7, <1>8, <2>1, <2>2, ConcatEmptySeq
    <2>4. Range(Zombies) = {}
      BY <1>8, EmptyQueue
    <2> QED BY <1>4, <1>5, <2>3, <2>4
  <1>9. ASSUME NEW z \in Tid, Zombies = <<z>>, Range(Zombies) = {z}
        PROVE  /\ IsQueue(ReadyAtExit, SP!ReadyAtExit)
               /\ Range(SP!ReadyAtExit) = UNION {Range(Ready), Range(Sleepers(current)),
                                           UNION {Range(Sleepers(y)) : y \in Range(Zombies)}}
               /\ \A t \in Tid \ Range(SP!ReadyAtExit) : ReadyAtExit.next[t] = next[t]
    <2>1. z \in WaitQueues /\ z # current
      <3>1. current \notin Range(Zombies)
        BY Apart
      <3> QED BY <1>9, <3>1, Pointers
    <2>2. /\ head[z] \in Pointer /\ IsList(next, head[z], Sleepers(z))
          /\ Sleepers(z) \in Seq(Tid) /\ IsInjective(Sleepers(z))
          /\ Range(Ready) \cap Range(Sleepers(z)) = {}
          /\ Range(Sleepers(current)) \cap Range(Sleepers(z)) = {}
      BY <1>1, <2>1, Apart
    <2>3. IsList(l.next, head[z], Sleepers(z))
      <3>1. Range(Sleepers(z)) \subseteq Tid
        BY <2>2, RangeOfSeq
      <3>2. \A t \in Range(Sleepers(z)) : l.next[t] = next[t]
        BY <1>4, <2>2, <3>1
      <3> QED BY <2>2, <3>2, ListFrame
    <2>4. PICK m : m = Splice(l, head[z])
      OBVIOUS
    <2>5. /\ IsQueue(m, own \o Sleepers(z))
          /\ \A t \in Tid \ Range(own) : m.next[t] = l.next[t]
      <3>1. Range(own) \cap Range(Sleepers(z)) = {}
        BY <1>5, <2>2
      <3> QED BY <1>4, <2>2, <2>3, <2>4, <3>1, SpliceQueue
    <2>6. [i \in DOMAIN Zombies |-> [q \in WaitQueues |-> Sleepers(q)][Zombies[i]]]
            = <<Sleepers(z)>>
      BY <1>9, <2>1
    <2>7. SP!FlattenSeq(<<Sleepers(z)>>) = Sleepers(z)
      BY <2>2, SameFlatten, FlattenOne
    <2>8. SP!ReadyAtExit = own \o Sleepers(z) /\ ReadyAtExit = m
      BY <1>6, <1>7, <1>9, <2>4, <2>6, <2>7
    <2>9. Range(own \o Sleepers(z)) = Range(own) \cup Range(Sleepers(z))
      BY <1>5, <2>2, ConcatQueue
    <2>10. Range(SP!ReadyAtExit) = UNION {Range(Ready), Range(Sleepers(current)),
                                           UNION {Range(Sleepers(y)) : y \in Range(Zombies)}}
      BY <1>5, <1>9, <2>8, <2>9
    <2>11. \A t \in Tid \ Range(SP!ReadyAtExit) : ReadyAtExit.next[t] = next[t]
      BY <1>4, <1>5, <2>5, <2>8, <2>9
    <2> QED BY <2>5, <2>8, <2>10, <2>11
  <1>10. Zombies = <<>> \/ \E z \in Tid : Zombies = <<z>> /\ Range(Zombies) = {z}
    BY Lists, Apart, ShortQueue DEF LInv
  <1> QED BY <1>8, <1>9, <1>10

(* The wait queues but for those of the threads in G, after a step that     *)
(* wrote only next fields of threads that are not in the others.            *)
LEMMA ExitLists ==
  ASSUME LInv, Up, next' \in [Tid -> Pointer], Acyclic(next'),
         NEW G, G = Range(Zombies) \cup {current},
         head' = [q \in WaitQueues |-> IF q \in G THEN NULL ELSE head[q]],
         size' = [q \in WaitQueues |-> IF q \in G THEN 0 ELSE size[q]],
         UNCHANGED leaked,
         \A t \in Tid \ (Range(SP!ReadyAtExit) \cup {current}) : next'[t] = next[t]
  PROVE  /\ [q \in WaitQueues |-> Sleepers(q)]' = SP!Without(G)
         /\ Stranded' = Stranded
         /\ head' \in [WaitQueues -> Pointer] /\ size' \in [WaitQueues -> Nat]
         /\ \A q \in WaitQueues : size'[q] = Len(Sleepers(q)')
  <1>1. Range(SP!ReadyAtExit) = UNION {Range(Ready), Range(Sleepers(current)),
                                       UNION {Range(Sleepers(z)) : z \in Range(Zombies)}}
    BY ExitQueue
  <1>2. current \in WaitQueues /\ \A z \in Range(Zombies) : z \in WaitQueues
    <2>1. Range(Zombies) \subseteq Tid
      BY Lists, RangeOfSeq DEF LInv
    <2> QED BY <2>1, Lists, Pointers DEF LInv
  <1> DEFINE M == Range(SP!ReadyAtExit) \cup {current}
  <1>3. M \cap Stranded = {}
    <2>1. Range(Ready) \cap Stranded = {} /\ current \notin Stranded /\ Asleep \cap Stranded = {}
      BY Apart
    <2>2. \A q \in WaitQueues : Range(Sleepers(q)) \subseteq Asleep
      BY DEF Asleep
    <2> QED BY <1>1, <1>2, <2>1, <2>2
  <1>4. ASSUME NEW q \in WaitQueues \ G PROVE M \cap Range(Sleepers(q)) = {}
    <2>1. Range(Ready) \cap Range(Sleepers(q)) = {} /\ current \notin Range(Sleepers(q))
      BY ReadyQueue
    <2>2. \A r \in G : Range(Sleepers(r)) \cap Range(Sleepers(q)) = {}
      BY <1>2, Apart
    <2> QED BY <1>1, <2>1, <2>2
  <1>5. /\ UNION {Range(Chain(next', h)) : h \in leaked} = Stranded
        /\ \A q \in WaitQueues \ G : Chain(next', head[q]) = Sleepers(q)
    <2> HIDE DEF M
    <2>1. \A t \in Tid \ M : next'[t] = next[t]
      BY DEF M
    <2> QED BY <1>3, <1>4, <2>1, OtherLists
  <1>6. \A q \in WaitQueues : /\ Sleepers(q)' = IF q \in G THEN <<>> ELSE Sleepers(q)
                              /\ size'[q] = IF q \in G THEN 0 ELSE size[q]
    BY <1>5, NoChain DEF Sleepers
  <1>7. Stranded' = Stranded
    BY <1>5 DEF Stranded
  <1>8. [q \in WaitQueues |-> Sleepers(q)]' = SP!Without(G)
    BY <1>6, SameOperators DEF SP!Without
  <1>9. head' \in [WaitQueues -> Pointer] /\ size' \in [WaitQueues -> Nat]
    BY Lists, Pointers DEF LInv
  <1>10. \A q \in WaitQueues : size'[q] = Len(Sleepers(q)')
    <2>1. \A q \in WaitQueues : size[q] = Len(Sleepers(q))
      BY DEF LInv, Shape, WaitSizesAreLengths
    <2>2. Len(<<>>) = 0
      OBVIOUS
    <2> QED BY <1>6, <2>1, <2>2
  <1> QED BY <1>7, <1>8, <1>9, <1>10

(* thread_exit. *)
LEMMA ExitStep ==
  ASSUME LInv, ThreadExit
  PROVE  Shape' /\ SP!ThreadExit
  <1>1. /\ Up /\ ctx[current] \in {"run", "exit"} /\ UNCHANGED <<setcontext_called, leaked>>
        /\ ExitProcess(ReadyAtExit) \/ ExitToNext(ReadyAtExit)
    BY StatusIs DEF ThreadExit
  <1>2. PICK G : G = Range(Zombies) \cup {current}
    OBVIOUS
  <1>3. /\ head' = [q \in WaitQueues |-> IF q \in G THEN NULL ELSE head[q]]
        /\ size' = [q \in WaitQueues |-> IF q \in G THEN 0 ELSE size[q]]
    BY <1>2 DEF ThreadExit
  <1>4. PICK l : l = ReadyAtExit
    OBVIOUS
  <1>5. PICK s : s = SP!ReadyAtExit
    OBVIOUS
  <1>6. /\ IsQueue(l, s) /\ \A t \in Tid \ Range(s) : l.next[t] = next[t]
        /\ Range(s) = UNION {Range(Ready), Range(Sleepers(current)),
                             UNION {Range(Sleepers(z)) : z \in Range(Zombies)}}
    BY <1>1, <1>4, <1>5, ExitQueue
  <1>7. /\ l.next \in [Tid -> Pointer] /\ Acyclic(l.next) /\ l.head \in Pointer
        /\ IsList(l.next, l.head, s) /\ s \in Seq(Tid)
        /\ l.head = NULL <=> s = <<>>
    <2>1. IsList(l.next, l.head, s)
      BY <1>6 DEF IsQueue
    <2>2. l.head = NULL <=> s = <<>>
      BY <2>1, EmptyList
    <2> QED BY <1>6, <2>1, <2>2 DEF IsQueue, IsList
  <1>8. /\ current \in Tid /\ ctx \in [Tid -> Sched!Ctx] /\ exists \subseteq Tid
        /\ leaked \subseteq Tid /\ setcontext_called \in {0, 1} /\ status \in Sched!Status
        /\ masked \in BOOLEAN /\ enabled \in [Tid -> BOOLEAN] /\ wants \in [Tid -> BOOLEAN]
    BY DEF LInv, Shape, LinkedTypeOK
  <1>9. SP!Zombies \cup {current} = G /\ SP!Zombies = Range(Zombies)
    BY <1>2, SameOperators DEF SP!Zombies
  <1>10. current \notin Range(s)
    <2>1. current \in WaitQueues /\ \A z \in Range(Zombies) : z \in WaitQueues
      <3>1. Range(Zombies) \subseteq Tid
        BY Lists, RangeOfSeq DEF LInv
      <3> QED BY <1>8, <3>1, Pointers
    <2>2. current \notin Range(Ready) /\ \A q \in WaitQueues : current \notin Range(Sleepers(q))
      BY <1>1, ReadyQueue
    <2> QED BY <1>6, <2>1, <2>2
  <1>11. CASE ExitProcess(l)
    <2>1. /\ l.head = NULL /\ status' = "exited" /\ exists' = exists \ (Range(Zombies) \cup {current})
          /\ killhead' = NULL /\ readyhead' = l.head /\ next' = l.next
          /\ UNCHANGED <<current, ctx, mask>>
      BY <1>11 DEF ExitProcess, Becomes
    <2>2. \A t \in Tid \ (Range(s) \cup {current}) : next'[t] = next[t]
      BY <1>6, <2>1
    <2>3. /\ [q \in WaitQueues |-> Sleepers(q)]' = SP!Without(G) /\ Stranded' = Stranded
          /\ head' \in [WaitQueues -> Pointer] /\ size' \in [WaitQueues -> Nat]
      BY <1>1, <1>2, <1>3, <1>5, <1>7, <2>1, <2>2, ExitLists
    <2>4. Zombies' = <<>> /\ Ready' = <<>>
      BY <2>1, NoChain DEF Zombies, Ready
    <2>5. s = <<>> /\ Ready = <<>>
      <3>1. s = <<>>
        BY <1>7, <2>1
      <3>2. Range(Ready) = {}
        BY <1>6, <3>1, EmptyQueue
      <3> QED BY <3>1, <3>2, Lists, QueueEmpty DEF LInv
    <2>6. SP!ExitProcess
      BY <1>5, <1>9, <2>1, <2>4, <2>5 DEF SP!ExitProcess
    <2>7. SP!ThreadExit
      BY <1>1, <1>9, <2>3, <2>6, StatusIs DEF SP!ThreadExit
    <2>8. LinkedTypeOK'
      <3>1. /\ masked' \in BOOLEAN /\ enabled' \in [Tid -> BOOLEAN]
            /\ wants' \in [Tid -> BOOLEAN]
        BY <2>1, MaskTypes DEF LInv, Shape
      <3>2. exists' \subseteq Tid /\ status' \in Sched!Status /\ leaked' \subseteq Tid
        BY <1>1, <1>8, <2>1, Contexts
      <3> QED BY <1>1, <1>7, <1>8, <2>1, <2>3, <3>1, <3>2, Pointers DEF LinkedTypeOK
    <2>9. ~Up'
      BY <2>1 DEF Up
    <2> QED BY <1>7, <2>1, <2>7, <2>8, <2>9 DEF Shape, WaitSizesAreLengths
  <1>12. CASE ExitToNext(l)
    <2>1. PICK m : m = Behead(l)
      OBVIOUS
    <2>2. /\ l.head # NULL /\ exists' = exists \ Range(Zombies) /\ killhead' = current
          /\ Becomes([m EXCEPT !.next[current] = NULL])
          /\ current' = l.head /\ ctx' = [ctx EXCEPT ![current] = "exit"]
          /\ masked' = TRUE /\ UNCHANGED <<status, enabled, wants>>
      BY <1>12, <2>1 DEF ExitToNext
    <2>3. /\ s # <<>> /\ IsQueue(m, Tail(s)) /\ m.next[l.head] = NULL
          /\ \A t \in Tid \ {l.head} : m.next[t] = l.next[t]
      BY <1>6, <1>7, <2>1, <2>2, BeheadQueue
    <2>4. /\ l.head \in Tid /\ l.head = Head(s) /\ l.head \in Range(s)
          /\ Range(Tail(s)) \subseteq Range(s)
      <3>1. l.head \in Tid /\ l.head = Head(s)
        BY <1>7, <2>3, RestList
      <3>2. Head(s) \in Range(s) /\ Range(Tail(s)) \subseteq Range(s)
        BY <1>6, <1>7, <2>3, TailQueue DEF IsQueue
      <3> QED BY <3>1, <3>2
    <2>5. current \notin Range(Tail(s)) /\ l.head # current
      BY <1>10, <2>4
    <2>6. PICK k : k = [m EXCEPT !.next[current] = NULL]
      OBVIOUS
    <2>7. IsQueue(k, Tail(s)) /\ k.next = [m.next EXCEPT ![current] = NULL]
      <3>1. current \in Tid \ Range(Tail(s)) /\ IsQueue(m, Tail(s))
        BY <1>8, <2>3, <2>5
      <3> QED BY <2>6, <3>1, ClearQueue
    <2>8. readyhead' = k.head /\ next' = k.next
      BY <2>2, <2>6 DEF Becomes
    <2>9. /\ next' \in [Tid -> Pointer] /\ Acyclic(next') /\ readyhead' \in Pointer
          /\ IsList(next', readyhead', Tail(s)) /\ m.next \in [Tid -> Pointer]
      BY <2>3, <2>7, <2>8 DEF IsQueue
    <2>10. Ready' = Tail(s)
      BY <2>9, ChainOf DEF Ready
    <2>11. /\ next'[current] = NULL /\ next'[l.head] = NULL
           /\ \A t \in Tid \ (Range(s) \cup {current}) : next'[t] = next[t]
      BY <1>6, <1>8, <2>3, <2>4, <2>5, <2>7, <2>8, <2>9
    <2>12. Zombies' = <<current>>
      <3>1. IsList(next', current, <<current>>) /\ current \in Pointer
        BY <1>8, <2>11, SingleList, Pointers
      <3> QED BY <2>2, <2>9, <3>1, ChainOf DEF Zombies
    <2>13. /\ [q \in WaitQueues |-> Sleepers(q)]' = SP!Without(G) /\ Stranded' = Stranded
           /\ head' \in [WaitQueues -> Pointer] /\ size' \in [WaitQueues -> Nat]
           /\ \A q \in WaitQueues : size'[q] = Len(Sleepers(q)')
      BY <1>1, <1>2, <1>3, <1>5, <2>9, <2>11, ExitLists
    <2>14. SP!ExitToNext
      BY <1>5, <1>9, <2>2, <2>3, <2>4, <2>10, <2>12 DEF SP!ExitToNext
    <2>15. SP!ThreadExit
      BY <1>1, <1>9, <2>13, <2>14, StatusIs DEF SP!ThreadExit
    <2>16. LinkedTypeOK'
      <3>1. ctx' \in [Tid -> Sched!Ctx] /\ exists' \subseteq Tid /\ killhead' \in Pointer
        BY <1>8, <2>2, Contexts, Pointers
      <3> QED BY <1>1, <1>8, <2>2, <2>4, <2>9, <2>13, <3>1 DEF LinkedTypeOK
    <2>17. WaitSizesAreLengths'
      BY <2>13 DEF WaitSizesAreLengths
    <2> QED BY <2>2, <2>9, <2>11, <2>15, <2>16, <2>17 DEF Shape
  <1> QED BY <1>1, <1>4, <1>11, <1>12

-----------------------------------------------------------------------------
(* SP and Sched are the same specification. *)
LEMMA SameSched ==
  /\ SP!vars = Sched!vars
  /\ SP!Init => Sched!Init
  /\ SP!Next => Sched!Next
  <1>1. SP!vars = Sched!vars
    BY DEF SP!vars, Sched!vars
  <1>2. SP!Init => Sched!Init
    BY DEF SP!Init, Sched!Init, SP!WaitQueues, Sched!WaitQueues, SP!Tid, Sched!Tid
  <1>3. /\ \A s : SP!Range(s) = Sched!Range(s)
        /\ \A s, i : SP!RemoveAt(s, i) = Sched!RemoveAt(s, i)
        /\ SP!Tid = Sched!Tid /\ SP!WaitQueues = Sched!WaitQueues
        /\ SP!THREAD_ANY = Sched!THREAD_ANY /\ SP!THREAD_SELF = Sched!THREAD_SELF
        /\ SP!Yielded = Sched!Yielded
    BY DEF SP!Range, Sched!Range, SP!RemoveAt, Sched!RemoveAt, SP!Tid, Sched!Tid,
           SP!WaitQueues, Sched!WaitQueues, SP!THREAD_ANY, Sched!THREAD_ANY,
           SP!THREAD_SELF, Sched!THREAD_SELF, SP!Yielded, Sched!Yielded
  <1>4. SP!Zombies = Sched!Zombies /\ \A G : SP!Without(G) = Sched!Without(G)
    BY <1>3 DEF SP!Zombies, Sched!Zombies, SP!Without, Sched!Without
  <1>5. SP!KillExitThreads <=> Sched!KillExitThreads
    BY <1>3, <1>4 DEF SP!KillExitThreads, Sched!KillExitThreads
  <1>6. SP!InUser <=> Sched!InUser
    BY DEF SP!InUser, Sched!InUser
  <1>7. ASSUME NEW want PROVE SP!ThreadYield(want) <=> Sched!ThreadYield(want)
    BY <1>3, <1>5, <1>6
       DEF SP!ThreadYield, Sched!ThreadYield, SP!YieldAlone, Sched!YieldAlone,
           SP!YieldAny, Sched!YieldAny, SP!YieldSelf, Sched!YieldSelf,
           SP!YieldTo, Sched!YieldTo, SP!YieldAbsent, Sched!YieldAbsent,
           SP!SwitchTo, Sched!SwitchTo
  <1>8. SP!ThreadCreate <=> Sched!ThreadCreate
    BY <1>3, <1>6 DEF SP!ThreadCreate, Sched!ThreadCreate, SP!NewId, Sched!NewId
  <1>9. ASSUME NEW q, NEW c PROVE SP!GoToSleep(q, c) <=> Sched!GoToSleep(q, c)
    BY <1>3 DEF SP!GoToSleep, Sched!GoToSleep
  <1>10. ASSUME NEW q PROVE SP!ThreadSleep(q) <=> Sched!ThreadSleep(q)
    BY <1>6, <1>9 DEF SP!ThreadSleep, Sched!ThreadSleep
  <1>11. ASSUME NEW q, NEW all PROVE SP!ThreadWakeup(q, all) <=> Sched!ThreadWakeup(q, all)
    BY <1>6 DEF SP!ThreadWakeup, Sched!ThreadWakeup, SP!WakeAll, Sched!WakeAll,
                SP!WakeOne, Sched!WakeOne
  <1>12. ASSUME NEW t PROVE SP!ThreadWait(t) <=> Sched!ThreadWait(t)
    BY <1>5, <1>6, <1>9 DEF SP!ThreadWait, Sched!ThreadWait
  <1>13. ASSUME NEW t PROVE SP!ThreadKill(t) <=> Sched!ThreadKill(t)
    BY <1>6 DEF SP!ThreadKill, Sched!ThreadKill
  <1>14. SP!ReadyAtExit = Sched!ReadyAtExit
    BY DEF SP!ReadyAtExit, Sched!ReadyAtExit, SP!FlattenSeq, Sched!FlattenSeq
  <1>15. SP!ThreadExit <=> Sched!ThreadExit
    BY <1>4, <1>14 DEF SP!ThreadExit, Sched!ThreadExit, SP!ExitProcess, Sched!ExitProcess,
                       SP!ExitToNext, Sched!ExitToNext
  <1>16. SP!BeyondTable <=> Sched!BeyondTable
    BY <1>6 DEF SP!BeyondTable, Sched!BeyondTable
  <1>17. SP!Ended <=> Sched!Ended
    BY DEF SP!Ended, Sched!Ended, SP!vars, Sched!vars
  <1>18. SP!Continue <=> Sched!Continue
    <2>1. SP!ThreadStub <=> Sched!ThreadStub
      BY DEF SP!ThreadStub, Sched!ThreadStub
    <2>2. SP!ResumeYield <=> Sched!ResumeYield
      BY <1>3 DEF SP!ResumeYield, Sched!ResumeYield
    <2>3. SP!ResumeSleep <=> Sched!ResumeSleep
      BY DEF SP!ResumeSleep, Sched!ResumeSleep
    <2>4. SP!ResumeWait <=> Sched!ResumeWait
      BY <1>5 DEF SP!ResumeWait, Sched!ResumeWait
    <2> QED BY <1>15, <2>1, <2>2, <2>3, <2>4 DEF SP!Continue, Sched!Continue
  <1>19. SP!Call => Sched!Call
    BY <1>3, <1>7, <1>8, <1>10, <1>11, <1>12, <1>13, <1>15 DEF SP!Call, Sched!Call
  <1>20. SP!InterruptHandler <=> Sched!InterruptHandler
    BY <1>3, <1>7 DEF SP!InterruptHandler, Sched!InterruptHandler
  <1>21. SP!Next => Sched!Next
    BY <1>3, <1>7, <1>16, <1>17, <1>18, <1>19, <1>20 DEF SP!Next, Sched!Next
  <1> QED BY <1>1, <1>2, <1>21

-----------------------------------------------------------------------------

(* Initially all lists are empty. *)
LEMMA InitLInv == LinkedInit => LInv /\ SP!Init
  <1> SUFFICES ASSUME LinkedInit PROVE LInv /\ SP!Init
    OBVIOUS
  <1>1. \A t \in Tid : next[t] = NULL
    BY DEF LinkedInit
  <1>2. Acyclic(next)
    BY <1>1, Pointers DEF Acyclic
  <1>3. /\ Ready = <<>> /\ Zombies = <<>> /\ \A q \in WaitQueues : Sleepers(q) = <<>>
    BY NoChain DEF LinkedInit, Ready, Zombies, Sleepers
  <1>4. Stranded = {}
    BY DEF LinkedInit, Stranded
  <1>5. SP!Init
    BY <1>3, <1>4, SameOperators DEF LinkedInit, SP!Init
  <1>6. SP!IInv
    BY <1>5, SP!InitIInv, LinkedAssumption DEF Tid, SP!Tid
  <1>7. LinkedTypeOK
    BY Pointers, Contexts DEF LinkedInit, LinkedTypeOK
  <1>8. WaitSizesAreLengths
    <2>1. Len(<<>>) = 0
      OBVIOUS
    <2> QED BY <1>3, <2>1 DEF LinkedInit, WaitSizesAreLengths
  <1>9. next[current] = NULL
    BY <1>1, Pointers DEF LinkedInit
  <1> QED BY <1>2, <1>5, <1>6, <1>7, <1>8, <1>9 DEF LInv, Shape

(* A step that changes nothing. *)
LEMMA Stutter ==
  ASSUME LInv, UNCHANGED vars
  PROVE  Shape' /\ UNCHANGED SP!vars
  <1>1. /\ UNCHANGED <<exists, current, ctx, setcontext_called, status>>
        /\ next' = next /\ readyhead' = readyhead /\ killhead' = killhead
        /\ head' = head /\ size' = size /\ leaked' = leaked
        /\ masked' = masked /\ enabled' = enabled /\ wants' = wants
    BY DEF vars, lists, mask
  <1>2. /\ Ready' = Ready /\ Zombies' = Zombies /\ Stranded' = Stranded
        /\ \A q \in WaitQueues : Sleepers(q)' = Sleepers(q)
    BY <1>1 DEF Ready, Zombies, Stranded, Sleepers
  <1>3. [q \in WaitQueues |-> Sleepers(q)]' = [q \in WaitQueues |-> Sleepers(q)]
    BY <1>2
  <1>4. UNCHANGED SP!vars
    BY <1>1, <1>2, <1>3 DEF SP!vars
  <1>5. LinkedTypeOK'
    BY <1>1 DEF LInv, Shape, LinkedTypeOK
  <1>6. WaitSizesAreLengths'
    BY <1>1, <1>2 DEF LInv, Shape, WaitSizesAreLengths, Up
  <1>7. Acyclic(next)' /\ (Up => next[current] = NULL)'
    BY <1>1 DEF LInv, Shape, Up
  <1> QED BY <1>4, <1>5, <1>6, <1>7 DEF Shape

(* Every step of the lists is a step of ThreadSched, or none. *)
LEMMA StepImplements ==
  ASSUME LInv, LinkedNext
  PROVE  Shape' /\ (SP!Next \/ UNCHANGED SP!vars)
  <1>1. CASE SetMask
    BY <1>1, QuietActions
  <1>2. CASE ThreadCreate
    BY <1>2, CreateStep DEF SP!Next, SP!Call
  <1>3. CASE InterruptHandler
    <2>1. SP!THREAD_ANY = Sched!THREAD_ANY
      BY DEF SP!THREAD_ANY, Sched!THREAD_ANY
    <2>2. Shape' /\ SP!ThreadYield(SP!THREAD_ANY)
      BY <1>3, <2>1, YieldStep DEF InterruptHandler
    <2> QED BY <2>2 DEF SP!Next, SP!InterruptHandler
  <1>4. ASSUME NEW want \in Sched!THREAD_SELF - 1 .. MaxThreads + 1, ThreadYield(want)
        PROVE  Shape' /\ SP!Next
    <2>1. SP!THREAD_SELF = Sched!THREAD_SELF
      BY DEF SP!THREAD_SELF, Sched!THREAD_SELF
    <2>2. Shape' /\ SP!ThreadYield(want)
      BY <1>4, YieldStep
    <2> QED BY <2>1, <2>2 DEF SP!Next
  <1>5. ASSUME NEW q \in Queues, ThreadSleep(q) PROVE Shape' /\ SP!Next
    <2>1. q \in WaitQueues /\ Up /\ InUser
      BY <1>5, Pointers, StatusIs DEF ThreadSleep, InUser
    <2>2. Shape' /\ SP!GoToSleep(q, "sleep")
      BY <1>5, <2>1, Contexts, SleepStep DEF ThreadSleep
    <2>3. SP!ThreadSleep(q)
      BY <2>1, <2>2 DEF SP!ThreadSleep, SP!InUser, InUser
    <2> QED BY <2>2, <2>3 DEF SP!Next, SP!Call
  <1>6. ASSUME NEW q \in Queues, NEW all \in BOOLEAN, ThreadWakeup(q, all)
        PROVE  Shape' /\ SP!Next
    <2>1. Shape' /\ SP!ThreadWakeup(q, all)
      BY <1>6, Pointers, WakeupStep
    <2> QED BY <2>1 DEF SP!Next, SP!Call
  <1>7. ASSUME NEW tid \in Tid, ThreadWait(tid) PROVE Shape' /\ SP!Next
    <2>1. Shape' /\ SP!ThreadWait(tid) /\ tid \in SP!Tid
      BY <1>7, WaitStep, SameOperators
    <2> QED BY <2>1 DEF SP!Next, SP!Call
  <1>8. ASSUME NEW tid \in Tid, ThreadKill(tid) PROVE Shape' /\ SP!Next
    <2>1. Shape' /\ SP!ThreadKill(tid) /\ tid \in SP!Tid
      BY <1>8, QuietActions, SameOperators
    <2> QED BY <2>1 DEF SP!Next, SP!Call
  <1>9. CASE ThreadExit
    <2>1. Shape' /\ SP!ThreadExit
      BY <1>9, ExitStep
    <2>2. ctx[current] = "run" \/ ctx[current] = "exit"
      BY <1>9 DEF ThreadExit
    <2> QED BY <2>1, <2>2 DEF SP!Next, SP!Call, SP!Continue
  <1>10. CASE BeyondTable
    BY <1>10, QuietActions DEF SP!Next
  <1>11. CASE ThreadStub
    BY <1>11, QuietActions DEF SP!Next, SP!Continue
  <1>12. CASE ResumeYield
    BY <1>12, QuietActions DEF SP!Next, SP!Continue
  <1>13. CASE ResumeSleep
    BY <1>13, QuietActions DEF SP!Next, SP!Continue
  <1>14. CASE ResumeWait
    BY <1>14, ResumeWaitStep DEF SP!Next, SP!Continue
  <1>15. CASE Ended
    BY <1>15, Stutter DEF Ended
  <1> QED BY <1>1, <1>2, <1>3, <1>4, <1>5, <1>6, <1>7, <1>8, <1>9, <1>10, <1>11,
             <1>12, <1>13, <1>14, <1>15 DEF LinkedNext

(* Every step keeps the invariant, and is a step of ThreadSched. *)
LEMMA NextLInv ==
  ASSUME LInv, [LinkedNext]_vars
  PROVE  LInv' /\ [SP!Next]_SP!vars
  <1>1. Shape' /\ [SP!Next]_SP!vars
    BY StepImplements, Stutter
  <1>2. SP!IInv'
    BY <1>1, SP!NextIInv, LinkedAssumption DEF LInv, Tid, SP!Tid
  <1> QED BY <1>1, <1>2 DEF LInv

(* The invariant holds, for any number of threads and wait queues. *)
LEMMA LinkedInvariance == LinkedSpec => []LInv
  <1>1. LinkedInit => LInv
    BY InitLInv
  <1>2. LInv /\ [LinkedNext]_vars => LInv'
    BY NextLInv
  <1> QED BY <1>1, <1>2, PTL DEF LinkedSpec

(* The types of the fields of the lists, and of the mask. *)
THEOREM LinkedTypeCorrectness == LinkedSpec => []LinkedTypeOK
  <1>1. LInv => LinkedTypeOK
    BY DEF LInv, Shape
  <1> QED BY <1>1, LinkedInvariance, PTL

(* The size that thread_wakeup returns counts the threads in the list. *)
THEOREM SizesAreKept == LinkedSpec => []WaitSizesAreLengths
  <1>1. LInv => WaitSizesAreLengths
    BY DEF LInv, Shape
  <1> QED BY <1>1, LinkedInvariance, PTL

(* The hand-spliced lists of threads/thread.c are the queues of ThreadSched: *)
(* whatever is proved of these holds of the lists.                           *)
THEOREM ListsImplementQueues == LinkedSpec => ImplementsSched
  <1>1. LinkedInit => Sched!Init
    BY InitLInv, SameSched
  <1>2. ASSUME LInv, [LinkedNext]_vars PROVE [Sched!Next]_Sched!vars
    <2>1. [SP!Next]_SP!vars
      BY <1>2, NextLInv
    <2>2. CASE SP!Next
      BY <2>2, SameSched
    <2>3. CASE UNCHANGED SP!vars
      BY <2>3 DEF SP!vars, Sched!vars
    <2> QED BY <2>1, <2>2, <2>3
  <1> QED BY <1>1, <1>2, LinkedInvariance, PTL DEF LinkedSpec, ImplementsSched, Sched!Spec

-----------------------------------------------------------------------------

(* No pointer leads to a freed thread: the lists hold threads that exist     *)
(* only, and none leads out of its list.                                     *)
THEOREM PointersAreValid == LinkedSpec => []NoDanglingPointers
  <1>1. ASSUME LInv PROVE NoDanglingPointers
    <2> SUFFICES ASSUME Up PROVE
                   ({readyhead, killhead} \cup Range(head) \cup leaked
                      \cup {next[t] : t \in exists}) \ {NULL} \subseteq exists
      BY DEF NoDanglingPointers
    <2>1. exists = {current} \cup Range(Ready) \cup Range(Zombies) \cup Asleep \cup Stranded
      BY <1>1, Apart
    <2>2. /\ IsList(next, readyhead, Ready) /\ IsList(next, killhead, Zombies)
          /\ \A q \in WaitQueues : IsList(next, head[q], Sleepers(q))
          /\ \A h \in leaked : IsList(next, h, Chain(next, h))
      BY <1>1, Lists, ChainIsList DEF LInv
    <2>3. ASSUME NEW h, NEW s, IsList(next, h, s), h # NULL PROVE h \in Range(s)
      <3>1. s \in Seq(Tid) /\ s # <<>> /\ h = s[1]
        BY <2>3 DEF IsList
      <3>2. 1 \in DOMAIN s
        BY <3>1, LenProperties, EmptySeq
      <3> QED BY <3>1, <3>2 DEF Range
    <2>4. \A p \in {readyhead, killhead} \ {NULL} : p \in exists
      BY <2>1, <2>2, <2>3
    <2>5. ASSUME NEW p \in Range(head), p # NULL PROVE p \in exists
      <3>1. PICK q \in WaitQueues : p = head[q]
        BY <1>1 DEF LInv, Shape, LinkedTypeOK, Range
      <3>2. p \in Range(Sleepers(q))
        BY <2>2, <2>3, <2>5, <3>1
      <3> QED BY <2>1, <3>2 DEF Asleep
    <2>6. ASSUME NEW p \in leaked PROVE p \in exists
      <3>1. p # NULL
        BY <1>1, Pointers DEF LInv, Shape, LinkedTypeOK
      <3>2. p \in Range(Chain(next, p))
        BY <2>2, <2>3, <3>1
      <3> QED BY <2>1, <3>2 DEF Stranded
    <2>7. ASSUME NEW t \in exists, next[t] # NULL PROVE next[t] \in exists
      <3>1. t # current
        BY <1>1, <2>7, ReadyQueue
      <3>2. CASE t \in Range(Ready)
        BY <2>1, <2>2, <2>7, <3>2, ListClosed
      <3>3. CASE t \in Range(Zombies)
        BY <2>1, <2>2, <2>7, <3>3, ListClosed
      <3>4. CASE t \in Asleep
        <4>1. PICK q \in WaitQueues : t \in Range(Sleepers(q))
          BY <3>4 DEF Asleep
        <4>2. next[t] \in Range(Sleepers(q))
          BY <2>2, <2>7, <4>1, ListClosed
        <4> QED BY <2>1, <4>2 DEF Asleep
      <3>5. CASE t \in Stranded
        <4>1. PICK h \in leaked : t \in Range(Chain(next, h))
          BY <3>5 DEF Stranded
        <4>2. next[t] \in Range(Chain(next, h))
          BY <2>2, <2>7, <4>1, ListClosed
        <4> QED BY <2>1, <4>2 DEF Stranded
      <3> QED BY <2>1, <3>1, <3>2, <3>3, <3>4, <3>5
    <2> QED BY <2>4, <2>5, <2>6, <2>7
  <1> QED BY <1>1, LinkedInvariance, PTL

-----------------------------------------------------------------------------
(* The signal mask.  A thread that gave up the processor has saved whether   *)
(* it had SIGALRM enabled where it will look for it, a new one enables it,   *)
(* and no other thread goes on in its own code without either.               *)
Switched == {"any", "tid", "sleep", "wait"}

MaskInv ==
  /\ MaskIsKept
  /\ Up => /\ \A t \in exists : ctx[t] \in Switched => enabled[t] = ~wants[t]
           /\ \A t \in exists : ctx[t] = "stub" => wants[t] = FALSE
           /\ \A t \in exists \ {current} : ctx[t] # "run"

(* The current thread and those in the ready queue are different and exist. *)
LEMMA OthersInLists ==
  ASSUME LInv, Up
  PROVE  current \in exists /\ Range(Ready) \subseteq exists \ {current}
  BY Apart

(* The part of it that is needed after a step. *)
LEMMA CurrentExists == LInv /\ Up => current \in exists
  BY OthersInLists

(* The head of the ready queue is in it. *)
LEMMA HeadIsReady ==
  ASSUME LInv, Up, readyhead # NULL
  PROVE  readyhead \in Range(Ready)
  <1>1. IsList(next, readyhead, Ready) /\ Ready # <<>> /\ Ready \in Seq(Tid)
    BY Lists, ReadyQueue DEF LInv
  <1>2. readyhead = Ready[1] /\ 1 \in DOMAIN Ready
    BY <1>1, LenProperties, EmptySeq DEF IsList
  <1> QED BY <1>2 DEF Range

(* The types of what the invariant of the mask is about. *)
LEMMA MaskFields ==
  ASSUME LInv
  PROVE  /\ current \in Tid /\ exists \subseteq Tid /\ DOMAIN ctx = Tid
         /\ masked \in BOOLEAN /\ \A t \in Tid : enabled[t] \in BOOLEAN /\ wants[t] \in BOOLEAN
         /\ ctx \in [Tid -> Sched!Ctx] /\ enabled \in [Tid -> BOOLEAN] /\ wants \in [Tid -> BOOLEAN]
  BY DEF LInv, Shape, LinkedTypeOK

(* Another thread takes over from one in its own code. *)
LEMMA SuspendMask ==
  ASSUME LInv, MaskInv, InUser, NEW saved \in Switched, Suspend(saved),
         current' \in exists \ {current}, exists' \subseteq exists, status' = status
  PROVE  MaskInv'
  <1>1. Up /\ Up'
    BY DEF Up, InUser
  <1>2. masked = wants[current] /\ current \in exists /\ current \in Tid
    BY <1>1, OthersInLists, MaskFields DEF MaskInv, MaskIsKept
  <1>3. /\ ctx'[current] = saved /\ enabled'[current] = ~masked /\ wants' = wants
        /\ \A t \in exists \ {current} : ctx'[t] = ctx[t] /\ enabled'[t] = enabled[t]
    BY <1>2, MaskFields DEF Suspend
  <1>4. saved # "run" /\ saved # "stub"
    BY DEF Switched
  <1>5. ~ InUser'
    BY <1>1, <1>3 DEF InUser, MaskInv
  <1>6. \A t \in exists' : ctx'[t] \in Switched => enabled'[t] = ~wants'[t]
    <2> SUFFICES ASSUME NEW t \in exists', ctx'[t] \in Switched PROVE enabled'[t] = ~wants'[t]
      OBVIOUS
    <2>1. CASE t = current
      BY <1>2, <1>3, <2>1
    <2>2. CASE t # current
      BY <1>1, <1>3, <2>2 DEF MaskInv
    <2> QED BY <2>1, <2>2
  <1>7. \A t \in exists' : ctx'[t] = "stub" => wants'[t] = FALSE
    BY <1>1, <1>3, <1>4 DEF MaskInv
  <1>8. \A t \in exists' \ {current'} : ctx'[t] # "run"
    BY <1>1, <1>3, <1>4 DEF MaskInv
  <1> QED BY <1>5, <1>6, <1>7, <1>8 DEF MaskInv, MaskIsKept

(* A call returns. *)
LEMMA RestoreMask ==
  ASSUME LInv, MaskInv, Up, ctx[current] \in Switched, Restore,
         current' = current, exists' \subseteq exists, status' = status
  PROVE  MaskInv'
  <1>1. current \in exists /\ current \in Tid /\ enabled[current] = ~wants[current]
    BY OthersInLists, MaskFields DEF MaskInv
  <1>2. /\ ctx'[current] = "run" /\ masked' = ~enabled[current] /\ wants' = wants
        /\ \A t \in exists \ {current} : ctx'[t] = ctx[t] /\ enabled'[t] = enabled[t]
    BY <1>1, MaskFields DEF Restore
  <1>3. masked' = wants'[current']
    <2>1. wants[current] \in BOOLEAN
      BY <1>1, MaskFields
    <2> QED BY <1>1, <1>2, <2>1
  <1>4. ctx'[current] \notin Switched /\ ctx'[current] # "stub"
    BY <1>2 DEF Switched
  <1>5. \A t \in exists' : ctx'[t] \in Switched => enabled'[t] = ~wants'[t]
    BY <1>2, <1>4 DEF MaskInv
  <1>6. \A t \in exists' : ctx'[t] = "stub" => wants'[t] = FALSE
    BY <1>2, <1>4 DEF MaskInv
  <1>7. \A t \in exists' \ {current'} : ctx'[t] # "run"
    BY <1>2 DEF MaskInv
  <1> QED BY <1>3, <1>5, <1>6, <1>7 DEF MaskInv, MaskIsKept

(* Nothing about threads changes but that some are freed. *)
LEMMA SameMask ==
  ASSUME MaskInv, UNCHANGED <<current, ctx, mask>>, exists' \subseteq exists,
         Up' => status' = status
  PROVE  MaskInv'
  <1>1. masked' = masked /\ enabled' = enabled /\ wants' = wants
    BY DEF mask
  <1>2. MaskIsKept'
    BY <1>1 DEF MaskInv, MaskIsKept, InUser, Up
  <1> QED BY <1>1, <1>2 DEF MaskInv, Up

(* SIGALRM is not blocked initially. *)
LEMMA InitMask == LinkedInit => MaskInv
  <1> SUFFICES ASSUME LinkedInit PROVE MaskInv
    OBVIOUS
  <1>1. /\ 0 \in Tid /\ current = 0 /\ exists = {0} /\ masked = FALSE
        /\ wants[0] = FALSE /\ ctx[0] = "run"
    BY Pointers DEF LinkedInit
  <1> QED BY <1>1 DEF MaskInv, MaskIsKept, Switched

(* yield hands over to a ready thread, or nothing changes. *)
LEMMA YieldMask ==
  ASSUME LInv, MaskInv, NEW want, ThreadYield(want)
  PROVE  MaskInv'
  <1>1. InUser /\ Up /\ exists' \subseteq exists
    BY DEF ThreadYield, KillExitThreads, InUser, Up
  <1>2. "any" \in Switched /\ "tid" \in Switched
    BY DEF Switched
  <1>3. ASSUME UNCHANGED <<current, ctx, mask>>, Up' => status' = status PROVE MaskInv'
    BY <1>1, <1>3, SameMask
  <1>4. CASE YieldAlone(want)
    BY <1>3, <1>4 DEF YieldAlone
  <1>5. CASE YieldAny(want)
    <2>1. readyhead \in Range(Ready)
      BY <1>1, <1>5, HeadIsReady DEF YieldAny
    <2>2. current' = readyhead /\ Suspend("any") /\ status' = status
      BY <1>5 DEF YieldAny, SwitchTo
    <2>3. current' \in exists \ {current}
      BY <1>1, <2>1, <2>2, OthersInLists
    <2> QED BY <1>1, <1>2, <2>2, <2>3, SuspendMask
  <1>6. CASE YieldSelf(want)
    BY <1>3, <1>6 DEF YieldSelf
  <1>7. CASE YieldTo(want)
    <2>1. current' = want /\ want \in Range(Ready) /\ Suspend("tid") /\ status' = status
      BY <1>7 DEF YieldTo, SwitchTo
    <2>2. current' \in exists \ {current}
      BY <1>1, <2>1, OthersInLists
    <2> QED BY <1>1, <1>2, <2>1, <2>2, SuspendMask
  <1>8. CASE YieldAbsent(want)
    <2>1. UNCHANGED <<current, ctx, mask>> /\ (Up' => status' = status)
      BY <1>1, <1>8 DEF YieldAbsent, Up
    <2> QED BY <1>3, <2>1
  <1> QED BY <1>4, <1>5, <1>6, <1>7, <1>8 DEF ThreadYield

(* The same for the calls that put the thread into a wait queue. *)
LEMMA SleepMask ==
  ASSUME LInv, MaskInv, InUser, NEW q, NEW saved \in Switched, GoToSleep(q, saved)
  PROVE  MaskInv'
  <1>1. Up
    BY DEF InUser, Up
  <1>2. readyhead \in Range(Ready)
    BY <1>1, HeadIsReady DEF GoToSleep
  <1>3. current' = readyhead /\ Suspend(saved) /\ exists' = exists /\ status' = status
    BY DEF GoToSleep
  <1>4. current' \in exists \ {current}
    BY <1>1, <1>2, <1>3, OthersInLists
  <1> QED BY <1>3, <1>4, SuspendMask

(* An exit; the thread that takes over was not in its own code. *)
LEMMA ExitMask ==
  ASSUME LInv, LInv', MaskInv, ThreadExit
  PROVE  MaskInv'
  <1>1. Up
    BY DEF ThreadExit, Up
  <1>2. CASE ExitProcess(ReadyAtExit)
    <2>1. ~ Up' /\ ~ InUser'
      BY <1>2 DEF ExitProcess, Up, InUser
    <2> QED BY <2>1 DEF MaskInv, MaskIsKept
  <1>3. CASE ExitToNext(ReadyAtExit)
    <2>1. /\ exists' \subseteq exists /\ ctx' = [ctx EXCEPT ![current] = "exit"]
          /\ status' = status /\ enabled' = enabled /\ wants' = wants
      BY <1>3 DEF ExitToNext
    <2>2. current' \in exists'
      <3>1. Up'
        BY <1>1, <2>1 DEF Up
      <3>2. (LInv /\ Up => current \in exists)'
        BY CurrentExists, PTL
      <3> QED BY <3>1, <3>2
    <2>3. \A t \in exists : ctx'[t] = IF t = current THEN "exit" ELSE ctx[t]
      BY <2>1, MaskFields
    <2>4. ctx'[current'] # "run"
      BY <1>1, <2>1, <2>2, <2>3 DEF MaskInv
    <2>5. \A t \in exists' \ {current'} : ctx'[t] # "run"
      BY <1>1, <2>1, <2>3 DEF MaskInv
    <2>6. "exit" \notin Switched
      BY DEF Switched
    <2>7. \A t \in exists' : ctx'[t] \in Switched => enabled'[t] = ~wants'[t]
      BY <1>1, <2>1, <2>3, <2>6 DEF MaskInv
    <2>8. \A t \in exists' : ctx'[t] = "stub" => wants'[t] = FALSE
      BY <1>1, <2>1, <2>3 DEF MaskInv
    <2> QED BY <2>4, <2>5, <2>7, <2>8 DEF MaskInv, MaskIsKept, InUser
  <1> QED BY <1>2, <1>3 DEF ThreadExit

(* thread_create: a new thread has asked for nothing. *)
LEMMA CreateMask ==
  ASSUME LInv, MaskInv, ThreadCreate
  PROVE  MaskInv'
  <1>1. Up /\ InUser
    BY DEF ThreadCreate, InUser, Up
  <1>2. PICK id \in Tid \ exists :
          /\ exists' = exists \cup {id} /\ ctx' = [ctx EXCEPT ![id] = "stub"]
          /\ wants' = [wants EXCEPT ![id] = FALSE]
    BY DEF ThreadCreate
  <1>3. current' = current /\ status' = status /\ masked' = masked /\ enabled' = enabled
    BY DEF ThreadCreate
  <1>4. current \in exists
    BY <1>1, OthersInLists
  <1>5. /\ ctx'[id] = "stub" /\ wants'[id] = FALSE
        /\ \A t \in exists : ctx'[t] = ctx[t] /\ wants'[t] = wants[t]
    BY <1>2, MaskFields
  <1>6. MaskIsKept'
    BY <1>1, <1>3, <1>4, <1>5 DEF MaskInv, MaskIsKept, InUser
  <1>7. "stub" \notin Switched
    BY DEF Switched
  <1>8. \A t \in exists' : ctx'[t] \in Switched => enabled'[t] = ~wants'[t]
    BY <1>1, <1>2, <1>3, <1>5, <1>7 DEF MaskInv
  <1>9. \A t \in exists' : ctx'[t] = "stub" => wants'[t] = FALSE
    BY <1>1, <1>2, <1>5 DEF MaskInv
  <1>10. \A t \in exists' \ {current'} : ctx'[t] # "run"
    BY <1>1, <1>2, <1>3, <1>5 DEF MaskInv
  <1> QED BY <1>6, <1>8, <1>9, <1>10 DEF MaskInv

(* The actions in which no thread takes over and no call returns. *)
LEMMA OwnMask ==
  ASSUME LInv, MaskInv, SetMask \/ ThreadStub \/ \E tid \in Tid : ThreadKill(tid)
  PROVE  MaskInv'
  <1>1. Up /\ Up' /\ exists' = exists /\ current' = current /\ status' = status
    BY DEF SetMask, ThreadStub, ThreadKill, InUser, Up
  <1>2. current \in exists /\ current \in Tid
    BY <1>1, OthersInLists, MaskFields
  <1>3. CASE SetMask
    <2>1. PICK off \in BOOLEAN : masked' = off /\ wants' = [wants EXCEPT ![current] = off]
      BY <1>3 DEF SetMask
    <2>2. ctx[current] = "run" /\ ctx' = ctx /\ enabled' = enabled
      BY <1>3 DEF SetMask, InUser
    <2>3. masked' = wants'[current] /\ \A t \in exists \ {current} : wants'[t] = wants[t]
      BY <1>2, <2>1, MaskFields
    <2>4. "run" \notin Switched
      BY DEF Switched
    <2>5. \A t \in exists : ctx[t] \in Switched => enabled[t] = ~wants'[t]
      BY <1>1, <2>2, <2>3, <2>4 DEF MaskInv
    <2>6. \A t \in exists : ctx[t] = "stub" => wants'[t] = FALSE
      BY <1>1, <2>2, <2>3 DEF MaskInv
    <2> QED BY <1>1, <2>2, <2>3, <2>5, <2>6 DEF MaskInv, MaskIsKept
  <1>4. CASE ThreadStub
    <2>1. /\ ctx' = [ctx EXCEPT ![current] = "run"] /\ masked' = FALSE
          /\ enabled' = enabled /\ wants' = wants /\ ctx[current] = "stub"
      BY <1>4 DEF ThreadStub
    <2>2. wants[current] = FALSE
      BY <1>1, <1>2, <2>1 DEF MaskInv
    <2>3. \A t \in exists : ctx'[t] = IF t = current THEN "run" ELSE ctx[t]
      BY <2>1, MaskFields
    <2>4. "run" \notin Switched
      BY DEF Switched
    <2>5. \A t \in exists : ctx'[t] \in Switched => enabled[t] = ~wants[t]
      BY <1>1, <2>3, <2>4 DEF MaskInv
    <2>6. \A t \in exists : ctx'[t] = "stub" => wants[t] = FALSE
      BY <1>1, <2>3 DEF MaskInv
    <2>7. \A t \in exists \ {current} : ctx'[t] # "run"
      BY <1>1, <2>3 DEF MaskInv
    <2> QED BY <1>1, <2>1, <2>2, <2>5, <2>6, <2>7 DEF MaskInv, MaskIsKept
  <1>5. ASSUME NEW tid \in Tid, ThreadKill(tid) PROVE MaskInv'
    <2>1. /\ tid # current /\ tid \in exists /\ ctx' = [ctx EXCEPT ![tid] = "exit"]
          /\ masked' = masked /\ enabled' = enabled /\ wants' = wants
      BY <1>5 DEF ThreadKill, mask
    <2>2. \A t \in exists : ctx'[t] = IF t = tid THEN "exit" ELSE ctx[t]
      BY <2>1, MaskFields
    <2>3. "exit" \notin Switched
      BY DEF Switched
    <2>4. ctx'[current] = ctx[current]
      BY <1>2, <2>1, <2>2
    <2>5. MaskIsKept'
      BY <1>1, <2>1, <2>4 DEF MaskInv, MaskIsKept, InUser
    <2>6. \A t \in exists : ctx'[t] \in Switched => enabled[t] = ~wants[t]
      BY <1>1, <2>2, <2>3 DEF MaskInv
    <2>7. \A t \in exists : ctx'[t] = "stub" => wants[t] = FALSE
      BY <1>1, <2>2 DEF MaskInv
    <2>8. \A t \in exists \ {current} : ctx'[t] # "run"
      BY <1>1, <2>2 DEF MaskInv
    <2> QED BY <1>1, <2>1, <2>5, <2>6, <2>7, <2>8 DEF MaskInv
  <1> QED BY <1>3, <1>4, <1>5

(* Every step keeps the invariant of the mask. *)
LEMMA NextMask ==
  ASSUME LInv, LInv', MaskInv, [LinkedNext]_vars
  PROVE  MaskInv'
  <1>1. CASE SetMask \/ ThreadStub
    BY <1>1, OwnMask
  <1>2. CASE ThreadCreate
    BY <1>2, CreateMask
  <1>3. CASE InterruptHandler
    BY <1>3, YieldMask DEF InterruptHandler
  <1>4. ASSUME NEW want, ThreadYield(want) PROVE MaskInv'
    BY <1>4, YieldMask
  <1>5. ASSUME NEW q \in Queues, ThreadSleep(q) PROVE MaskInv'
    <2>1. "sleep" \in Switched
      BY DEF Switched
    <2> QED BY <1>5, <2>1, SleepMask DEF ThreadSleep
  <1>6. ASSUME NEW q \in Queues, NEW all \in BOOLEAN, ThreadWakeup(q, all) PROVE MaskInv'
    <2>1. UNCHANGED <<current, ctx, mask>> /\ exists' = exists /\ status' = status
      BY <1>6 DEF ThreadWakeup
    <2> QED BY <2>1, SameMask
  <1>7. ASSUME NEW tid \in Tid, ThreadWait(tid) PROVE MaskInv'
    <2>1. CASE GoToSleep(tid, "wait")
      <3>1. "wait" \in Switched /\ InUser
        BY <1>7 DEF Switched, ThreadWait
      <3> QED BY <2>1, <3>1, SleepMask
    <2>2. CASE ~ GoToSleep(tid, "wait")
      <3>1. UNCHANGED <<current, ctx, mask>> /\ exists' \subseteq exists /\ status' = status
        BY <1>7, <2>2 DEF ThreadWait, KillExitThreads
      <3> QED BY <3>1, SameMask
    <2> QED BY <2>1, <2>2
  <1>8. ASSUME NEW tid \in Tid, ThreadKill(tid) PROVE MaskInv'
    BY <1>8, OwnMask
  <1>9. CASE ThreadExit
    BY <1>9, ExitMask
  <1>10. CASE BeyondTable
    <2>1. ~ Up' /\ ~ InUser'
      BY <1>10 DEF BeyondTable, Up, InUser
    <2> QED BY <2>1 DEF MaskInv, MaskIsKept
  <1>11. CASE ResumeYield
    <2>1. Up /\ ctx[current] \in Switched /\ exists' = exists /\ current' = current
      BY <1>11 DEF ResumeYield, Up, Switched
    <2>2. CASE setcontext_called = 1
      BY <1>11, <2>1, <2>2, RestoreMask DEF ResumeYield
    <2>3. CASE setcontext_called # 1
      <3>1. ~ Up' /\ ~ InUser'
        BY <1>11, <2>3 DEF ResumeYield, Up, InUser
      <3> QED BY <3>1 DEF MaskInv, MaskIsKept
    <2> QED BY <2>2, <2>3
  <1>12. CASE ResumeSleep
    <2>1. /\ Up /\ ctx[current] \in Switched /\ exists' = exists /\ current' = current
          /\ Restore /\ status' = status
      BY <1>12 DEF ResumeSleep, Up, Switched
    <2> QED BY <2>1, RestoreMask
  <1>13. CASE ResumeWait
    <2>1. /\ Up /\ ctx[current] \in Switched /\ exists' \subseteq exists /\ current' = current
          /\ Restore /\ status' = status
      BY <1>13 DEF ResumeWait, KillExitThreads, Up, Switched
    <2> QED BY <2>1, RestoreMask
  <1>14. CASE UNCHANGED vars
    <2>1. UNCHANGED <<current, ctx, mask>> /\ exists' = exists /\ status' = status
      BY <1>14 DEF vars
    <2> QED BY <2>1, SameMask
  <1> QED BY <1>1, <1>2, <1>3, <1>4, <1>5, <1>6, <1>7, <1>8, <1>9, <1>10, <1>11,
             <1>12, <1>13, <1>14 DEF LinkedNext, Ended

(* A call returns with the signal mask it was called with, whatever ran in   *)
(* between.                                                                  *)
THEOREM MaskSurvivesCalls == LinkedSpec => []MaskIsKept
  <1>1. LinkedInit => MaskInv
    BY InitMask
  <1>2. LInv /\ LInv' /\ MaskInv /\ [LinkedNext]_vars => MaskInv'
    BY NextMask
  <1>3. MaskInv => MaskIsKept
    BY DEF MaskInv
  <1> QED BY <1>1, <1>2, <1>3, LinkedInvariance, PTL DEF LinkedSpec

=============================================================================
