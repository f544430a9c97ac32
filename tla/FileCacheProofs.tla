-------------------------- MODULE FileCacheProofs ---------------------------
(***************************************************************************)
(* The file cache, for any number of workers, files, slots and requests and *)
(* whatever slots hash_key returns: the counts of users are exact, nothing   *)
(* in use is freed, every cached file can be evicted, and current_cache is   *)
(* what the file data takes.                                                *)
(***************************************************************************)
EXTENDS FileCache, QueueLemmas

-----------------------------------------------------------------------------
(* The memory that file data takes, in the terms of a step. *)

Data == [key : File, using : Nat, hash_num : Slot]

(* sum[n] is the memory that the first n elements of m take.                *)
AddsUp(sum, m, gone) ==
  /\ sum \in [0 .. Len(m) -> Nat]
  /\ sum[0] = 0
  /\ \A n \in 1 .. Len(m) :
       sum[n] = sum[n - 1] + (IF n \in gone THEN 0 ELSE SizeOf[m[n].key])

(* The elements m without those in gone take c. *)
Takes(m, gone, c) ==
  \E sum \in [0 .. Len(m) -> Nat] : AddsUp(sum, m, gone) /\ sum[Len(m)] = c

LEMMA SizesAreNat ==
  ASSUME NEW m \in Seq(Data)
  PROVE  /\ Len(m) \in Nat /\ DOMAIN m = 1 .. Len(m)
         /\ \A n \in 1 .. Len(m) : m[n] \in Data /\ SizeOf[m[n].key] \in Nat
  <1>1. Len(m) \in Nat /\ m \in [1 .. Len(m) -> Data]
    BY LenProperties
  <1> QED BY <1>1, CacheAssumption DEF Data

(* No file has been read: nothing is taken. *)
LEMMA TakesNothing == Takes(<<>>, {}, 0)
  <1> DEFINE sum == [n \in 0 .. Len(<<>>) |-> 0]
  <1>1. Len(<<>>) = 0
    BY EmptySeq
  <1>2. AddsUp(sum, <<>>, {}) /\ sum[Len(<<>>)] = 0
    BY <1>1 DEF AddsUp
  <1> QED BY <1>2 DEF Takes, AddsUp

(* One more element adds its size. *)
LEMMA TakesOneMore ==
  ASSUME NEW m \in Seq(Data), NEW gone \in SUBSET DOMAIN m, NEW c,
         Takes(m, gone, c), NEW d \in Data
  PROVE  Takes(Append(m, d), gone, c + SizeOf[d.key])
  <1> DEFINE k == Len(m)
             a == Append(m, d)
  <1>1. /\ k \in Nat /\ DOMAIN m = 1 .. k
        /\ Len(a) = k + 1 /\ a[k + 1] = d /\ \A n \in 1 .. k : a[n] = m[n]
        /\ SizeOf[d.key] \in Nat
    BY SizesAreNat, AppendProperties, CacheAssumption DEF Data
  <1>2. PICK sum \in [0 .. k -> Nat] :
          /\ sum[0] = 0 /\ sum[k] = c
          /\ \A n \in 1 .. k :
               sum[n] = sum[n - 1] + (IF n \in gone THEN 0 ELSE SizeOf[m[n].key])
    BY DEF Takes, AddsUp
  <1> DEFINE more == [n \in 0 .. k + 1 |->
                        IF n = k + 1 THEN c + SizeOf[d.key] ELSE sum[n]]
  <1> HIDE DEF k, a
  <1>3. more \in [0 .. k + 1 -> Nat] /\ more[0] = 0
    BY <1>1, <1>2
  <1>4. ASSUME NEW n \in 1 .. k + 1
        PROVE  more[n] = more[n - 1] + (IF n \in gone THEN 0 ELSE SizeOf[a[n].key])
    <2>1. CASE n = k + 1
      <3>1. n \notin gone /\ n - 1 = k /\ k \in 0 .. k + 1 /\ k # k + 1
        BY <1>1, <2>1
      <3>2. more[n - 1] = c /\ more[n] = c + SizeOf[a[n].key]
        BY <1>1, <1>2, <2>1, <3>1
      <3> QED BY <3>1, <3>2
    <2>2. CASE n # k + 1
      <3>1. n \in 1 .. k /\ n - 1 \in 0 .. k + 1 /\ n - 1 # k + 1
        BY <1>1, <2>2
      <3>2. more[n] = sum[n] /\ more[n - 1] = sum[n - 1] /\ a[n] = m[n]
        BY <1>1, <2>2, <3>1
      <3> QED BY <1>2, <3>1, <3>2
    <2> QED BY <2>1, <2>2
  <1>5. more[k + 1] = c + SizeOf[d.key]
    BY <1>1
  <1> HIDE DEF more
  <1>6. more \in [0 .. Len(a) -> Nat]
    BY <1>1, <1>3
  <1>7. AddsUp(more, a, gone)
    BY <1>1, <1>3, <1>4 DEF AddsUp
  <1>8. more[Len(a)] = c + SizeOf[d.key]
    BY <1>1, <1>5
  <1> QED BY <1>6, <1>7, <1>8 DEF Takes, a

(* Partial sums grow. *)
LEMMA SumsGrow ==
  ASSUME NEW m \in Seq(Data), NEW gone, NEW sum, AddsUp(sum, m, gone),
         NEW e \in 0 .. Len(m)
  PROVE  \A n \in e .. Len(m) : sum[e] <= sum[n]
  <1> DEFINE k == Len(m)
             T == {i \in Nat : e + i <= k => sum[e] <= sum[e + i]}
  <1>1. /\ k \in Nat /\ e \in 0 .. k /\ sum \in [0 .. k -> Nat]
        /\ \A n \in 1 .. k : SizeOf[m[n].key] \in Nat
        /\ \A n \in 1 .. k :
             sum[n] = sum[n - 1] + (IF n \in gone THEN 0 ELSE SizeOf[m[n].key])
    BY SizesAreNat DEF AddsUp
  <1> HIDE DEF k
  <1>2. 0 \in T
    BY <1>1
  <1>3. ASSUME NEW i \in T \cap Nat PROVE i + 1 \in T
    <2> SUFFICES ASSUME e + (i + 1) <= k PROVE sum[e] <= sum[e + (i + 1)]
      OBVIOUS
    <2>1. e + i <= k /\ sum[e] <= sum[e + i]
      BY <1>1
    <2>2. e + (i + 1) \in 1 .. k /\ e + (i + 1) - 1 = e + i /\ e + i \in 0 .. k
      BY <1>1
    <2>3. sum[e] \in Nat /\ sum[e + i] \in Nat /\ sum[e + (i + 1)] \in Nat
      BY <1>1, <2>2
    <2>4. PICK v \in Nat : sum[e + (i + 1)] = sum[e + i] + v
      <3> DEFINE n == e + (i + 1)
                 v == IF n \in gone THEN 0 ELSE SizeOf[m[n].key]
      <3>1. v \in Nat
        BY <1>1, <2>2
      <3>2. sum[n] = sum[n - 1] + v /\ n - 1 = e + i
        BY <1>1, <2>2
      <3>3. sum[n] = sum[e + i] + v
        BY <3>2
      <3> HIDE DEF v
      <3> QED BY <3>1, <3>3
    <2>5. sum[e + i] <= sum[e + (i + 1)]
      <3> HIDE DEF T
      <3> QED BY <2>3, <2>4
    <2> QED BY <2>1, <2>3, <2>5
  <1> HIDE DEF T
  <1>4. Nat \subseteq T
    BY <1>2, <1>3, SetInduction
  <1>5. ASSUME NEW n \in e .. k PROVE sum[e] <= sum[n]
    <2>1. n - e \in T /\ e + (n - e) = n /\ n <= k
      BY <1>1, <1>4
    <2> QED BY <2>1 DEF T
  <1> QED BY <1>5 DEF k

(* Freeing an element that has not been freed gives its size back.          *)
LEMMA TakesOneLess ==
  ASSUME NEW m \in Seq(Data), NEW gone, NEW c, Takes(m, gone, c),
         NEW e \in DOMAIN m, e \notin gone
  PROVE  /\ c \in Nat /\ SizeOf[m[e].key] <= c
         /\ Takes(m, gone \cup {e}, c - SizeOf[m[e].key])
  <1> DEFINE k == Len(m)
             size == SizeOf[m[e].key]
  <1>1. /\ k \in Nat /\ DOMAIN m = 1 .. k /\ e \in 1 .. k
        /\ \A n \in 1 .. k : SizeOf[m[n].key] \in Nat
    BY SizesAreNat
  <1>2. PICK sum \in [0 .. k -> Nat] : AddsUp(sum, m, gone) /\ sum[k] = c
    BY DEF Takes
  <1>3. /\ sum[0] = 0
        /\ \A n \in 1 .. k :
             sum[n] = sum[n - 1] + (IF n \in gone THEN 0 ELSE SizeOf[m[n].key])
    BY <1>2 DEF AddsUp
  <1>4. \A n \in e .. k : sum[e] <= sum[n]
    BY <1>1, <1>2, SumsGrow
  <1> HIDE DEF k
  <1>5. size \in Nat /\ sum[e] = sum[e - 1] + size /\ e - 1 \in 0 .. k
    BY <1>1, <1>3
  <1>6. \A n \in e .. k : size <= sum[n]
    BY <1>1, <1>2, <1>4, <1>5
  <1> DEFINE less == [n \in 0 .. k |-> IF n < e THEN sum[n] ELSE sum[n] - size]
  <1> HIDE DEF size
  <1>7. less \in [0 .. k -> Nat] /\ less[0] = 0
    <2>1. ASSUME NEW n \in 0 .. k PROVE less[n] \in Nat
      <3>1. CASE n < e
        BY <1>2, <3>1
      <3>2. CASE ~ (n < e)
        <4>1. n \in e .. k /\ sum[n] \in Nat
          BY <1>1, <1>2, <3>2
        <4>2. size <= sum[n] /\ less[n] = sum[n] - size
          BY <1>6, <3>2, <4>1
        <4> QED BY <1>5, <4>1, <4>2
      <3> QED BY <3>1, <3>2
    <2> QED BY <1>1, <1>3, <2>1
  <1>8. ASSUME NEW n \in 1 .. k
        PROVE  less[n] = less[n - 1] + (IF n \in gone \cup {e} THEN 0
                                        ELSE SizeOf[m[n].key])
    <2>1. /\ n - 1 \in 0 .. k /\ n \in 0 .. k /\ sum[n] \in Nat /\ sum[n - 1] \in Nat
          /\ SizeOf[m[n].key] \in Nat /\ n \in Int /\ e \in Int
          /\ sum[n] = sum[n - 1] + (IF n \in gone THEN 0 ELSE SizeOf[m[n].key])
      BY <1>1, <1>2, <1>3
    <2>2. CASE n < e
      BY <2>1, <2>2
    <2>3. CASE n = e
      BY <1>5, <2>1, <2>3
    <2>4. CASE n > e
      BY SMTT(30), <1>5, <2>1, <2>4
    <2> QED BY <2>1, <2>2, <2>3, <2>4
  <1>9. less[k] = c - size /\ c \in Nat /\ size <= c
    BY <1>1, <1>2, <1>6
  <1>10. AddsUp(less, m, gone \cup {e})
    BY <1>7, <1>8 DEF AddsUp, k
  <1> QED BY <1>7, <1>9, <1>10 DEF Takes, k, size

(* The users of an element do not count. *)
LEMMA TakesAsBefore ==
  ASSUME NEW m, NEW n, NEW gone, NEW c, Takes(m, gone, c),
         Len(n) = Len(m), \A i \in 1 .. Len(m) : n[i].key = m[i].key
  PROVE  Takes(n, gone, c)
  BY DEF Takes, AddsUp

(* What Takes says is what Allocated computes. *)
LEMMA TakesIsAllocated ==
  ASSUME made \in Seq(Data), Takes(made, freed, current_cache)
  PROVE  current_cache = Allocated[Len(made)]
  <1> DEFINE k == Len(made)
             Step(f, n) == IF n = 0 THEN 0
                           ELSE f[n - 1] + (IF n \in freed THEN 0
                                            ELSE SizeOf[made[n].key])
             Solves(f) == f = [n \in 0 .. k |-> Step(f, n)]
  <1>1. k \in Nat
    BY SizesAreNat
  <1>2. PICK sum \in [0 .. k -> Nat] :
          /\ sum[0] = 0 /\ sum[k] = current_cache
          /\ \A n \in 1 .. k :
               sum[n] = sum[n - 1] + (IF n \in freed THEN 0 ELSE SizeOf[made[n].key])
    BY DEF Takes, AddsUp
  <1>3. Allocated = CHOOSE f : Solves(f)
    BY DEF Allocated
  <1> HIDE DEF k
  <1>4. Solves(sum)
    BY <1>1, <1>2
  <1>5. Solves(Allocated)
    <2> HIDE DEF Solves
    <2> QED BY <1>3, <1>4
  <1>6. \A n \in 0 .. k : Allocated[n] = Step(Allocated, n)
    BY <1>5
  <1> DEFINE T == {n \in Nat : n <= k => Allocated[n] = sum[n]}
  <1>7. 0 \in T
    BY <1>1, <1>2, <1>6
  <1>8. ASSUME NEW n \in T \cap Nat PROVE n + 1 \in T
    <2> SUFFICES ASSUME n + 1 <= k PROVE Allocated[n + 1] = sum[n + 1]
      OBVIOUS
    <2>1. /\ n + 1 \in 1 .. k /\ n + 1 \in 0 .. k /\ n + 1 # 0
          /\ n + 1 - 1 = n /\ n <= k
      BY <1>1
    <2>2. Allocated[n] = sum[n]
      BY <2>1
    <2> QED BY <1>2, <1>6, <2>1, <2>2
  <1> HIDE DEF T
  <1>9. k \in T
    BY <1>1, <1>7, <1>8, SetInduction
  <1> QED BY <1>1, <1>2, <1>9 DEF T, k

-----------------------------------------------------------------------------
(* The search in the table. *)

(* The probes of a search come by every slot. *)
LEMMA ProbeArithmetic ==
  ASSUME NEW t \in Nat, NEW h \in 0 .. t - 1, NEW s \in 0 .. t - 1
  PROVE  /\ (h + s) % t \in 0 .. t - 1
         /\ s >= h => (h + (s - h)) % t = s
         /\ s < h => (h + (s - h + t)) % t = s
  OBVIOUS

(* A search in a table with a free slot ends, at a free slot or at an       *)
(* element of the file.                                                     *)
LEMMA ProbeEnds ==
  ASSUME NEW table, NEW h \in Slot, NEW f,
         \E s \in Slot : table[s] = Null
  PROVE  /\ Probe(table, h, f) \in Slot
         /\ LET e == table[Probe(table, h, f)]
            IN  e = Null \/ made[e].key = f
  <1> DEFINE at(i) == (h + i) % TableSize
             ends(i) == table[at(i)] = Null \/ made[table[at(i)]].key = f
             E == {i \in Slot : ends(i)}
             First(i) == ends(i) /\ \A j \in 0 .. i - 1 : ~ends(j)
             i0 == CHOOSE i \in Slot : First(i)
  <1>1. TableSize \in Nat /\ Slot = 0 .. TableSize - 1
    BY CacheAssumption DEF Slot
  <1>2. \A i \in Slot : at(i) \in Slot
    BY <1>1, ProbeArithmetic
  <1>3. E # {}
    <2>1. PICK s \in Slot : table[s] = Null
      OBVIOUS
    <2>2. CASE s >= h
      <3>1. s - h \in Slot /\ at(s - h) = s
        BY <1>1, <2>2, ProbeArithmetic
      <3> QED BY <2>1, <3>1
    <2>3. CASE s < h
      <3>1. s \in 0 .. TableSize - 1 /\ h \in 0 .. TableSize - 1
        BY <1>1
      <3>2. s - h + TableSize \in Slot
        BY <1>1, <2>3, <3>1
      <3>3. at(s - h + TableSize) = s
        BY <1>1, <2>3, <3>1, ProbeArithmetic
      <3> QED BY <2>1, <3>2, <3>3
    <2> QED BY <1>1, <2>2, <2>3
  <1> HIDE DEF at
  <1>4. \E i \in Slot : First(i)
    <2>1. E \subseteq Nat
      BY <1>1
    <2>2. PICK i \in E : \A j \in E : i <= j
      BY <1>3, <2>1, LeastMember
    <2>3. \A j \in 0 .. i - 1 : j \in Slot /\ ~ (i <= j)
      BY <1>1, <2>2
    <2> QED BY <2>2, <2>3
  <1> HIDE DEF ends
  <1>5. i0 \in Slot /\ First(i0)
    BY <1>4
  <1> HIDE DEF i0
  <1>6. Probe(table, h, f) = at(i0)
    BY DEF Probe, at, ends, i0
  <1> QED BY <1>2, <1>5, <1>6 DEF ends

-----------------------------------------------------------------------------
(* The list of the slots. *)

(* dequeue takes one node of the slot, if any: the nodes of others stay.    *)
LEMMA DequeueFacts ==
  ASSUME NEW list \in Seq(Slot), NEW s \in Slot
  PROVE  /\ Dequeue(list, s) \in Seq(Slot)
         /\ Range(list) \ {s} \subseteq Range(Dequeue(list, s))
  <1> DEFINE n == Len(list)
             M == DequeueMatches(list, s)
  <1>1. n \in Nat /\ DOMAIN list = 1 .. n
    BY LenProperties
  <1>2. CASE M = {}
    BY <1>2 DEF Dequeue
  <1>3. CASE M # {}
    <2>1. M \subseteq Nat /\ M \subseteq 1 .. n /\ \A i \in M : list[i] = s
      BY <1>1 DEF DequeueMatches
    <2> HIDE DEF M
    <2>2. Min(M) \in M
      <3>1. \E i \in M : \A j \in M : i <= j
        BY <1>3, <2>1, LeastMember
      <3> QED BY <3>1 DEF Min
    <2> DEFINE i == Min(M)
               t == RemoveAt(list, i)
    <2>3. i \in 1 .. n /\ list[i] = s /\ Dequeue(list, s) = t
      BY <1>3, <2>1, <2>2 DEF Dequeue, M
    <2>4. /\ t \in Seq(Slot) /\ DOMAIN t = 1 .. n - 1
          /\ \A k \in 1 .. n - 1 : t[k] = IF k < i THEN list[k] ELSE list[k + 1]
      BY <1>1, <2>3, RemoveMembers
    <2> HIDE DEF n, i, t
    <2>5. ASSUME NEW k \in 1 .. n, list[k] # s PROVE list[k] \in Range(t)
      <3>1. k # i
        BY <2>3, <2>5
      <3>2. CASE k < i
        <4>1. k \in DOMAIN t /\ t[k] = list[k]
          BY <1>1, <2>3, <2>4, <3>2
        <4> QED BY <4>1 DEF Range
      <3>3. CASE k > i
        <4>1. /\ k - 1 \in 1 .. n - 1 /\ ~ (k - 1 < i) /\ k - 1 + 1 = k
          BY <1>1, <2>3, <3>3
        <4>2. k - 1 \in DOMAIN t /\ t[k - 1] = list[k]
          BY <2>4, <4>1
        <4> QED BY <4>2 DEF Range
      <3> QED BY <1>1, <2>3, <3>1, <3>2, <3>3
    <2>6. Range(list) \ {s} \subseteq Range(t)
      BY <1>1, <2>5 DEF Range
    <2> QED BY <2>3, <2>4, <2>6
  <1> QED BY <1>2, <1>3

(* cache_fix keeps every slot in the list. *)
LEMMA CacheFixFacts ==
  ASSUME NEW list \in Seq(Slot), NEW s \in Slot
  PROVE  /\ CacheFix(list, s) \in Seq(Slot)
         /\ Range(list) \cup {s} \subseteq Range(CacheFix(list, s))
  BY DequeueFacts, AppendQueue DEF CacheFix

-----------------------------------------------------------------------------
(* The inductive invariant. *)

(* A worker has a file between the section that gave it one and the last    *)
(* one, and a request while it reads and inserts.                           *)
HasWhatItNeeds ==
  \A w \in Worker :
    /\ file[w] # Null => pc[w] \in {"cached", "own"}
    /\ pc[w] \in {"read", "insert"} => request[w] \in File

(* Every element came with a request, and so will the elements of those who *)
(* read: this is what leaves a free slot in the table.                      *)
Loading == {w \in Worker : pc[w] \in {"read", "insert"}}

LoadsCovered == Len(made) + Cardinality(Loading) <= loads

Balanced == ~released => Takes(made, freed, current_cache)

CIInv ==
  /\ CacheTypeOK
  /\ HasWhatItNeeds
  /\ LoadsCovered
  /\ UsingCounts
  /\ NothingInUseIsFreed
  /\ CachedIsListed
  /\ Balanced

LEMMA CacheTypes ==
  ASSUME CacheTypeOK
  PROVE  /\ made \in Seq(Data) /\ Len(made) \in Nat /\ DOMAIN made = 1 .. Len(made)
         /\ \A e \in DOMAIN made : made[e] \in Data /\ e # Null
         /\ \A s \in Slot : elements[s] # Null => elements[s] \in DOMAIN made
         /\ \A w \in Worker : file[w] # Null => file[w] \in DOMAIN made
         /\ Null \notin freed
  <1>1. made \in Seq(Data)
    BY DEF CacheTypeOK, Data
  <1>2. /\ Len(made) \in Nat /\ DOMAIN made = 1 .. Len(made)
        /\ \A e \in 1 .. Len(made) : made[e] \in Data
    BY <1>1, SizesAreNat
  <1>3. \A e \in DOMAIN made : made[e] \in Data /\ e # Null
    BY <1>2 DEF Null
  <1>4. /\ \A s \in Slot : elements[s] # Null => elements[s] \in DOMAIN made
        /\ \A w \in Worker : file[w] # Null => file[w] \in DOMAIN made
        /\ Null \notin freed
    BY <1>3 DEF CacheTypeOK
  <1> QED BY <1>1, <1>2, <1>3, <1>4

(* There is a free slot: fewer elements were made than there are slots, and *)
(* each is in one slot only, the one it knows.                              *)
LEMMA FreeSlot ==
  ASSUME CIInv
  PROVE  \E s \in Slot : elements[s] = Null
  <1> SUFFICES ASSUME \A s \in Slot : elements[s] # Null PROVE FALSE
    OBVIOUS
  <1> DEFINE S == 0 .. TableSize - 1
             T == 1 .. Len(made)
             f == [s \in S |-> elements[s]]
  <1>1. /\ TableSize \in Nat /\ Slot = S /\ MaxLoads < TableSize
        /\ MaxLoads \in Nat
    BY CacheAssumption DEF Slot
  <1>2. Len(made) \in Nat /\ DOMAIN made = T
    BY CacheTypes DEF CIInv
  <1>3. Len(made) <= MaxLoads
    <2>1. IsFiniteSet(Loading)
      BY CacheAssumption, FS_Subset DEF Loading
    <2>2. Cardinality(Loading) \in Nat
      BY <2>1, FS_CardinalityType
    <2>3. Len(made) + Cardinality(Loading) <= loads /\ loads \in 0 .. MaxLoads
      BY DEF CIInv, LoadsCovered, CacheTypeOK
    <2> QED BY <1>1, <1>2, <2>2, <2>3
  <1>4. IsFiniteSet(S) /\ Cardinality(S) = TableSize
    BY <1>1, FS_Interval
  <1>5. IsFiniteSet(T) /\ Cardinality(T) = Len(made)
    <2>1. 1 \in Int /\ Len(made) \in Int
      BY <1>2
    <2>2. /\ IsFiniteSet(T)
          /\ Cardinality(T) = IF 1 > Len(made) THEN 0 ELSE Len(made) - 1 + 1
      BY <2>1, FS_Interval
    <2> QED BY <1>2, <2>2
  <1>6. f \in [S -> T]
    BY <1>1, <1>2, CacheTypes DEF CIInv
  <1>7. Cardinality(T) < Cardinality(S)
    BY <1>1, <1>2, <1>3, <1>4, <1>5
  <1> HIDE DEF S, T, f
  <1>8. PICK x, y \in S : x # y /\ f[x] = f[y]
    BY <1>4, <1>5, <1>6, <1>7, FS_PigeonHole
  <1>9. elements[x] = elements[y]
    BY <1>8 DEF f
  <1>10. made[elements[x]].hash_num = x /\ made[elements[y]].hash_num = y
    BY <1>1, <1>8 DEF CIInv, CachedIsListed
  <1> QED BY <1>8, <1>9, <1>10

(* What cache_lookup finds is an element that knows its slot and is not     *)
(* freed.                                                                   *)
LEMMA LookupFinds ==
  ASSUME CIInv, NEW f \in File, NEW e \in Lookups(f), e # Null
  PROVE  e \in DOMAIN made /\ e \notin freed /\ made[e].hash_num \in Slot
  <1>1. PICK h \in Places[f] : e = elements[Probe(elements, h, f)]
    BY DEF Lookups
  <1>2. h \in Slot
    BY CacheAssumption
  <1>3. Probe(elements, h, f) \in Slot
    BY <1>2, FreeSlot, ProbeEnds
  <1>4. e \in DOMAIN made /\ e \notin freed
    BY <1>1, <1>3, CacheTypes DEF CIInv, NothingInUseIsFreed
  <1>5. made[e] \in Data
    BY <1>4, CacheTypes DEF CIInv
  <1> QED BY <1>4, <1>5 DEF Data

-----------------------------------------------------------------------------
(* The users of the elements. *)

Users(e) == {w \in Worker : file[w] = e}

(* A worker without a file gets element e. *)
LEMMA OneMoreUser ==
  ASSUME CacheTypeOK, NEW w \in Worker, file[w] = Null, NEW e, e # Null,
         file' = [file EXCEPT ![w] = e]
  PROVE  \A x : x # Null =>
           Cardinality(Users(x)') =
             Cardinality(Users(x)) + (IF x = e THEN 1 ELSE 0)
  <1> SUFFICES ASSUME NEW x, x # Null
               PROVE  Cardinality(Users(x)') =
                        Cardinality(Users(x)) + (IF x = e THEN 1 ELSE 0)
    OBVIOUS
  <1>1. IsFiniteSet(Users(x)) /\ w \notin Users(x)
    BY CacheAssumption, FS_Subset DEF Users
  <1>2. Cardinality(Users(x)) \in Nat
    BY <1>1, FS_CardinalityType
  <1>3. \A v \in Worker : file'[v] = IF v = w THEN e ELSE file[v]
    BY DEF CacheTypeOK
  <1>4. CASE x = e
    <2>1. Users(x)' = Users(x) \cup {w}
      BY <1>3, <1>4 DEF Users
    <2> QED BY <1>1, <1>4, <2>1, FS_AddElement
  <1>5. CASE x # e
    <2>1. Users(x)' = Users(x)
      BY <1>1, <1>3, <1>5 DEF Users
    <2> QED BY <1>2, <1>5, <2>1
  <1> QED BY <1>4, <1>5

(* A worker lets its element go. *)
LEMMA OneLessUser ==
  ASSUME CacheTypeOK, NEW w \in Worker, file[w] # Null,
         file' = [file EXCEPT ![w] = Null]
  PROVE  \A x : x # Null =>
           /\ Cardinality(Users(x)) \in Nat
           /\ x = file[w] => Cardinality(Users(x)) # 0
           /\ Cardinality(Users(x)') =
                Cardinality(Users(x)) - (IF x = file[w] THEN 1 ELSE 0)
  <1> SUFFICES ASSUME NEW x, x # Null
               PROVE  /\ Cardinality(Users(x)) \in Nat
                      /\ x = file[w] => Cardinality(Users(x)) # 0
                      /\ Cardinality(Users(x)') =
                           Cardinality(Users(x)) - (IF x = file[w] THEN 1 ELSE 0)
    OBVIOUS
  <1>1. IsFiniteSet(Users(x)) /\ (x = file[w] => w \in Users(x))
    BY CacheAssumption, FS_Subset DEF Users
  <1>2. /\ Cardinality(Users(x)) \in Nat
        /\ x = file[w] => Cardinality(Users(x)) # 0
    BY <1>1, FS_CardinalityType, FS_EmptySet
  <1>3. \A v \in Worker : file'[v] = IF v = w THEN Null ELSE file[v]
    BY DEF CacheTypeOK
  <1>4. CASE x = file[w]
    <2>1. Users(x)' = Users(x) \ {w}
      BY <1>3, <1>4 DEF Users
    <2> QED BY <1>1, <1>2, <1>4, <2>1, FS_RemoveElement
  <1>5. CASE x # file[w]
    <2>1. Users(x)' = Users(x)
      BY <1>3, <1>5 DEF Users
    <2> QED BY <1>2, <1>5, <2>1
  <1> QED BY <1>2, <1>4, <1>5

(* An element without users is not the file of any worker. *)
LEMMA Unused ==
  ASSUME CIInv, NEW e \in DOMAIN made, made[e].using = 0
  PROVE  \A w \in Worker : file[w] # e
  <1>1. Cardinality(Users(e)) = 0
    BY DEF CIInv, UsingCounts, Users
  <1>2. IsFiniteSet(Users(e))
    BY CacheAssumption, FS_Subset DEF Users
  <1>3. Users(e) = {}
    BY <1>1, <1>2, FS_EmptySet
  <1> QED BY <1>3 DEF Users

-----------------------------------------------------------------------------
(* The steps. *)

(* One user more or less of an element. *)
LEMMA UsesFacts ==
  ASSUME CacheTypeOK, NEW e \in DOMAIN made, NEW n \in Nat
  PROVE  LET m == [made EXCEPT ![e].using = n]
         IN  /\ m \in Seq(Data) /\ Len(m) = Len(made) /\ DOMAIN m = DOMAIN made
             /\ \A x \in DOMAIN made :
                  /\ m[x].key = made[x].key
                  /\ m[x].hash_num = made[x].hash_num
                  /\ m[x].using = IF x = e THEN n ELSE made[x].using
  <1> DEFINE m == [made EXCEPT ![e].using = n]
             k == Len(made)
  <1>1. k \in Nat /\ DOMAIN made = 1 .. k /\ made \in [1 .. k -> Data]
    BY CacheTypes, LenProperties
  <1> HIDE DEF k
  <1>2. m \in [1 .. k -> Data]
    BY <1>1 DEF Data
  <1>3. m \in Seq(Data) /\ Len(m) = k
    BY <1>1, <1>2, IsASeq, LenProperties
  <1>4. \A x \in DOMAIN made :
          /\ m[x].key = made[x].key
          /\ m[x].hash_num = made[x].hash_num
          /\ m[x].using = IF x = e THEN n ELSE made[x].using
    BY <1>1 DEF Data
  <1> QED BY <1>1, <1>2, <1>3, <1>4 DEF k

(* What is true of the table when a step only changes counts of users and   *)
(* the order of the list, which keeps all its slots.                        *)
LEMMA TableKept ==
  ASSUME CIInv,
         UNCHANGED <<elements, current_cache, freed, released>>,
         made' \in Seq(Data), Len(made') = Len(made), DOMAIN made' = DOMAIN made,
         \A x \in DOMAIN made : /\ made'[x].key = made[x].key
                                /\ made'[x].hash_num = made[x].hash_num,
         Range(recent_list) \subseteq Range(recent_list')
  PROVE  /\ elements' \in [Slot -> DOMAIN made' \cup {Null}]
         /\ current_cache' \in Nat /\ freed' \subseteq DOMAIN made'
         /\ released' \in BOOLEAN
         /\ CachedIsListed' /\ Balanced'
         /\ \A s \in Slot : elements'[s] \notin freed'
  <1>1. /\ elements' \in [Slot -> DOMAIN made' \cup {Null}]
        /\ current_cache' \in Nat /\ freed' \subseteq DOMAIN made'
        /\ released' \in BOOLEAN
    BY DEF CIInv, CacheTypeOK
  <1>2. CachedIsListed'
    BY CacheTypes DEF CIInv, CachedIsListed
  <1>3. Balanced'
    <2>1. \A i \in 1 .. Len(made) : made'[i].key = made[i].key
      BY CacheTypes DEF CIInv
    <2> QED BY <2>1, TakesAsBefore DEF CIInv, Balanced
  <1>4. \A s \in Slot : elements'[s] \notin freed'
    BY DEF CIInv, NothingInUseIsFreed
  <1> QED BY <1>1, <1>2, <1>3, <1>4

(* The requests that are being loaded. *)
LEMMA LoadingSteps ==
  ASSUME CIInv, NEW w \in Worker, NEW p, pc' = [pc EXCEPT ![w] = p]
  PROVE  /\ Cardinality(Loading) \in Nat
         /\ Cardinality(Loading') =
              Cardinality(Loading)
                - (IF pc[w] \in {"read", "insert"} THEN 1 ELSE 0)
                + (IF p \in {"read", "insert"} THEN 1 ELSE 0)
  <1>1. IsFiniteSet(Loading) /\ IsFiniteSet(Loading \ {w})
    BY CacheAssumption, FS_Subset, FS_RemoveElement DEF Loading
  <1>2. \A v \in Worker : pc'[v] = IF v = w THEN p ELSE pc[v]
    BY DEF CIInv, CacheTypeOK
  <1>3. Cardinality(Loading) \in Nat /\ Cardinality(Loading \ {w}) \in Nat
    BY <1>1, FS_CardinalityType
  <1>4. Cardinality(Loading \ {w}) =
          Cardinality(Loading) - (IF pc[w] \in {"read", "insert"} THEN 1 ELSE 0)
    <2>1. w \in Loading <=> pc[w] \in {"read", "insert"}
      BY DEF Loading
    <2> QED BY <1>1, <1>3, <2>1, FS_RemoveElement
  <1>5. Loading' = IF p \in {"read", "insert"} THEN (Loading \ {w}) \cup {w}
                   ELSE Loading \ {w}
    BY <1>2 DEF Loading
  <1>6. Cardinality((Loading \ {w}) \cup {w}) = Cardinality(Loading \ {w}) + 1
    BY <1>1, FS_AddElement
  <1> QED BY <1>3, <1>4, <1>5, <1>6

(* Steps that concern neither the table nor the users of its elements. *)
LEMMA OnlyTheWorker ==
  ASSUME CIInv, UNCHANGED <<elements, recent_list, current_cache, made, freed,
                            file, crashed, released>>,
         NEW w \in Worker, file[w] = Null,
         NEW p \in {"idle", "read", "insert", "own"}, pc' = [pc EXCEPT ![w] = p],
         NEW r \in File \cup {Null}, request' = [request EXCEPT ![w] = r],
         p \in {"read", "insert"} => r \in File,
         loads' \in 0 .. MaxLoads,
         Len(made) + Cardinality(Loading') <= loads'
  PROVE  CIInv'
  <1>1. CacheTypeOK'
    BY DEF CIInv, CacheTypeOK
  <1>2. HasWhatItNeeds'
    BY DEF CIInv, CacheTypeOK, HasWhatItNeeds
  <1>3. LoadsCovered'
    BY DEF LoadsCovered
  <1>4. UsingCounts' /\ NothingInUseIsFreed' /\ CachedIsListed' /\ Balanced'
    BY DEF CIInv, UsingCounts, NothingInUseIsFreed, CachedIsListed, Balanced
  <1> QED BY <1>1, <1>2, <1>3, <1>4 DEF CIInv

(* A worker gets an element from the table; its place in the list moves. *)
LEMMA ElementFound ==
  ASSUME CIInv, UNCHANGED <<elements, current_cache, freed, crashed, released>>,
         NEW w \in Worker, file[w] = Null,
         NEW e \in DOMAIN made, e \notin freed, made[e].hash_num \in Slot,
         made' = Uses(e),
         recent_list' = CacheFix(recent_list, made[e].hash_num),
         file' = [file EXCEPT ![w] = e],
         NEW p \in {"cached", "own"}, pc' = [pc EXCEPT ![w] = p],
         request' \in [Worker -> File \cup {Null}],
         \A v \in Worker : v # w => request'[v] = request[v],
         loads' \in 0 .. MaxLoads,
         Len(made) + Cardinality(Loading') <= loads'
  PROVE  CIInv'
  <1>1. /\ made[e] \in Data /\ made[e].using + 1 \in Nat /\ e # Null
        /\ recent_list \in Seq(Slot) /\ pc \in [Worker -> {"idle", "read",
                                           "insert", "cached", "own"}]
        /\ file \in [Worker -> DOMAIN made \cup {Null}]
    BY CacheTypes DEF CIInv, CacheTypeOK, Data
  <1>2. /\ made' \in Seq(Data) /\ Len(made') = Len(made)
        /\ DOMAIN made' = DOMAIN made
        /\ \A x \in DOMAIN made :
             /\ made'[x].key = made[x].key
             /\ made'[x].hash_num = made[x].hash_num
             /\ made'[x].using = IF x = e THEN made[e].using + 1 ELSE made[x].using
    BY <1>1, UsesFacts DEF CIInv, Uses
  <1>3. recent_list' \in Seq(Slot) /\ Range(recent_list) \subseteq Range(recent_list')
    BY <1>1, CacheFixFacts
  <1>4. /\ elements' \in [Slot -> DOMAIN made' \cup {Null}]
        /\ current_cache' \in Nat /\ freed' \subseteq DOMAIN made'
        /\ released' \in BOOLEAN
        /\ CachedIsListed' /\ Balanced'
        /\ \A s \in Slot : elements'[s] \notin freed'
    BY <1>2, <1>3, TableKept
  <1>5. \A v \in Worker : /\ file'[v] = IF v = w THEN e ELSE file[v]
                          /\ pc'[v] = IF v = w THEN p ELSE pc[v]
    BY <1>1
  <1>6. CacheTypeOK'
    <2>1. file' \in [Worker -> DOMAIN made' \cup {Null}]
      BY <1>1, <1>2
    <2>2. pc' \in [Worker -> {"idle", "read", "insert", "cached", "own"}]
      BY <1>1
    <2>3. crashed' \in BOOLEAN
      BY DEF CIInv, CacheTypeOK
    <2> QED BY <1>2, <1>3, <1>4, <2>1, <2>2, <2>3 DEF CacheTypeOK, Data
  <1>7. HasWhatItNeeds'
    BY <1>5 DEF CIInv, HasWhatItNeeds
  <1>8. LoadsCovered'
    BY <1>2 DEF LoadsCovered
  <1>9. UsingCounts'
    <2> SUFFICES ASSUME NEW x \in DOMAIN made
                 PROVE  made'[x].using = Cardinality(Users(x)')
      BY <1>2 DEF UsingCounts, Users
    <2>1. x # Null /\ made[x].using = Cardinality(Users(x))
      BY CacheTypes DEF CIInv, UsingCounts, Users
    <2>2. made[x].using \in Nat
      BY CacheTypes DEF CIInv, Data
    <2>3. Cardinality(Users(x)') =
            Cardinality(Users(x)) + (IF x = e THEN 1 ELSE 0)
      BY <1>1, <2>1, OneMoreUser DEF CIInv
    <2> QED BY <1>2, <2>1, <2>2, <2>3
  <1>10. NothingInUseIsFreed'
    BY <1>4, <1>5 DEF CIInv, NothingInUseIsFreed
  <1> QED BY <1>4, <1>6, <1>7, <1>8, <1>9, <1>10 DEF CIInv

LEMMA StartStep ==
  ASSUME CIInv, NEW w \in Worker, Start(w), UNCHANGED released
  PROVE  CIInv'
  <1>1. /\ pc[w] = "idle" /\ loads < MaxLoads /\ loads' = loads + 1
        /\ UNCHANGED <<elements, current_cache, freed, crashed>>
    BY DEF Start
  <1> DEFINE Looked(f, e) ==
          \/ /\ e = Null
             /\ pc' = [pc EXCEPT ![w] = "read"]
             /\ request' = [request EXCEPT ![w] = f]
             /\ UNCHANGED <<recent_list, made, file>>
          \/ /\ e # Null
             /\ pc' = [pc EXCEPT ![w] = "cached"]
             /\ made' = Uses(e)
             /\ recent_list' = CacheFix(recent_list, made[e].hash_num)
             /\ file' = [file EXCEPT ![w] = e]
             /\ UNCHANGED request
  <1>0. PICK f \in File : \E e \in Lookups(f) : Looked(f, e)
    BY DEF Start
  <1>2. PICK e \in Lookups(f) : Looked(f, e)
    BY <1>0
  <1>3. file[w] = Null
    BY <1>1 DEF CIInv, HasWhatItNeeds
  <1>4. /\ loads \in Nat /\ Len(made) \in Nat /\ loads' \in 0 .. MaxLoads
        /\ Len(made) + Cardinality(Loading) <= loads
    BY <1>1, CacheAssumption, CacheTypes DEF CIInv, CacheTypeOK, LoadsCovered
  <1>5. CASE e = Null
    <2>1. /\ pc' = [pc EXCEPT ![w] = "read"]
          /\ request' = [request EXCEPT ![w] = f]
          /\ UNCHANGED <<recent_list, made, file>>
      BY <1>2, <1>5
    <2>2. /\ Cardinality(Loading) \in Nat
          /\ Cardinality(Loading') = Cardinality(Loading) - 0 + 1
      BY <1>1, <2>1, LoadingSteps
    <2>3. Len(made) + Cardinality(Loading') <= loads'
      BY <1>1, <1>4, <2>2
    <2> QED BY <1>1, <1>3, <1>4, <2>1, <2>3, OnlyTheWorker
  <1>6. CASE e # Null
    <2>1. /\ pc' = [pc EXCEPT ![w] = "cached"]
          /\ made' = Uses(e)
          /\ recent_list' = CacheFix(recent_list, made[e].hash_num)
          /\ file' = [file EXCEPT ![w] = e]
          /\ UNCHANGED request
      BY <1>2, <1>6
    <2>2. e \in DOMAIN made /\ e \notin freed /\ made[e].hash_num \in Slot
      BY <1>2, <1>6, LookupFinds
    <2>3. /\ Cardinality(Loading) \in Nat
          /\ Cardinality(Loading') = Cardinality(Loading)
      <3>1. /\ Cardinality(Loading) \in Nat
            /\ Cardinality(Loading') =
                 Cardinality(Loading)
                   - (IF pc[w] \in {"read", "insert"} THEN 1 ELSE 0)
                   + (IF "cached" \in {"read", "insert"} THEN 1 ELSE 0)
        BY <2>1, LoadingSteps
      <3> QED BY <1>1, <3>1
    <2>4. Len(made) + Cardinality(Loading') <= loads'
      BY <1>1, <1>4, <2>3
    <2>5. request' \in [Worker -> File \cup {Null}]
      BY <2>1 DEF CIInv, CacheTypeOK
    <2> QED BY <1>1, <1>3, <1>4, <2>1, <2>2, <2>4, <2>5, ElementFound
  <1> QED BY <1>5, <1>6

LEMMA ReadStep ==
  ASSUME CIInv, NEW w \in Worker, ReadFile(w) \/ RefuseFile(w),
         UNCHANGED released
  PROVE  CIInv'
  <1>1. /\ pc[w] = "read" /\ file[w] = Null /\ request[w] \in File
        /\ UNCHANGED <<elements, recent_list, current_cache, made, freed,
                       file, loads, crashed>>
    BY DEF ReadFile, RefuseFile, CIInv, HasWhatItNeeds
  <1>2. /\ loads \in Nat /\ Len(made) \in Nat /\ loads' \in 0 .. MaxLoads
        /\ Len(made) + Cardinality(Loading) <= loads
    BY <1>1, CacheTypes, CacheAssumption DEF CIInv, CacheTypeOK, LoadsCovered
  <1>3. CASE ReadFile(w)
    <2>1. pc' = [pc EXCEPT ![w] = "insert"]
      BY <1>3 DEF ReadFile
    <2>2. request' = [request EXCEPT ![w] = request[w]]
      BY <1>3 DEF ReadFile, CIInv, CacheTypeOK
    <2>3. /\ Cardinality(Loading) \in Nat
          /\ Cardinality(Loading') = Cardinality(Loading) - 1 + 1
      BY <1>1, <2>1, LoadingSteps
    <2>4. Len(made) + Cardinality(Loading') <= loads'
      BY <1>1, <1>2, <2>3
    <2> QED BY <1>1, <1>2, <2>1, <2>2, <2>4, OnlyTheWorker
  <1>4. CASE RefuseFile(w)
    <2>1. /\ pc' = [pc EXCEPT ![w] = "idle"]
          /\ request' = [request EXCEPT ![w] = Null]
      BY <1>4 DEF RefuseFile
    <2>2. /\ Cardinality(Loading) \in Nat
          /\ Cardinality(Loading') = Cardinality(Loading) - 1 + 0
      BY <1>1, <2>1, LoadingSteps
    <2>3. Len(made) + Cardinality(Loading') <= loads'
      BY <1>1, <1>2, <2>2
    <2> QED BY <1>1, <1>2, <2>1, <2>3, OnlyTheWorker
  <1> QED BY <1>3, <1>4

(* cache_evict: nothing, or one element that nobody uses and no slot holds  *)
(* any more; the other slots stay in the list, and current_cache is what is *)
(* left.                                                                    *)
LEMMA EvictFacts ==
  ASSUME CIInv, ~released, NEW size, NEW kept, kept = Keep \/ kept = Evict(size)
  PROVE  /\ kept.table \in [Slot -> DOMAIN made \cup {Null}]
         /\ \A s \in Slot : kept.table[s] \in {elements[s], Null}
         /\ kept.list \in Seq(Slot)
         /\ \A s \in Slot : kept.table[s] # Null => s \in Range(kept.list)
         /\ kept.gone \subseteq DOMAIN made
         /\ \A s \in Slot : kept.table[s] \notin freed \cup kept.gone
         /\ \A w \in Worker : file[w] \notin freed \cup kept.gone
         /\ kept.cache \in Nat
         /\ Takes(made, freed \cup kept.gone, kept.cache)
  <1>1. /\ elements \in [Slot -> DOMAIN made \cup {Null}]
        /\ recent_list \in Seq(Slot) /\ current_cache \in Nat
        /\ Takes(made, freed, current_cache)
        /\ \A s \in Slot : elements[s] # Null => s \in Range(recent_list)
        /\ \A s \in Slot : elements[s] \notin freed
        /\ \A w \in Worker : file[w] \notin freed
    BY DEF CIInv, CacheTypeOK, Balanced, CachedIsListed, NothingInUseIsFreed
  <1>2. CASE kept = Keep
    <2>1. /\ kept.table = elements /\ kept.list = recent_list
          /\ kept.cache = current_cache /\ kept.gone = {}
      BY <1>2 DEF Keep
    <2>2. freed \cup kept.gone = freed
      BY <2>1
    <2> QED BY <1>1, <2>1, <2>2
  <1>3. CASE kept = Evict(size) /\ Evictable # {}
    <2> DEFINE i == Min(Evictable)
               s == recent_list[i]
               e == elements[s]
    <2>1. /\ DOMAIN recent_list = 1 .. Len(recent_list)
          /\ Len(recent_list) \in Nat
          /\ \A j \in DOMAIN recent_list : recent_list[j] \in Slot
      BY <1>1, LenProperties
    <2>2. i \in Evictable
      <3>1. Evictable \subseteq Nat
        BY <2>1 DEF Evictable
      <3>2. Evictable # {}
        BY <1>3
      <3> DEFINE T == Evictable
      <3> HIDE DEF T
      <3>3. \E j \in T : \A k \in T : j <= k
        BY <3>1, <3>2, LeastMember DEF T
      <3> QED BY <3>3 DEF Min, T
    <2>3. s \in Slot /\ e # Null /\ made[e].using = 0
      <3> HIDE DEF i
      <3>1. i \in DOMAIN recent_list
        BY <2>2 DEF Evictable
      <3>2. elements[recent_list[i]] # Null
        BY <2>2 DEF Evictable
      <3>3. made[elements[recent_list[i]]].using = 0
        BY <2>2 DEF Evictable
      <3> QED BY <2>1, <3>1, <3>2, <3>3
    <2>4. /\ kept.table = [elements EXCEPT ![s] = Null]
          /\ kept.list = Dequeue(recent_list, s)
          /\ kept.cache = current_cache - SizeOf[made[e].key]
          /\ kept.gone = {e}
      BY <1>3 DEF Evict, Refund
    <2> HIDE DEF i, s
    <2>5. e \in DOMAIN made /\ e \notin freed
      BY <1>1, <2>3
    <2>6. \A t \in Slot : kept.table[t] = IF t = s THEN Null ELSE elements[t]
      BY <1>1, <2>3, <2>4
    <2>7. \A t \in Slot : t # s /\ elements[t] # Null => elements[t] # e
      BY <2>3 DEF CIInv, CachedIsListed
    <2>8. \A w \in Worker : file[w] # e
      BY <2>3, <2>5, Unused
    <2>9. kept.cache \in Nat /\ Takes(made, freed \cup {e}, kept.cache)
      <3>1. made \in Seq(Data) /\ made[e] \in Data
        BY <2>5, CacheTypes DEF CIInv
      <3>2. SizeOf[made[e].key] \in Nat
        BY <3>1, CacheAssumption DEF Data
      <3>3. /\ SizeOf[made[e].key] <= current_cache
            /\ Takes(made, freed \cup {e}, current_cache - SizeOf[made[e].key])
        BY <1>1, <2>5, <3>1, TakesOneLess
      <3> QED BY <1>1, <2>4, <3>2, <3>3
    <2>10. /\ kept.list \in Seq(Slot)
           /\ \A t \in Slot : kept.table[t] # Null => t \in Range(kept.list)
      BY <1>1, <2>3, <2>4, <2>6, DequeueFacts
    <2>11. /\ kept.table \in [Slot -> DOMAIN made \cup {Null}]
           /\ \A t \in Slot : kept.table[t] \in {elements[t], Null}
      BY <1>1, <2>4, <2>6
    <2>12. \A t \in Slot : kept.table[t] \notin freed \cup {e}
      <3>1. Null \notin freed
        BY CacheTypes DEF CIInv
      <3> QED BY <1>1, <2>3, <2>6, <2>7, <3>1
    <2> QED BY <1>1, <2>4, <2>5, <2>8, <2>9, <2>10, <2>11, <2>12
  <1>4. CASE kept = Evict(size) /\ Evictable = {}
    BY <1>2, <1>4 DEF Evict
  <1> QED BY <1>2, <1>3, <1>4

LEMMA InsertFindsStep ==
  ASSUME CIInv, NEW w \in Worker, pc[w] = "insert", InsertFinds(w, request[w]),
         pc' = [pc EXCEPT ![w] = "own"],
         request' = [request EXCEPT ![w] = Null], UNCHANGED <<loads, released>>
  PROVE  CIInv'
  <1>1. /\ file[w] = Null /\ request[w] \in File
        /\ UNCHANGED <<elements, current_cache, freed, crashed>>
    BY DEF CIInv, HasWhatItNeeds, InsertFinds
  <1>2. PICK e \in Lookups(request[w]) :
          /\ file' = [file EXCEPT ![w] = e]
          /\ \/ e = Null /\ UNCHANGED <<made, recent_list>>
             \/ /\ e # Null
                /\ made' = Uses(e)
                /\ recent_list' = CacheFix(recent_list, made[e].hash_num)
    BY DEF InsertFinds
  <1>3. /\ Cardinality(Loading) \in Nat
        /\ Cardinality(Loading') = Cardinality(Loading) - 1
    <2>1. /\ Cardinality(Loading) \in Nat
          /\ Cardinality(Loading') =
               Cardinality(Loading)
                 - (IF pc[w] \in {"read", "insert"} THEN 1 ELSE 0)
                 + (IF "own" \in {"read", "insert"} THEN 1 ELSE 0)
      BY LoadingSteps
    <2> QED BY <2>1
  <1>4. /\ loads' \in 0 .. MaxLoads
        /\ Len(made) + Cardinality(Loading') <= loads'
    <2>1. loads \in 0 .. MaxLoads /\ Len(made) \in Nat
      BY CacheTypes DEF CIInv, CacheTypeOK
    <2>2. Len(made) + Cardinality(Loading) <= loads
      BY DEF CIInv, LoadsCovered
    <2> QED BY <1>3, <2>1, <2>2, CacheAssumption
  <1>5. CASE e = Null
    <2>1. UNCHANGED <<file, made, recent_list>>
      BY <1>1, <1>2, <1>5 DEF CIInv, CacheTypeOK
    <2> QED BY <1>1, <1>4, <2>1, OnlyTheWorker
  <1>6. CASE e # Null
    <2>1. e \in DOMAIN made /\ e \notin freed /\ made[e].hash_num \in Slot
      BY <1>1, <1>6, LookupFinds
    <2>2. /\ request' \in [Worker -> File \cup {Null}]
          /\ \A v \in Worker : v # w => request'[v] = request[v]
      BY DEF CIInv, CacheTypeOK
    <2> QED BY <1>1, <1>2, <1>4, <1>6, <2>1, <2>2, ElementFound
  <1> QED BY <1>5, <1>6

(* The file is inserted, in the table as cache_evict left it, or is too big. *)
LEMMA InsertNewStep ==
  ASSUME CIInv, ~released, NEW w \in Worker, pc[w] = "insert",
         InsertNew(w, request[w]),
         pc' = [pc EXCEPT ![w] = "own"],
         request' = [request EXCEPT ![w] = Null], UNCHANGED <<loads, released>>
  PROVE  CIInv'
  <1> DEFINE f == request[w]
             kept == IF SizeOf[f] > MaxCacheSize - current_cache
                     THEN Evict(SizeOf[f]) ELSE Keep
             k == Len(made)
  <1>1. /\ (SizeOf[f] <= MaxCacheSize /\ TableInsert(w, f, kept)) \/ TooBig(w, kept)
        /\ freed' = freed \cup kept.gone
        /\ crashed' \in BOOLEAN
    BY DEF InsertNew
  <1>2. f \in File /\ file[w] = Null
    BY DEF CIInv, HasWhatItNeeds
  <1>3. /\ kept.table \in [Slot -> DOMAIN made \cup {Null}]
        /\ \A s \in Slot : kept.table[s] \in {elements[s], Null}
        /\ kept.list \in Seq(Slot)
        /\ \A s \in Slot : kept.table[s] # Null => s \in Range(kept.list)
        /\ kept.gone \subseteq DOMAIN made
        /\ \A s \in Slot : kept.table[s] \notin freed'
        /\ \A v \in Worker : file[v] \notin freed'
        /\ kept.cache \in Nat
        /\ Takes(made, freed', kept.cache)
    BY <1>1, EvictFacts
  <1> HIDE DEF kept
  <1>4. /\ made \in Seq(Data) /\ k \in Nat /\ DOMAIN made = 1 .. k
        /\ freed' \subseteq DOMAIN made
        /\ pc \in [Worker -> {"idle", "read", "insert", "cached", "own"}]
        /\ request \in [Worker -> File \cup {Null}]
        /\ file \in [Worker -> DOMAIN made \cup {Null}]
        /\ loads \in 0 .. MaxLoads /\ released \in BOOLEAN
    BY <1>1, <1>3, CacheTypes DEF CIInv, CacheTypeOK
  <1>5. \A s \in Slot : kept.table[s] # Null => /\ kept.table[s] \in DOMAIN made
                                                /\ made[kept.table[s]].hash_num = s
    BY <1>3 DEF CIInv, CachedIsListed
  <1>6. /\ Cardinality(Loading) \in Nat
        /\ Cardinality(Loading') = Cardinality(Loading) - 1
    <2>1. /\ Cardinality(Loading) \in Nat
          /\ Cardinality(Loading') =
               Cardinality(Loading)
                 - (IF pc[w] \in {"read", "insert"} THEN 1 ELSE 0)
                 + (IF "own" \in {"read", "insert"} THEN 1 ELSE 0)
      BY LoadingSteps
    <2> QED BY <2>1
  <1>7. k + Cardinality(Loading) <= loads
    BY DEF CIInv, LoadsCovered
  <1>8. /\ pc' \in [Worker -> {"idle", "read", "insert", "cached", "own"}]
        /\ request' \in [Worker -> File \cup {Null}]
        /\ \A v \in Worker : /\ pc'[v] = IF v = w THEN "own" ELSE pc[v]
                             /\ request'[v] = IF v = w THEN Null ELSE request[v]
    BY <1>4
  <1>9. CASE TooBig(w, kept)
    <2>1. /\ elements' = kept.table /\ recent_list' = kept.list
          /\ current_cache' = kept.cache /\ made' = made /\ file' = file
      BY <1>2, <1>4, <1>9 DEF TooBig
    <2>2. CacheTypeOK'
      BY <1>1, <1>3, <1>4, <1>8, <2>1 DEF CacheTypeOK, Data
    <2>3. HasWhatItNeeds'
      BY <1>2, <1>8, <2>1 DEF CIInv, HasWhatItNeeds
    <2>4. LoadsCovered'
      BY <1>4, <1>6, <1>7, <2>1 DEF LoadsCovered
    <2>5. UsingCounts' /\ NothingInUseIsFreed' /\ Balanced'
      BY <1>3, <2>1 DEF CIInv, UsingCounts, NothingInUseIsFreed, Balanced
    <2>6. CachedIsListed'
      BY <1>3, <1>5, <2>1 DEF CachedIsListed
    <2> QED BY <2>2, <2>3, <2>4, <2>5, <2>6 DEF CIInv
  <1>10. CASE TableInsert(w, f, kept)
    <2>1. PICK h \in Places[f] :
            LET s == Probe(kept.table, h, f)
                e == Len(made) + 1
            IN  /\ made' = Append(made, [key |-> f, using |-> 1, hash_num |-> s])
                /\ elements' = [kept.table EXCEPT ![s] = e]
                /\ current_cache' = Charge(kept.cache, f)
                /\ recent_list' = CacheFix(Append(kept.list, s), s)
                /\ file' = [file EXCEPT ![w] = e]
      BY <1>10 DEF TableInsert
    <2> DEFINE s == Probe(kept.table, h, f)
               e == k + 1
               d == [key |-> f, using |-> 1, hash_num |-> s]
    <2>2. /\ made' = Append(made, d)
          /\ elements' = [kept.table EXCEPT ![s] = e]
          /\ current_cache' = kept.cache + SizeOf[f]
          /\ recent_list' = CacheFix(Append(kept.list, s), s)
          /\ file' = [file EXCEPT ![w] = e]
      BY <2>1 DEF Charge
    <2>3. s \in Slot
      <3>1. h \in Slot
        BY <1>2, CacheAssumption
      <3>2. \E t \in Slot : kept.table[t] = Null
        BY <1>3, FreeSlot
      <3> QED BY <3>1, <3>2, ProbeEnds
    <2> HIDE DEF s
    <2>4. d \in Data /\ d.key = f /\ d.using = 1 /\ d.hash_num = s
          /\ SizeOf[f] \in Nat
      BY <1>2, <2>3, CacheAssumption DEF Data
    <2> HIDE DEF d
    <2>5. /\ made' \in Seq(Data) /\ Len(made') = k + 1
          /\ DOMAIN made' = 1 .. k + 1
          /\ made'[e] = d /\ \A x \in 1 .. k : made'[x] = made[x]
      BY <1>4, <2>2, <2>4, AppendProperties, SizesAreNat
    <2>6. e \notin DOMAIN made /\ e # Null /\ e \in DOMAIN made'
          /\ DOMAIN made \subseteq DOMAIN made'
      BY <1>4, <2>5 DEF Null
    <2> HIDE DEF k, e
    <2>7. /\ elements' \in [Slot -> DOMAIN made' \cup {Null}]
          /\ \A t \in Slot : elements'[t] = IF t = s THEN e ELSE kept.table[t]
      BY <1>3, <2>2, <2>3, <2>6
    <2>8. /\ file' \in [Worker -> DOMAIN made' \cup {Null}]
          /\ \A v \in Worker : file'[v] = IF v = w THEN e ELSE file[v]
      BY <1>4, <2>2, <2>6
    <2>9. /\ recent_list' \in Seq(Slot)
          /\ Range(kept.list) \cup {s} \subseteq Range(recent_list')
      <3>1. /\ Append(kept.list, s) \in Seq(Slot)
            /\ Range(Append(kept.list, s)) = Range(kept.list) \cup {s}
        BY <1>3, <2>3, AppendQueue
      <3> QED BY <2>2, <2>3, <3>1, CacheFixFacts
    <2>10. CacheTypeOK'
      <3>1. current_cache' \in Nat
        BY <1>3, <2>2, <2>4
      <3>2. freed' \subseteq DOMAIN made'
        BY <1>4, <2>6
      <3> QED BY <1>1, <1>4, <1>8, <2>5, <2>7, <2>8, <2>9, <3>1, <3>2
          DEF CacheTypeOK, Data
    <2>11. HasWhatItNeeds'
      BY <1>8, <2>8 DEF CIInv, HasWhatItNeeds
    <2>12. LoadsCovered'
      BY <1>4, <1>6, <1>7, <2>5 DEF LoadsCovered
    <2>13. UsingCounts'
      <3> SUFFICES ASSUME NEW x \in DOMAIN made'
                   PROVE  made'[x].using = Cardinality(Users(x)')
        BY DEF UsingCounts, Users
      <3>1. x # Null
        BY <2>5 DEF Null
      <3>2. Cardinality(Users(x)') =
              Cardinality(Users(x)) + (IF x = e THEN 1 ELSE 0)
        BY <1>2, <2>2, <2>6, <3>1, OneMoreUser DEF CIInv
      <3>3. CASE x \in DOMAIN made
        <4>1. made'[x] = made[x] /\ x # e
          BY <1>4, <2>5, <2>6, <3>3
        <4>2. made[x].using = Cardinality(Users(x)) /\ made[x].using \in Nat
          BY <3>3, CacheTypes DEF CIInv, UsingCounts, Users, Data
        <4> QED BY <3>2, <4>1, <4>2
      <3>4. CASE x \notin DOMAIN made
        <4>1. x = e
          BY <1>4, <2>5, <3>4 DEF e, k
        <4>2. Users(x) = {}
          BY <1>4, <3>1, <3>4 DEF Users
        <4>3. Cardinality(Users(x)) = 0
          BY <4>2, FS_EmptySet
        <4> QED BY <2>4, <2>5, <3>2, <4>1, <4>3
      <3> QED BY <3>3, <3>4
    <2>14. NothingInUseIsFreed'
      <3>1. e \notin freed'
        BY <1>4, <2>6
      <3> QED BY <1>3, <2>7, <2>8, <3>1 DEF NothingInUseIsFreed
    <2>15. CachedIsListed'
      <3> SUFFICES ASSUME NEW t \in Slot, elements'[t] # Null
                   PROVE  /\ made'[elements'[t]].hash_num = t
                          /\ t \in Range(recent_list')
        BY DEF CachedIsListed
      <3>1. CASE t = s
        BY <2>4, <2>5, <2>7, <2>9, <3>1
      <3>2. CASE t # s
        <4>1. /\ elements'[t] = kept.table[t] /\ t \in Range(kept.list)
              /\ elements'[t] \in DOMAIN made
              /\ made[elements'[t]].hash_num = t
          BY <1>3, <1>5, <2>7, <3>2
        <4>2. made'[elements'[t]] = made[elements'[t]]
          BY <1>4, <2>5, <4>1
        <4> QED BY <2>9, <4>1, <4>2
      <3> QED BY <3>1, <3>2
    <2>16. Balanced'
      <3>1. Takes(Append(made, d), freed', kept.cache + SizeOf[d.key])
        <4>1. freed' \in SUBSET DOMAIN made
          BY <1>4
        <4>2. made \in Seq(Data) /\ Takes(made, freed', kept.cache)
          BY <1>3, <1>4
        <4>3. d \in Data
          BY <2>4
        <4> QED BY <4>1, <4>2, <4>3, TakesOneMore
      <3>2. Takes(made', freed', current_cache')
        BY <2>2, <2>4, <3>1
      <3> QED BY <3>2 DEF Balanced
    <2> QED BY <2>10, <2>11, <2>12, <2>13, <2>14, <2>15, <2>16 DEF CIInv
  <1> QED BY <1>1, <1>9, <1>10

LEMMA DoneStep ==
  ASSUME CIInv, NEW w \in Worker, Done(w), UNCHANGED released
  PROVE  CIInv'
  <1>1. /\ pc[w] \in {"cached", "own"}
        /\ pc' = [pc EXCEPT ![w] = "idle"]
        /\ file' = [file EXCEPT ![w] = Null]
        /\ UNCHANGED <<elements, recent_list, current_cache, freed, request,
                       loads, crashed>>
    BY DEF Done
  <1>2. /\ Cardinality(Loading) \in Nat
        /\ Cardinality(Loading') = Cardinality(Loading)
    <2>1. /\ Cardinality(Loading) \in Nat
          /\ Cardinality(Loading') =
               Cardinality(Loading)
                 - (IF pc[w] \in {"read", "insert"} THEN 1 ELSE 0)
                 + (IF "idle" \in {"read", "insert"} THEN 1 ELSE 0)
      BY <1>1, LoadingSteps
    <2> QED BY <1>1, <2>1
  <1>3. /\ pc \in [Worker -> {"idle", "read", "insert", "cached", "own"}]
        /\ file \in [Worker -> DOMAIN made \cup {Null}]
        /\ Len(made) + Cardinality(Loading) <= loads
        /\ recent_list \in Seq(Slot) /\ crashed \in BOOLEAN
        /\ request \in [Worker -> File \cup {Null}] /\ loads \in 0 .. MaxLoads
    BY DEF CIInv, CacheTypeOK, LoadsCovered
  <1>4. \A v \in Worker : /\ file'[v] = IF v = w THEN Null ELSE file[v]
                          /\ pc'[v] = IF v = w THEN "idle" ELSE pc[v]
    BY <1>1, <1>3
  <1>5. pc' \in [Worker -> {"idle", "read", "insert", "cached", "own"}]
    BY <1>1, <1>3
  <1>6. HasWhatItNeeds'
    BY <1>1, <1>4 DEF CIInv, HasWhatItNeeds
  <1>7. CASE file[w] = Null
    <2>1. made' = made /\ file' = file
      BY <1>1, <1>3, <1>7 DEF Done
    <2>2. CacheTypeOK'
      BY <1>1, <1>5, <2>1 DEF CIInv, CacheTypeOK
    <2>3. LoadsCovered'
      BY <1>1, <1>2, <1>3, <2>1 DEF LoadsCovered
    <2>4. UsingCounts' /\ NothingInUseIsFreed' /\ CachedIsListed' /\ Balanced'
      BY <1>1, <2>1
      DEF CIInv, UsingCounts, NothingInUseIsFreed, CachedIsListed, Balanced
    <2> QED BY <1>6, <2>2, <2>3, <2>4 DEF CIInv
  <1>8. CASE file[w] # Null
    <2> DEFINE e == file[w]
    <2>1. made' = [made EXCEPT ![e].using = made[e].using - 1]
      BY <1>8 DEF Done
    <2>2. e \in DOMAIN made /\ made[e] \in Data
      BY <1>8, CacheTypes DEF CIInv
    <2>3. \A x \in DOMAIN made :
            /\ x # Null /\ made[x].using \in Nat
            /\ made[x].using = Cardinality(Users(x))
      BY CacheTypes DEF CIInv, UsingCounts, Users, Data
    <2>4. \A x \in DOMAIN made :
            /\ x = e => Cardinality(Users(x)) # 0
            /\ Cardinality(Users(x)') =
                 Cardinality(Users(x)) - (IF x = e THEN 1 ELSE 0)
      BY <1>1, <1>8, <2>3, OneLessUser DEF CIInv
    <2>5. made[e].using - 1 \in Nat
      BY <2>2, <2>3, <2>4
    <2>6. /\ made' \in Seq(Data) /\ Len(made') = Len(made)
          /\ DOMAIN made' = DOMAIN made
          /\ \A x \in DOMAIN made :
               /\ made'[x].key = made[x].key
               /\ made'[x].hash_num = made[x].hash_num
               /\ made'[x].using = IF x = e THEN made[e].using - 1
                                   ELSE made[x].using
      BY <2>1, <2>2, <2>5, UsesFacts DEF CIInv
    <2>7. /\ elements' \in [Slot -> DOMAIN made' \cup {Null}]
          /\ current_cache' \in Nat /\ freed' \subseteq DOMAIN made'
          /\ released' \in BOOLEAN
          /\ CachedIsListed' /\ Balanced'
          /\ \A s \in Slot : elements'[s] \notin freed'
      BY <1>1, <2>6, TableKept
    <2>8. CacheTypeOK'
      <3>1. file' \in [Worker -> DOMAIN made' \cup {Null}]
        BY <1>1, <1>3, <2>6
      <3> QED BY <1>1, <1>3, <1>5, <2>6, <2>7, <3>1 DEF CacheTypeOK, Data
    <2>9. LoadsCovered'
      BY <1>1, <1>2, <1>3, <2>6 DEF LoadsCovered
    <2>10. UsingCounts'
      <3> SUFFICES ASSUME NEW x \in DOMAIN made
                   PROVE  made'[x].using = Cardinality(Users(x)')
        BY <2>6 DEF UsingCounts, Users
      <3> QED BY <2>3, <2>4, <2>6
    <2>11. NothingInUseIsFreed'
      <3>1. Null \notin freed
        BY CacheTypes DEF CIInv
      <3> QED BY <1>1, <1>4, <2>7, <3>1 DEF CIInv, NothingInUseIsFreed
    <2> QED BY <1>6, <2>7, <2>8, <2>9, <2>10, <2>11 DEF CIInv
  <1> QED BY <1>7, <1>8

LEMMA ReleaseStep ==
  ASSUME CIInv, ReleaseCache
  PROVE  CIInv'
  <1>1. /\ \A w \in Worker : file[w] = Null
        /\ Null \notin freed
    BY CacheTypes DEF ReleaseCache, CIInv, HasWhatItNeeds
  <1>2. /\ freed' = freed \cup (Range(elements) \ {Null})
        /\ elements' = [s \in Slot |-> Null]
        /\ recent_list' = <<>> /\ released' = TRUE
        /\ UNCHANGED <<current_cache, made, pc, request, file, loads, crashed>>
    BY DEF ReleaseCache
  <1>3. freed' \subseteq DOMAIN made /\ Null \notin freed'
    BY <1>1, <1>2 DEF CIInv, CacheTypeOK, Range
  <1>4. CacheTypeOK'
    BY <1>2, <1>3, EmptySeq DEF CIInv, CacheTypeOK
  <1>5. HasWhatItNeeds' /\ LoadsCovered' /\ UsingCounts' /\ Balanced'
    BY <1>2 DEF CIInv, HasWhatItNeeds, LoadsCovered, Loading, UsingCounts, Balanced
  <1>6. NothingInUseIsFreed' /\ CachedIsListed'
    BY <1>1, <1>2, <1>3 DEF NothingInUseIsFreed, CachedIsListed
  <1> QED BY <1>4, <1>5, <1>6 DEF CIInv

-----------------------------------------------------------------------------

(* The cache starts empty. *)
LEMMA CacheInitIInv == CacheInit => CIInv
  <1> SUFFICES ASSUME CacheInit PROVE CIInv
    OBVIOUS
  <1>1. Len(<<>>) = 0 /\ DOMAIN made = {} /\ <<>> \in Seq(Slot)
        /\ made \in Seq(Data)
    BY EmptySeq DEF CacheInit
  <1>2. CacheTypeOK
    <2>1. elements \in [Slot -> DOMAIN made \cup {Null}]
      BY DEF CacheInit
    <2>2. /\ recent_list \in Seq(Slot) /\ freed \subseteq DOMAIN made
          /\ current_cache \in Nat /\ loads \in 0 .. MaxLoads
      BY <1>1, CacheAssumption DEF CacheInit
    <2>3. /\ pc \in [Worker -> {"idle", "read", "insert", "cached", "own"}]
          /\ request \in [Worker -> File \cup {Null}]
          /\ file \in [Worker -> DOMAIN made \cup {Null}]
      BY DEF CacheInit
    <2>4. {crashed, released} \subseteq BOOLEAN
      <3>1. crashed \in BOOLEAN /\ released \in BOOLEAN
        BY DEF CacheInit
      <3> QED BY <3>1
    <2> QED BY <1>1, <2>1, <2>2, <2>3, <2>4 DEF CacheTypeOK, Data
  <1>3. HasWhatItNeeds /\ UsingCounts /\ NothingInUseIsFreed /\ CachedIsListed
    BY <1>1 DEF CacheInit, HasWhatItNeeds, UsingCounts, NothingInUseIsFreed,
                CachedIsListed, Null
  <1>4. LoadsCovered
    <2>1. Loading = {}
      BY DEF CacheInit, Loading
    <2> QED BY <1>1, <2>1, FS_EmptySet DEF CacheInit, LoadsCovered
  <1>5. Balanced
    BY TakesNothing DEF CacheInit, Balanced
  <1> QED BY <1>2, <1>3, <1>4, <1>5 DEF CIInv

(* Every step keeps the invariant. *)
LEMMA CacheNextIInv == CIInv /\ [CacheNext]_cacheVars => CIInv'
  <1> SUFFICES ASSUME CIInv, [CacheNext]_cacheVars PROVE CIInv'
    OBVIOUS
  <1>1. ASSUME NEW w \in Worker, Start(w), UNCHANGED released PROVE CIInv'
    BY <1>1, StartStep
  <1>2. ASSUME NEW w \in Worker, ReadFile(w) \/ RefuseFile(w), UNCHANGED released
        PROVE  CIInv'
    BY <1>2, ReadStep
  <1>3. ASSUME NEW w \in Worker, InsertFile(w), ~released, UNCHANGED released
        PROVE  CIInv'
    <2>1. /\ pc[w] = "insert"
          /\ InsertFinds(w, request[w]) \/ InsertNew(w, request[w])
          /\ pc' = [pc EXCEPT ![w] = "own"]
          /\ request' = [request EXCEPT ![w] = Null]
          /\ UNCHANGED loads
      BY <1>3 DEF InsertFile
    <2> QED BY <1>3, <2>1, InsertFindsStep, InsertNewStep
  <1>4. ASSUME NEW w \in Worker, Done(w), UNCHANGED released PROVE CIInv'
    BY <1>4, DoneStep
  <1>5. CASE ReleaseCache
    BY <1>5, ReleaseStep
  <1>6. CASE UNCHANGED cacheVars
    <2>1. /\ CacheTypeOK' /\ HasWhatItNeeds' /\ LoadsCovered' /\ UsingCounts'
      BY <1>6 DEF cacheVars, CIInv, CacheTypeOK, HasWhatItNeeds, LoadsCovered,
                  Loading, UsingCounts
    <2>2. /\ NothingInUseIsFreed' /\ CachedIsListed' /\ Balanced'
      BY <1>6 DEF cacheVars, CIInv, NothingInUseIsFreed, CachedIsListed, Balanced
    <2> QED BY <2>1, <2>2 DEF CIInv
  <1> QED BY <1>1, <1>2, <1>3, <1>4, <1>5, <1>6 DEF CacheNext

(* The inductive invariant holds for any number of workers, files, slots    *)
(* and requests, and whatever slots hash_key returns.                       *)
THEOREM CacheInvariance == CacheSpec => []CIInv
  BY CacheInitIInv, CacheNextIInv, PTL DEF CacheSpec

(* Type correctness: in particular current_cache is never negative. *)
THEOREM CacheTypeCorrectness == CacheSpec => []CacheTypeOK
  BY CacheInvariance, PTL DEF CIInv

(* The count of the users of an element is exact. *)
THEOREM UsersAreCounted == CacheSpec => []UsingCounts
  BY CacheInvariance, PTL DEF CIInv

(* No file is freed while a worker sends it, or while the table holds it.   *)
THEOREM FilesInUseAreKept == CacheSpec => []NothingInUseIsFreed
  BY CacheInvariance, PTL DEF CIInv

(* Every cached file is in the list from which cache_evict chooses. *)
THEOREM CachedFilesAreListed == CacheSpec => []CachedIsListed
  BY CacheInvariance, PTL DEF CIInv

(* Until the release, current_cache is the memory that the file data of all *)
(* elements made and not freed takes, replaced and lost ones included.      *)
THEOREM SizesAreAccounted == CacheSpec => []AccountsForSizes
  <1>1. CIInv => AccountsForSizes
    BY CacheTypes, TakesIsAllocated DEF CIInv, Balanced, AccountsForSizes
  <1> QED BY <1>1, CacheInvariance, PTL

=============================================================================
