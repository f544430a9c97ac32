------------------------------ MODULE FileCache ------------------------------
(***************************************************************************)
(* The file cache of webserver/server_thread.c: do_server_request, as       *)
(* several workers run it, the open-addressing hash table and the list of   *)
(* its slots in the order of their use.                                      *)
(*                                                                          *)
(* What a worker does under the mutex lo is one step.  Elements of the      *)
(* table are numbered in the order of their creation; 0 stands for NULL.    *)
(* An element is never freed, its key and its file data are.                *)
(*                                                                          *)
(* pc[w] is where worker w is:                                               *)
(*   "idle"    between two requests                                         *)
(*   "read"    missed the cache, in request_readfile for request[w]         *)
(*   "insert"  has read request[w], about to insert it                      *)
(*   "cached"  sends the file data of the element file[w]                   *)
(*   "own"     sends the file data it read; file[w] may be NULL             *)
(***************************************************************************)
EXTENDS Integers, SequencesExt, FiniteSetsExt

CONSTANTS
  Worker, File,
  SizeOf,          \* the size of each file
  Places,          \* for each file the slots hash_key may return: its c is
                   \* uninitialised
  TableSize,       \* the slots of the table, 2200000 in the code
  MaxCacheSize,    \* max_cache_size
  MaxLoads         \* bound of the model: how many requests come

Slot == 0 .. TableSize - 1

ASSUME CacheAssumption ==
  /\ IsFiniteSet(Worker)
  /\ SizeOf \in [File -> Nat] /\ MaxCacheSize \in Nat \ {0}
  /\ TableSize \in Nat /\ MaxLoads \in Nat
  /\ MaxLoads < TableSize   \* so that a search ends, as in the huge table
  /\ Places \in [File -> SUBSET Slot] /\ \A f \in File : Places[f] # {}

VARIABLES
  elements,        \* the element in each slot of the table
  recent_list,     \* the slots in the list, the least recently used first
  current_cache,   \* the sizes added up
  made,            \* the elements, in the order of their creation
  freed,           \* the elements whose file data and key were freed
  pc, request, file,
  loads,           \* how many requests came
  crashed,         \* a freed list node led the program astray
  released         \* server_exit has freed the cache

cacheVars == <<elements, recent_list, current_cache, made, freed,
               pc, request, file, loads, crashed, released>>

Null == 0

CacheInit ==
  /\ elements = [s \in Slot |-> Null]
  /\ recent_list = <<>>
  /\ current_cache = 0
  /\ made = <<>>
  /\ freed = {}
  /\ pc = [w \in Worker |-> "idle"]
  /\ request = [w \in Worker |-> Null]
  /\ file = [w \in Worker |-> Null]
  /\ loads = 0
  /\ crashed = FALSE
  /\ released = FALSE

-----------------------------------------------------------------------------

(* The slot at which a search for f that starts at slot h ends.             *)
Probe(table, h, f) ==
  LET at(i) == (h + i) % TableSize
      ends(i) == table[at(i)] = Null \/ made[table[at(i)]].key = f
  IN  at(CHOOSE i \in Slot : ends(i) /\ \A j \in 0 .. i - 1 : ~ends(j))

(* What cache_lookup may return for f. *)
Lookups(f) == {elements[Probe(elements, h, f)] : h \in Places[f]}

(* The indexes in the list of those nodes for slot s that dequeue looks at: *)
(* all but the last node of the list.                                       *)
DequeueMatches(list, s) == {i \in 1 .. Len(list) - 1 : list[i] = s}

Dequeue(list, s) ==
  IF DequeueMatches(list, s) = {} THEN list
  ELSE RemoveAt(list, Min(DequeueMatches(list, s)))

(* Mutant: the node goes from the list and does not come back. *)
CacheFixMutant(list, s) == Dequeue(list, s)

CacheFix(list, s) == Append(Dequeue(list, s), s)

(* Mutant: a file is evicted although a worker sends it. *)
EvictableMutant ==
  {i \in DOMAIN recent_list : elements[recent_list[i]] # Null}

(* The list nodes whose slot holds an element that no worker uses.          *)
Evictable ==
  {i \in DOMAIN recent_list :
     elements[recent_list[i]] # Null /\ made[elements[recent_list[i]]].using = 0}

(* Mutant: the size of the evicted file is not subtracted. *)
RefundMutant(cache, f) == cache

(* current_cache once f is evicted. *)
Refund(cache, f) == cache - SizeOf[f]

Keep ==
  [table |-> elements, list |-> recent_list, cache |-> current_cache,
   gone |-> {}, astray |-> FALSE]

(* cache_evict, to make room for a file of that size.  It evicts the first  *)
(* element it can.  dequeue then frees the list node, unless it is the last *)
(* one, and the loop goes on from that node: it ends if there is room now,  *)
(* and otherwise follows the next field of a freed node, which dequeue had  *)
(* set to NULL.                                                             *)
Evict(size) ==
  IF Evictable = {} THEN Keep
  ELSE LET i     == Min(Evictable)
           s     == recent_list[i]
           last  == i = Len(recent_list)
           cache == Refund(current_cache, made[elements[s]].key)
       IN  [table  |-> [elements EXCEPT ![s] = Null],
            list   |-> Dequeue(recent_list, s),
            cache  |-> cache,
            gone   |-> {elements[s]},
            astray |-> ~last /\ MaxCacheSize - cache < size]

-----------------------------------------------------------------------------
(* do_server_request with a cache. *)

(* Mutant: the worker of a file it found does not count. *)
UsesMutant(e) == made

Uses(e) == [made EXCEPT ![e].using = @ + 1]

(* The first section under the mutex: the file is in the cache, or is not.  *)
Start(w) ==
  /\ pc[w] = "idle" /\ loads < MaxLoads
  /\ loads' = loads + 1
  /\ \E f \in File : \E e \in Lookups(f) :
       \/ /\ e = Null
          /\ pc' = [pc EXCEPT ![w] = "read"]
          /\ request' = [request EXCEPT ![w] = f]
          /\ UNCHANGED <<recent_list, made, file>>
       \/ /\ e # Null
          /\ pc' = [pc EXCEPT ![w] = "cached"]
          /\ made' = Uses(e)
          /\ recent_list' = CacheFix(recent_list, made[e].hash_num)
          /\ file' = [file EXCEPT ![w] = e]
          /\ UNCHANGED request
  /\ UNCHANGED <<elements, current_cache, freed, crashed>>

(* request_readfile has read the file. *)
ReadFile(w) ==
  /\ pc[w] = "read"
  /\ pc' = [pc EXCEPT ![w] = "insert"]
  /\ UNCHANGED <<elements, recent_list, current_cache, made, freed,
                 request, file, loads, crashed>>

(* request_readfile refused the request. *)
RefuseFile(w) ==
  /\ pc[w] = "read"
  /\ pc' = [pc EXCEPT ![w] = "idle"]
  /\ request' = [request EXCEPT ![w] = Null]
  /\ UNCHANGED <<elements, recent_list, current_cache, made, freed,
                 file, loads, crashed>>

(* cache_insert finds f there, put by another worker meanwhile.  Each of    *)
(* its calls of cache_lookup may find something else, so that it may return *)
(* NULL in the end.                                                         *)
InsertFinds(w, f) ==
  /\ Lookups(f) # {Null}
  /\ \E e \in Lookups(f) :
       /\ file' = [file EXCEPT ![w] = e]
       /\ \/ /\ e = Null
             /\ UNCHANGED <<made, recent_list>>
          \/ /\ e # Null
             /\ made' = Uses(e)
             /\ recent_list' = CacheFix(recent_list, made[e].hash_num)
  /\ UNCHANGED <<elements, current_cache, freed, crashed>>

(* Mutant: the size of the new file is not added. *)
ChargeMutant(cache, f) == cache

(* current_cache once f is inserted. *)
Charge(cache, f) == cache + SizeOf[f]

(* table_insert of a file that is not too big, in the table as cache_evict  *)
(* left it; then cache_fix.  An element of f that the search ends at is     *)
(* replaced, and its file data stays allocated.                             *)
TableInsert(w, f, kept) ==
  \E h \in Places[f] :
    LET s == Probe(kept.table, h, f)
        e == Len(made) + 1
    IN  /\ made' = Append(made, [key |-> f, using |-> 1, hash_num |-> s])
        /\ elements' = [kept.table EXCEPT ![s] = e]
        /\ current_cache' = Charge(kept.cache, f)
        /\ recent_list' = CacheFix(Append(kept.list, s), s)
        /\ file' = [file EXCEPT ![w] = e]

(* A file larger than the whole cache evicts another one all the same. *)
TooBig(w, kept) ==
  /\ elements' = kept.table
  /\ recent_list' = kept.list
  /\ current_cache' = kept.cache
  /\ file' = [file EXCEPT ![w] = Null]
  /\ UNCHANGED made

(* cache_insert does not find f.  In the state after a crash nothing else     *)
(* but crashed means anything.                                              *)
InsertNew(w, f) ==
  LET kept == IF SizeOf[f] > MaxCacheSize - current_cache
              THEN Evict(SizeOf[f]) ELSE Keep
  IN  /\ Null \in Lookups(f)
      /\ \/ SizeOf[f] <= MaxCacheSize /\ TableInsert(w, f, kept)
         \/ SizeOf[f] > MaxCacheSize /\ TooBig(w, kept)
      /\ freed' = freed \cup kept.gone
      /\ crashed' \in IF kept.astray THEN BOOLEAN ELSE {FALSE}

(* The second section under the mutex. *)
InsertFile(w) ==
  /\ pc[w] = "insert"
  /\ InsertFinds(w, request[w]) \/ InsertNew(w, request[w])
  /\ pc' = [pc EXCEPT ![w] = "own"]
  /\ request' = [request EXCEPT ![w] = Null]
  /\ UNCHANGED loads

(* The last section under the mutex, when the file is sent. *)
Done(w) ==
  /\ pc[w] \in {"cached", "own"}
  /\ pc' = [pc EXCEPT ![w] = "idle"]
  /\ file' = [file EXCEPT ![w] = Null]
  /\ made' = IF file[w] = Null THEN made
             ELSE [made EXCEPT ![file[w]].using = @ - 1]
  /\ UNCHANGED <<elements, recent_list, current_cache, freed, request,
                 loads, crashed>>

(* server_exit, once its workers have left: what the table holds is freed,  *)
(* what was replaced in it is not.                                          *)
ReleaseCache ==
  /\ \A w \in Worker : pc[w] = "idle"
  /\ freed' = freed \cup (Range(elements) \ {Null})
  /\ elements' = [s \in Slot |-> Null]
  /\ recent_list' = <<>>
  /\ released' = TRUE
  /\ UNCHANGED <<current_cache, made, pc, request, file, loads, crashed>>

CacheNext ==
  /\ ~crashed /\ ~released
  /\ \/ \E w \in Worker :
          /\ Start(w) \/ ReadFile(w) \/ RefuseFile(w) \/ InsertFile(w) \/ Done(w)
          /\ UNCHANGED released
     \/ ReleaseCache

CacheSpec == CacheInit /\ [][CacheNext]_cacheVars

-----------------------------------------------------------------------------
(* Properties.  Once a freed list node has led the program astray, nothing  *)
(* is said of it.                                                           *)

(* Everything has its type; in particular the sum of the sizes, which is    *)
(* added to and subtracted from in different places, is never negative.     *)
CacheTypeOK ==
  /\ elements \in [Slot -> DOMAIN made \cup {Null}]
  /\ recent_list \in Seq(Slot)
  /\ current_cache \in Nat
  /\ made \in Seq([key : File, using : Nat, hash_num : Slot])
  /\ freed \subseteq DOMAIN made
  /\ pc \in [Worker -> {"idle", "read", "insert", "cached", "own"}]
  /\ request \in [Worker -> File \cup {Null}]
  /\ file \in [Worker -> DOMAIN made \cup {Null}]
  /\ loads \in 0 .. MaxLoads
  /\ {crashed, released} \subseteq BOOLEAN

(* The count of the users of an element is that of the workers between the  *)
(* section that found or made it and the one that lets it go: the two are   *)
(* sections of different lock holders, in any order.                        *)
UsingCounts ==
  \A e \in DOMAIN made :
    made[e].using = Cardinality({w \in Worker : file[w] = e})

(* No element is freed while a worker sends its file data without the       *)
(* mutex, and none that the table still holds.                              *)
NothingInUseIsFreed ==
  /\ \A w \in Worker : file[w] \notin freed
  /\ \A s \in Slot : elements[s] \notin freed

(* Every element of the table can be evicted: it knows its slot, and the    *)
(* list has a node for that slot, whatever nodes dequeue missed or took.    *)
CachedIsListed ==
  \A s \in Slot : elements[s] # Null =>
    /\ made[elements[s]].hash_num = s
    /\ s \in Range(recent_list)

(* The memory that the file data of the first n elements takes. *)
Allocated[n \in 0 .. Len(made)] ==
  IF n = 0 THEN 0
  ELSE Allocated[n - 1] + (IF n \in freed THEN 0 ELSE SizeOf[made[n].key])

(* Until the release, current_cache is the memory that the file data of all *)
(* elements made and not freed takes: also of those that were replaced, or  *)
(* inserted a second time, and are lost to the table.                       *)
AccountsForSizes == ~released => current_cache = Allocated[Len(made)]

=============================================================================
