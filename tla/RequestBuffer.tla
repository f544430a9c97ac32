---------------------------- MODULE RequestBuffer ----------------------------
(***************************************************************************)
(* The main thread and the worker threads of webserver/server_thread.c, and *)
(* the request buffer between them.  The mutex l protects the buffer; the    *)
(* field exiting is read and written without it.  A step is what a thread    *)
(* does between two points at which another can matter: taking or giving up  *)
(* the mutex, and reading or writing exiting.                                *)
(*                                                                          *)
(* pc[t] is the place of thread t:                                           *)
(*   "top"     a worker, before it looks at exiting                          *)
(*   "lock"    about to lock the mutex                                       *)
(*   "test"    holds the mutex and tests the buffer                          *)
(*   "wait"    in pthread_cond_wait: a worker on empty, main on full         *)
(*   "relock"  woken in pthread_cond_wait, about to lock the mutex again     *)
(*   "check"   a worker back from pthread_cond_wait, before it looks at      *)
(*             exiting, with the mutex                                       *)
(*   "serve"   in do_server_request                                          *)
(*   "exited"  a worker that called pthread_exit                             *)
(*   "accept", "exit", "broadcast", "join", "done": main only                *)
(***************************************************************************)
EXTENDS Integers, Sequences, FiniteSets

CONSTANTS
  Worker,        \* the worker threads there may be
  Main,          \* the thread that runs main
  MaxRequests,   \* max_requests, the third argument of the server
  MaxAccepted,   \* bound of the model: how many clients connect
  MayExit        \* bound of the model: whether the fifo is ever written

Free == "free"   \* what nobody holds

ASSUME BufferAssumption ==
  /\ Main \notin Worker /\ Free \notin Worker \cup {Main}
  /\ MaxRequests \in Nat /\ MaxAccepted \in Nat
  /\ MayExit \in BOOLEAN

VARIABLES
  threads,    \* the workers created: nr_threads is their number
  bufferq,    \* the ring of max_requests + 1 slots
  in, out,
  mutex,      \* who holds l
  exiting,
  pc,
  elem,       \* the request each thread is about to hand over or to serve
  accepted,   \* how many connections main accepted: a request is its number
  served      \* the requests do_server_request returned from

bufVars == <<threads, bufferq, in, out, mutex, exiting, pc, elem, accepted, served>>

Thread == Worker \cup {Main}
Size == MaxRequests + 1
Request == 0 .. MaxAccepted   \* 0 is what an unwritten slot holds

WorkerPlace == {"top", "lock", "test", "wait", "relock", "check", "serve", "exited"}
MainPlace == {"accept", "lock", "test", "wait", "relock", "serve",
              "exit", "broadcast", "join", "done"}

(* server_init, for any number of worker threads. *)
BufInit ==
  /\ threads \in SUBSET Worker
  /\ bufferq = [i \in 0 .. MaxRequests |-> 0]
  /\ in = 0 /\ out = 0
  /\ mutex = Free
  /\ exiting = FALSE
  /\ pc = [t \in Thread |-> IF t = Main THEN "accept"
                            ELSE IF t \in threads THEN "top" ELSE "exited"]
  /\ elem = [t \in Thread |-> 0]
  /\ accepted = 0
  /\ served = {}

IsEmpty == in = out
Occupancy == (in - out + Size) % Size

(* Mutant: in - out taken as it is, which is negative once in has wrapped. *)
IsFullMutant == in - out = MaxRequests

IsFull == Occupancy = MaxRequests

-----------------------------------------------------------------------------
(* The pthread mutex and condition variables, as the code uses them. *)

Lock(t) ==
  /\ pc[t] \in {"lock", "relock"}
  /\ mutex = Free
  /\ mutex' = t
  /\ pc' = [pc EXCEPT ![t] = IF @ = "relock" /\ t # Main THEN "check" ELSE "test"]
  /\ UNCHANGED <<threads, bufferq, in, out, exiting, elem, accepted, served>>

(* Thread t moves to a place and wakes one of the waiting threads, if any. *)
MoveAndSignal(t, place, waiters) ==
  IF waiters = {}
    THEN pc' = [pc EXCEPT ![t] = place]
    ELSE \E w \in waiters : pc' = [pc EXCEPT ![t] = place, ![w] = "relock"]

OnEmpty == {w \in Worker : pc[w] = "wait"}
OnFull == {t \in {Main} : pc[t] = "wait"}

(* POSIX lets pthread_cond_wait return without a signal. *)
SpuriousWakeup(t) ==
  /\ pc[t] = "wait"
  /\ pc' = [pc EXCEPT ![t] = "relock"]
  /\ UNCHANGED <<threads, bufferq, in, out, mutex, exiting, elem, accepted, served>>

(* pthread_cond_wait gives up the mutex and waits in one step. *)
CondWait(t) ==
  /\ mutex' = Free
  /\ pc' = [pc EXCEPT ![t] = "wait"]
  /\ UNCHANGED <<threads, bufferq, in, out, exiting, elem, accepted, served>>

-----------------------------------------------------------------------------
(* server_response, the consumers. *)

Top(w) ==
  /\ pc[w] = "top"
  /\ pc' = [pc EXCEPT ![w] = IF exiting THEN "exited" ELSE "lock"]
  /\ UNCHANGED <<threads, bufferq, in, out, mutex, exiting, elem, accepted, served>>

(* Mutant: empty is signalled where main waits on full. *)
TakeMutant(w) ==
  /\ elem' = [elem EXCEPT ![w] = bufferq[out]]
  /\ out' = (out + 1) % Size
  /\ MoveAndSignal(w, "serve", OnEmpty)
  /\ mutex' = Free
  /\ UNCHANGED <<threads, bufferq, in, exiting, accepted, served>>

Take(w) ==
  /\ elem' = [elem EXCEPT ![w] = bufferq[out]]
  /\ out' = (out + 1) % Size
  /\ MoveAndSignal(w, "serve", OnFull)
  /\ mutex' = Free
  /\ UNCHANGED <<threads, bufferq, in, exiting, accepted, served>>

WorkerTest(w) ==
  /\ pc[w] = "test"
  /\ \/ IsEmpty /\ CondWait(w)
     \/ ~IsEmpty /\ Take(w)

LeaveOnExit(w) ==
  /\ pc[w] = "check" /\ exiting
  /\ mutex' = Free
  /\ pc' = [pc EXCEPT ![w] = "exited"]
  /\ UNCHANGED <<threads, bufferq, in, out, exiting, elem, accepted, served>>

(* Mutant: if instead of while, a woken worker does not test again. *)
TestAgainMutant(w) ==
  pc[w] = "check" /\ ~exiting /\ Take(w)

TestAgain(w) ==
  /\ pc[w] = "check" /\ ~exiting
  /\ pc' = [pc EXCEPT ![w] = "test"]
  /\ UNCHANGED <<threads, bufferq, in, out, mutex, exiting, elem, accepted, served>>

Serve(w) ==
  /\ pc[w] = "serve"
  /\ served' = served \cup {elem[w]}
  /\ pc' = [pc EXCEPT ![w] = IF w = Main THEN "accept" ELSE "top"]
  /\ UNCHANGED <<threads, bufferq, in, out, mutex, exiting, elem, accepted>>

-----------------------------------------------------------------------------
(* main and server_request, the producer; server_exit. *)

Accept ==
  /\ pc[Main] = "accept"
  /\ accepted < MaxAccepted
  /\ accepted' = accepted + 1
  /\ elem' = [elem EXCEPT ![Main] = accepted']
  /\ pc' = [pc EXCEPT ![Main] = IF threads = {} THEN "serve" ELSE "lock"]
  /\ UNCHANGED <<threads, bufferq, in, out, mutex, exiting, served>>

(* Mutant: in runs past the last slot. *)
PutMutant1 ==
  /\ bufferq' = [bufferq EXCEPT ![in] = elem[Main]]
  /\ in' = in + 1
  /\ MoveAndSignal(Main, "accept", OnEmpty)
  /\ mutex' = Free
  /\ UNCHANGED <<threads, out, exiting, elem, accepted, served>>

(* Mutant: no worker is signalled. *)
PutMutant2 ==
  /\ bufferq' = [bufferq EXCEPT ![in] = elem[Main]]
  /\ in' = (in + 1) % Size
  /\ MoveAndSignal(Main, "accept", {})
  /\ mutex' = Free
  /\ UNCHANGED <<threads, out, exiting, elem, accepted, served>>

Put ==
  /\ bufferq' = [bufferq EXCEPT ![in] = elem[Main]]
  /\ in' = (in + 1) % Size
  /\ MoveAndSignal(Main, "accept", OnEmpty)
  /\ mutex' = Free
  /\ UNCHANGED <<threads, out, exiting, elem, accepted, served>>

MainTest ==
  /\ pc[Main] = "test"
  /\ \/ IsFull /\ CondWait(Main)
     \/ ~IsFull /\ Put

(* The fifo is written: main leaves its loop and calls server_exit. *)
ExitRequested ==
  /\ MayExit
  /\ pc[Main] = "accept"
  /\ pc' = [pc EXCEPT ![Main] = "exit"]
  /\ UNCHANGED <<threads, bufferq, in, out, mutex, exiting, elem, accepted, served>>

SetExiting ==
  /\ pc[Main] = "exit"
  /\ exiting' = TRUE
  /\ pc' = [pc EXCEPT ![Main] = "broadcast"]
  /\ UNCHANGED <<threads, bufferq, in, out, mutex, elem, accepted, served>>

Broadcast ==
  /\ pc[Main] = "broadcast"
  /\ pc' = [t \in Thread |-> IF t = Main THEN "join"
                             ELSE IF t \in OnEmpty THEN "relock" ELSE pc[t]]
  /\ UNCHANGED <<threads, bufferq, in, out, mutex, exiting, elem, accepted, served>>

Join ==
  /\ pc[Main] = "join"
  /\ \A w \in threads : pc[w] = "exited"
  /\ pc' = [pc EXCEPT ![Main] = "done"]
  /\ UNCHANGED <<threads, bufferq, in, out, mutex, exiting, elem, accepted, served>>

-----------------------------------------------------------------------------

WorkerStep(w) ==
  Top(w) \/ Lock(w) \/ WorkerTest(w) \/ LeaveOnExit(w) \/ TestAgain(w) \/ Serve(w)

ServerStep ==
  Lock(Main) \/ MainTest \/ Serve(Main) \/ SetExiting \/ Broadcast \/ Join

BufNext ==
  \/ \E w \in Worker : WorkerStep(w)
  \/ ServerStep
  \/ Accept
  \/ ExitRequested
  \/ \E t \in Thread : SpuriousWakeup(t)

BufSpec == BufInit /\ [][BufNext]_bufVars

(* Threads that can go on do, a thread that wants a mutex that is given up   *)
(* again and again gets it, and a request takes finite time.  Nothing forces *)
(* a client to connect, the fifo to be written or a wakeup to be spurious.   *)
BufFairness ==
  /\ \A w \in Worker : WF_bufVars(WorkerStep(w)) /\ SF_bufVars(Lock(w))
  /\ WF_bufVars(ServerStep) /\ SF_bufVars(Lock(Main))

FairBufSpec == BufSpec /\ BufFairness

-----------------------------------------------------------------------------
(* Properties. *)

(* The type invariant: in and out stay inside the ring, and a place that    *)
(* needs the mutex is the holder's.                                          *)
BufTypeOK ==
  /\ threads \subseteq Worker
  /\ bufferq \in [0 .. MaxRequests -> Request]
  /\ in \in 0 .. MaxRequests /\ out \in 0 .. MaxRequests
  /\ exiting \in BOOLEAN
  /\ pc \in [Thread -> MainPlace \cup WorkerPlace]
  /\ pc[Main] \in MainPlace /\ \A w \in Worker : pc[w] \in WorkerPlace
  /\ \A t \in Thread : pc[t] \in {"test", "check"} <=> mutex = t
  /\ elem \in [Thread -> Request]
  /\ accepted \in Request
  /\ served \subseteq Request

(* The slots of the ring between out and in, oldest first. *)
Waiting == [i \in 1 .. Occupancy |-> bufferq[(out + i - 1) % Size]]

HandingOver == pc[Main] \in {"lock", "test", "wait", "relock"}
Admitted == IF HandingOver THEN accepted - 1 ELSE accepted
Serving == {t \in Thread : pc[t] = "serve"}

(* Every accepted request is in exactly one place: with main, in one slot of *)
(* the ring, with one thread that serves it, or served; so none is dropped   *)
(* or served twice, whatever order the wakeups come in.                      *)
EachRequestOnce ==
  \A r \in 1 .. accepted :
    (IF HandingOver /\ elem[Main] = r THEN 1 ELSE 0)
    + Cardinality({i \in 1 .. Occupancy : Waiting[i] = r})
    + Cardinality({t \in Serving : elem[t] = r})
    + (IF r \in served THEN 1 ELSE 0) = 1

(* No wakeup is lost while the server runs: if requests are in the ring some *)
(* worker is awake to take one, and if main waits on full the ring is full.  *)
NoLostWakeup ==
  ~exiting =>
    /\ ~IsEmpty => \E w \in threads : pc[w] \notin {"wait", "exited"}
    /\ pc[Main] = "wait" => IsFull

Queue == INSTANCE RequestQueue
           WITH Capacity <- MaxRequests, arrived <- Admitted,
                waiting <- Waiting, serving <- {elem[t] : t \in Serving}

(* The ring, the mutex and the two condition variables are a bounded queue:  *)
(* requests are taken in the order of their arrival, at most max_requests    *)
(* wait, and each is served once.                                            *)
BoundedFifo == Queue!QueueSpec

(* Every request that is accepted is served, unless the server exits.        *)
EveryRequestServed ==
  \A r \in 1 .. MaxAccepted : accepted >= r ~> (r \in served \/ exiting)

(* server_exit returns: the main thread does not wait forever for workers.   *)
ExitCompletes == pc[Main] = "exit" ~> pc[Main] = "done"

=============================================================================
