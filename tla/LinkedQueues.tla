----------------------------- MODULE LinkedQueues -----------------------------
(***************************************************************************)
(* The lists of threads/thread.c as they lie in memory, and the signal mask. *)
(* The ready queue, the queue of exited threads and the wait queues are      *)
(* chained through the next field of the threads and spliced by hand.  The   *)
(* steps are those of ThreadSched, which this module is shown to implement;  *)
(* see there for ctx and status.                                             *)
(*                                                                           *)
(* The size fields of readyq and killq are wrong in several places and read  *)
(* nowhere; they are left out.  The size of a wait queue is what             *)
(* thread_wakeup returns.                                                    *)
(***************************************************************************)
EXTENDS Integers, SequencesExt

CONSTANTS MaxThreads, Queues,
          Maskers,  \* the threads whose own code blocks SIGALRM
          Victims   \* the threads that may be killed

Tid == 0 .. MaxThreads - 1
WaitQueues == Tid \cup Queues
NULL == -9

ASSUME LinkedAssumption == MaxThreads \in Nat \ {0} /\ Queues \cap Tid = {}

VARIABLES
  exists, current, ctx, setcontext_called, status,   \* as in ThreadSched
  next,      \* the next field of each thread
  readyhead, \* readyq->head
  killhead,  \* killq->head
  head,      \* the head field of each wait queue
  size,      \* and its size field
  leaked,    \* the heads of wait queues that no pointer leads to any more
  masked,    \* SIGALRM is blocked
  enabled,   \* the local of that name of the call each thread is in
  wants      \* whether each thread, in its own code, blocked SIGALRM

lists == <<next, readyhead, killhead, head, size, leaked>>
mask == <<masked, enabled, wants>>
vars == <<exists, current, ctx, setcontext_called, status, lists, mask>>

(* The threads in the list that starts with p, when nx is the next field.   *)
(* A chain that ran in circles would have no value.                         *)
Chain(nx, p) ==
  LET walk[t \in Tid] == IF nx[t] = NULL THEN <<t>> ELSE <<t>> \o walk[nx[t]]
  IN IF p = NULL THEN <<>> ELSE walk[p]

Ready == Chain(next, readyhead)
Zombies == Chain(next, killhead)
Sleepers(q) == Chain(next, head[q])
Stranded == UNION {Range(Chain(next, h)) : h \in leaked}

Sched == INSTANCE ThreadSched WITH
  ready <- Ready, killq <- Zombies, stranded <- Stranded,
  wq <- [q \in WaitQueues |-> Sleepers(q)]

LinkedInit ==
  /\ exists = {0}
  /\ current = 0
  /\ ctx = [t \in Tid |-> "run"]
  /\ setcontext_called = 0
  /\ status = "up"
  /\ next = [t \in Tid |-> NULL]
  /\ readyhead = NULL /\ killhead = NULL
  /\ head = [q \in WaitQueues |-> NULL]
  /\ size = [q \in WaitQueues |-> 0]
  /\ leaked = {}
  /\ masked = FALSE
  /\ enabled = [t \in Tid |-> FALSE]
  /\ wants = [t \in Tid |-> FALSE]

-----------------------------------------------------------------------------
(* Operations on a list l, that is its head and the next fields.            *)

List(h) == [head |-> h, next |-> next]

(* The list that starts with p is hung behind the last thread of l. *)
Splice(l, p) ==
  IF l.head = NULL
    THEN [l EXCEPT !.head = p]
    ELSE [l EXCEPT !.next[Last(Chain(l.next, l.head))] = p]

(* enqueue. *)
Enqueue(l, enter) == [Splice(l, enter) EXCEPT !.next[enter] = NULL]

(* wait_enqueue leaves enter->next as it is. *)
WaitEnqueue(l, enter) == Splice(l, enter)

Behead(l) == [head |-> l.next[l.head], next |-> [l.next EXCEPT ![l.head] = NULL]]

(* Mutant: the predecessor still points to the thread. *)
DequeueMutant(l, leave) ==
  IF l.next[l.head] = NULL \/ l.head = leave
    THEN Behead(l)
    ELSE [l EXCEPT !.next[leave] = NULL]

(* dequeue; a single element goes whatever leave is. *)
Dequeue(l, leave) ==
  IF l.next[l.head] = NULL \/ l.head = leave
    THEN Behead(l)
    ELSE LET prev == CHOOSE p \in Range(Chain(l.next, l.head)) : l.next[p] = leave
         IN [l EXCEPT !.next = [l.next EXCEPT ![prev] = l.next[leave], ![leave] = NULL]]

Becomes(l) == readyhead' = l.head /\ next' = l.next

-----------------------------------------------------------------------------

InUser == status = "up" /\ ctx[current] = "run"

(* The current thread gives up the processor inside a call: interrupts_off   *)
(* returned whether SIGALRM was enabled, and every context is saved with it  *)
(* blocked.                                                                  *)
Suspend(saved) ==
  /\ ctx' = [ctx EXCEPT ![current] = saved]
  /\ enabled' = [enabled EXCEPT ![current] = ~masked]
  /\ masked' = TRUE
  /\ UNCHANGED wants

(* It continues, and interrupts_set restores what interrupts_off found.  If  *)
(* the call was made by the handler, its return does.                        *)
Restore ==
  /\ ctx' = [ctx EXCEPT ![current] = "run"]
  /\ masked' = ~enabled[current]
  /\ enabled' = [enabled EXCEPT ![current] = FALSE]   \* the local is gone
  /\ UNCHANGED wants

(* interrupts_on and interrupts_off, called by the program. *)
SetMask ==
  /\ InUser /\ current \in Maskers
  /\ \E off \in BOOLEAN : masked' = off /\ wants' = [wants EXCEPT ![current] = off]
  /\ UNCHANGED <<exists, current, ctx, setcontext_called, status, lists, enabled>>

(* Mutant: the stub does not enable SIGALRM. *)
ThreadStubMutant ==
  /\ status = "up" /\ ctx[current] = "stub"
  /\ ctx' = [ctx EXCEPT ![current] = "run"]
  /\ UNCHANGED <<exists, current, setcontext_called, status, lists, mask>>

ThreadStub ==
  /\ status = "up" /\ ctx[current] = "stub"
  /\ ctx' = [ctx EXCEPT ![current] = "run"]
  /\ masked' = FALSE
  /\ UNCHANGED <<exists, current, setcontext_called, status, lists, enabled, wants>>

ThreadCreate ==
  /\ InUser
  /\ \E id \in Tid \ exists :
       /\ \A other \in Tid \ exists : id <= other
       /\ exists' = exists \cup {id}
       /\ Becomes(Enqueue([head |-> readyhead, next |-> [next EXCEPT ![id] = NULL]], id))
       /\ head' = [head EXCEPT ![id] = NULL]
       /\ size' = [size EXCEPT ![id] = 0]
       /\ ctx' = [ctx EXCEPT ![id] = "stub"]
       /\ wants' = [wants EXCEPT ![id] = FALSE]
  /\ UNCHANGED <<current, setcontext_called, status, killhead, leaked, masked, enabled>>

(* Mutant: the head of killq still points to what was freed. *)
KillExitThreadsMutant ==
  /\ exists' = exists \ Range(Zombies)
  /\ head' = [q \in WaitQueues |-> IF q \in Range(Zombies) THEN NULL ELSE head[q]]
  /\ size' = [q \in WaitQueues |-> IF q \in Range(Zombies) THEN 0 ELSE size[q]]
  /\ leaked' = leaked \cup ({head[z] : z \in Range(Zombies)} \ {NULL})
  /\ UNCHANGED killhead

(* kill_exit_threads: the wait queues of the freed threads leak. *)
KillExitThreads ==
  /\ exists' = exists \ Range(Zombies)
  /\ killhead' = NULL
  /\ head' = [q \in WaitQueues |-> IF q \in Range(Zombies) THEN NULL ELSE head[q]]
  /\ size' = [q \in WaitQueues |-> IF q \in Range(Zombies) THEN 0 ELSE size[q]]
  /\ leaked' = leaked \cup ({head[z] : z \in Range(Zombies)} \ {NULL})

-----------------------------------------------------------------------------

YieldAlone(want) ==
  /\ \/ want \notin Sched!THREAD_SELF .. MaxThreads
     \/ readyhead = NULL /\ want \notin {current, Sched!THREAD_SELF}
  /\ UNCHANGED <<current, ctx, setcontext_called, status, next, readyhead, mask>>

(* The ready queue becomes l, the current thread goes behind it and t runs. *)
SwitchTo(t, l, saved) ==
  /\ Becomes([Enqueue(l, current) EXCEPT !.next[t] = NULL])
  /\ current' = t
  /\ setcontext_called' = 1
  /\ Suspend(saved)

(* The head is taken off without a reset of its next field; that comes      *)
(* after the current thread has been queued.                                *)
YieldAny(want) ==
  /\ want = Sched!THREAD_ANY
  /\ readyhead # NULL
  /\ SwitchTo(readyhead, [List(readyhead) EXCEPT !.head = next[readyhead]], "any")
  /\ UNCHANGED status

YieldSelf(want) ==
  /\ want \in {current, Sched!THREAD_SELF}
  /\ setcontext_called' = 1
  /\ UNCHANGED <<current, ctx, status, next, readyhead, mask>>

(* search_t finds the thread. *)
YieldTo(want) ==
  /\ want \in Range(Ready) \ {current}
  /\ SwitchTo(want, Dequeue(List(readyhead), want), "tid")
  /\ UNCHANGED status

(* search_t returns NULL if there is one thread; if there are more its loop *)
(* reads find->id before it compares find with NULL.                        *)
YieldAbsent(want) ==
  /\ want \in 0 .. MaxThreads \ (Range(Ready) \cup {current})
  /\ readyhead # NULL
  /\ setcontext_called' = 0
  /\ status' = IF next[readyhead] = NULL THEN "up" ELSE "segv"
  /\ UNCHANGED <<current, ctx, next, readyhead, mask>>

ThreadYield(want) ==
  /\ InUser
  /\ KillExitThreads
  /\ \/ YieldAlone(want) \/ YieldAny(want) \/ YieldSelf(want)
     \/ YieldTo(want) \/ YieldAbsent(want)

InterruptHandler == ~masked /\ ThreadYield(Sched!THREAD_ANY)

ResumeYield ==
  /\ status = "up" /\ ctx[current] \in {"any", "tid"}
  /\ IF setcontext_called = 1
       THEN Restore /\ UNCHANGED status
       ELSE status' = "corrupt" /\ UNCHANGED <<ctx, mask>>
  /\ UNCHANGED <<exists, current, setcontext_called, lists>>

-----------------------------------------------------------------------------

(* Mutant: the size of the queue is set for its first thread only. *)
GoToSleepMutant(q, saved) ==
  /\ readyhead # NULL
  /\ LET l == WaitEnqueue(List(head[q]), current)
     IN /\ head' = [head EXCEPT ![q] = l.head]
        /\ next' = [l.next EXCEPT ![readyhead] = NULL]
  /\ size' = [size EXCEPT ![q] = IF head[q] = NULL THEN 1 ELSE @]
  /\ readyhead' = next[readyhead]
  /\ current' = readyhead
  /\ Suspend(saved)
  /\ UNCHANGED <<exists, setcontext_called, status, killhead, leaked>>

(* thread_sleep: the next thread leaves the ready queue, the current one is  *)
(* put into q, and only then is the next field of the former reset.          *)
GoToSleep(q, saved) ==
  /\ readyhead # NULL
  /\ LET l == WaitEnqueue(List(head[q]), current)
     IN /\ head' = [head EXCEPT ![q] = l.head]
        /\ next' = [l.next EXCEPT ![readyhead] = NULL]
  /\ size' = [size EXCEPT ![q] = IF head[q] = NULL THEN 1 ELSE @ + 1]
  /\ readyhead' = next[readyhead]
  /\ current' = readyhead
  /\ Suspend(saved)
  /\ UNCHANGED <<exists, setcontext_called, status, killhead, leaked>>

ThreadSleep(q) == InUser /\ GoToSleep(q, "sleep")

ResumeSleep ==
  /\ status = "up" /\ ctx[current] = "sleep"
  /\ Restore
  /\ UNCHANGED <<exists, current, setcontext_called, status, lists>>

WakeAll(q) ==
  /\ Becomes(Splice(List(readyhead), head[q]))
  /\ head' = [head EXCEPT ![q] = NULL]
  /\ size' = [size EXCEPT ![q] = 0]

(* Mutant: the size is not adjusted. *)
WakeOneMutant(q) ==
  /\ head' = [head EXCEPT ![q] = next[@]]
  /\ Becomes(Splice([head |-> readyhead, next |-> [next EXCEPT ![head[q]] = NULL]], head[q]))
  /\ UNCHANGED size

WakeOne(q) ==
  /\ head' = [head EXCEPT ![q] = next[@]]
  /\ Becomes(Splice([head |-> readyhead, next |-> [next EXCEPT ![head[q]] = NULL]], head[q]))
  /\ size' = [size EXCEPT ![q] = @ - 1]

ThreadWakeup(q, all) ==
  /\ InUser
  /\ head[q] # NULL
  /\ IF all THEN WakeAll(q) ELSE WakeOne(q)
  /\ UNCHANGED <<exists, current, ctx, setcontext_called, status, killhead, leaked, mask>>

ThreadWait(tid) ==
  /\ InUser
  /\ tid \in exists \ {current}
  /\ \/ GoToSleep(tid, "wait")
     \/ /\ readyhead = NULL
        /\ KillExitThreads
        /\ UNCHANGED <<current, ctx, setcontext_called, status, next, readyhead, mask>>

ResumeWait ==
  /\ status = "up" /\ ctx[current] = "wait"
  /\ KillExitThreads
  /\ Restore
  /\ UNCHANGED <<current, setcontext_called, status, next, readyhead>>

ThreadKill(tid) ==
  /\ InUser
  /\ tid \in (exists \cap Victims) \ {current}
  /\ ctx' = [ctx EXCEPT ![tid] = "exit"]
  /\ UNCHANGED <<exists, current, setcontext_called, status, lists, mask>>

BeyondTable ==
  /\ InUser
  /\ status' = "wild"
  /\ UNCHANGED <<exists, current, ctx, setcontext_called, lists, mask>>

(* thread_exit wakes the waiters of the current thread, then reaps one       *)
(* exited thread after the other and wakes the waiters of each.              *)
ReadyAtExit ==
  FoldLeft(LAMBDA l, z : Splice(l, head[z]),
           Splice(List(readyhead), head[current]), Zombies)

ExitProcess(l) ==
  /\ l.head = NULL
  /\ status' = "exited"
  /\ exists' = exists \ (Range(Zombies) \cup {current})
  /\ killhead' = NULL
  /\ Becomes(l)
  /\ UNCHANGED <<current, ctx, mask>>

(* The current thread is alone in killq: enqueue_kill finds it empty. *)
ExitToNext(l) ==
  /\ l.head # NULL
  /\ exists' = exists \ Range(Zombies)
  /\ killhead' = current
  /\ LET rest == Behead(l)
     IN Becomes([rest EXCEPT !.next[current] = NULL])
  /\ current' = l.head
  /\ ctx' = [ctx EXCEPT ![current] = "exit"]
  /\ masked' = TRUE
  /\ UNCHANGED <<status, enabled, wants>>

ThreadExit ==
  /\ status = "up" /\ ctx[current] \in {"run", "exit"}
  /\ LET gone == Range(Zombies) \cup {current}
     IN /\ head' = [q \in WaitQueues |-> IF q \in gone THEN NULL ELSE head[q]]
        /\ size' = [q \in WaitQueues |-> IF q \in gone THEN 0 ELSE size[q]]
  /\ ExitProcess(ReadyAtExit) \/ ExitToNext(ReadyAtExit)
  /\ UNCHANGED <<setcontext_called, leaked>>

-----------------------------------------------------------------------------

Ended == status # "up" /\ UNCHANGED vars

LinkedNext ==
  \/ SetMask \/ ThreadCreate \/ InterruptHandler
  \/ \E want \in Sched!THREAD_SELF - 1 .. MaxThreads + 1 : ThreadYield(want)
  \/ \E q \in Queues : ThreadSleep(q)
  \/ \E q \in Queues, all \in BOOLEAN : ThreadWakeup(q, all)
  \/ \E tid \in Tid : ThreadWait(tid) \/ ThreadKill(tid)
  \/ ThreadExit \/ BeyondTable
  \/ ThreadStub \/ ResumeYield \/ ResumeSleep \/ ResumeWait
  \/ Ended

LinkedSpec == LinkedInit /\ [][LinkedNext]_vars

-----------------------------------------------------------------------------

Up == status = "up"

Pointer == Tid \cup {NULL}

(* The type invariant. *)
LinkedTypeOK ==
  /\ exists \subseteq Tid /\ current \in Tid
  /\ ctx \in [Tid -> Sched!Ctx] /\ status \in Sched!Status
  /\ setcontext_called \in {0, 1}
  /\ next \in [Tid -> Pointer]
  /\ {readyhead, killhead} \subseteq Pointer
  /\ head \in [WaitQueues -> Pointer]
  /\ size \in [WaitQueues -> Nat]
  /\ leaked \subseteq Tid
  /\ masked \in BOOLEAN
  /\ enabled \in [Tid -> BOOLEAN] /\ wants \in [Tid -> BOOLEAN]

(* No pointer leads to a freed thread, whatever order of exits and reaping:  *)
(* not the head of a queue, not the next field of a thread that is there.    *)
NoDanglingPointers ==
  Up => ({readyhead, killhead} \cup Range(head) \cup leaked
           \cup {next[t] : t \in exists}) \ {NULL} \subseteq exists

(* The size of a wait queue, which wait_enqueue, thread_wakeup and the exits *)
(* keep by hand and thread_wakeup returns as the number of threads it woke,  *)
(* is the length of its list.                                                *)
WaitSizesAreLengths == Up => \A q \in WaitQueues : size[q] = Len(Sleepers(q))

(* Whoever is in its own code has SIGALRM blocked exactly if it blocked it:  *)
(* a call returns with the mask it was called with, however many threads,    *)
(* new ones, preempted ones or ones with another mask, ran in between.       *)
MaskIsKept == InUser => masked = wants[current]

(* The lists implement the sequences of ThreadSched: the chains never cross, *)
(* no splice loses or repeats a thread, and the order is the one promised.   *)
ImplementsSched == Sched!Spec

=============================================================================
