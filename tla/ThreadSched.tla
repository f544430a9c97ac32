----------------------------- MODULE ThreadSched -----------------------------
(***************************************************************************)
(* The scheduler of the user-level thread library, threads/thread.c: the    *)
(* ready queue, the queue of exited threads that await their reaping, the   *)
(* wait queues, and the context switches between them.                      *)
(*                                                                          *)
(* A section that runs with SIGALRM blocked is one step.  Such a section    *)
(* ends where the thread gives up the processor (setcontext); what it does  *)
(* when it is dispatched again, still with SIGALRM blocked, is a step of    *)
(* its own.  ctx[t] says where the saved context of t continues:            *)
(*   "run"   in the caller's code, SIGALRM unblocked (t may be preempted)   *)
(*   "stub"  at the entry of thread_stub                                    *)
(*   "any"   after the getcontext of thread_yield(THREAD_ANY)               *)
(*   "tid"   after the getcontext of thread_yield(tid)                      *)
(*   "sleep" after the getcontext of thread_sleep                           *)
(*   "wait"  the same, inside thread_wait                                   *)
(*   "exit"  at the entry of thread_exit (thread_kill wrote it)             *)
(***************************************************************************)
EXTENDS Integers, SequencesExt

CONSTANTS MaxThreads,   \* THREAD_MAX_THREADS
          Queues        \* the wait queues the program created

Tid == 0 .. MaxThreads - 1
WaitQueues == Tid \cup Queues   \* the waitq of thread t is queue t

ASSUME MaxThreadsAssumption == MaxThreads \in Nat \ {0}
ASSUME QueuesAssumption == Queues \cap Tid = {}

THREAD_ANY == -1
THREAD_SELF == -2

VARIABLES
  exists,             \* the ids whose existing_threads entry is not NULL
  current,            \* current_thread->id
  ready,              \* the ids in readyq, from its head
  killq,              \* the ids in killq, from its head
  wq,                 \* for each wait queue the ids in it, from its head
  stranded,           \* asleep on a wait queue nothing points to any more
  ctx,                \* where each thread continues (see above)
  setcontext_called,  \* the global flag of that name
  status              \* "up", or how the process ended: "exited" exit(0),
                      \* "segv" NULL dereference, "wild" undefined
                      \* behaviour, "corrupt" the queues lost threads

vars == <<exists, current, ready, killq, wq, stranded, ctx,
          setcontext_called, status>>

Yielded == {"any", "tid"}
Ctx == Yielded \cup {"run", "stub", "sleep", "wait", "exit"}
Status == {"up", "exited", "segv", "wild", "corrupt"}

(* thread_init; an entry of ctx means nothing for an id that is free. *)
Init ==
  /\ exists = {0}
  /\ current = 0
  /\ ready = <<>>
  /\ killq = <<>>
  /\ wq = [q \in WaitQueues |-> <<>>]
  /\ stranded = {}
  /\ ctx = [t \in Tid |-> "run"]
  /\ setcontext_called = 0
  /\ status = "up"

-----------------------------------------------------------------------------

(* The current thread is in its own code: it may call the library and      *)
(* SIGALRM may interrupt it.                                                *)
InUser == status = "up" /\ ctx[current] = "run"

Zombies == Range(killq)

(* The wait queues, when those of the threads in Gone are no longer used.   *)
Without(Gone) == [q \in WaitQueues |-> IF q \in Gone THEN <<>> ELSE wq[q]]

(* Mutant: killq->head is not reset. *)
KillExitThreadsMutant1 ==
  /\ exists' = exists \ Zombies
  /\ wq' = Without(Zombies)
  /\ stranded' = stranded \cup UNION {Range(wq[z]) : z \in Zombies}
  /\ UNCHANGED killq

(* Mutant: the reaping is forgotten. *)
KillExitThreadsMutant2 == UNCHANGED <<killq, exists, wq, stranded>>

(* kill_exit_threads: frees every exited thread.  Its wait queue is neither *)
(* emptied nor freed: who sleeps there is not reachable any more.           *)
KillExitThreads ==
  /\ killq' = <<>>
  /\ exists' = exists \ Zombies
  /\ wq' = Without(Zombies)
  /\ stranded' = stranded \cup UNION {Range(wq[z]) : z \in Zombies}

(* Mutants: the flag is not set; the context of the wrong thread is saved;  *)
(* the current thread goes to the head of the ready queue.                  *)
SwitchToMutant1(next, rest, saved) ==
  /\ current' = next
  /\ ready' = Append(rest, current)
  /\ ctx' = [ctx EXCEPT ![current] = saved]
  /\ setcontext_called' = 0

SwitchToMutant2(next, rest, saved) ==
  /\ current' = next
  /\ ready' = Append(rest, current)
  /\ ctx' = [ctx EXCEPT ![next] = saved]
  /\ setcontext_called' = 1

SwitchToMutant3(next, rest, saved) ==
  /\ current' = next
  /\ ready' = <<current>> \o rest
  /\ ctx' = [ctx EXCEPT ![current] = saved]
  /\ setcontext_called' = 1

(* The tail of every switch that leaves the current thread runnable.        *)
SwitchTo(next, rest, saved) ==
  /\ current' = next
  /\ ready' = Append(rest, current)
  /\ ctx' = [ctx EXCEPT ![current] = saved]
  /\ setcontext_called' = 1

(* thread_stub, up to the call of thread_main. *)
ThreadStub ==
  /\ status = "up"
  /\ ctx[current] = "stub"
  /\ ctx' = [ctx EXCEPT ![current] = "run"]
  /\ UNCHANGED <<exists, current, ready, killq, wq, stranded,
                 setcontext_called, status>>

(* Mutant: new_id also tries the index past the end of the table. *)
NewIdMutant(id) ==
  id \notin exists /\ \A other \in 0 .. MaxThreads \ exists : id <= other

(* new_id: the lowest free id. *)
NewId(id) ==
  id \in Tid \ exists /\ \A other \in Tid \ exists : id <= other

(* thread_create.  Its failures (THREAD_NOMORE, THREAD_NOMEMORY) change     *)
(* nothing.                                                                 *)
ThreadCreate ==
  /\ InUser
  /\ \E id \in 0 .. MaxThreads :
       /\ NewId(id)
       /\ exists' = exists \cup {id}
       /\ ready' = Append(ready, id)
       /\ ctx' = [ctx EXCEPT ![id] = "stub"]
       /\ wq' = [wq EXCEPT ![id] = <<>>]
  /\ UNCHANGED <<current, killq, stranded, setcontext_called, status>>

-----------------------------------------------------------------------------

(* thread_yield returns THREAD_INVALID or THREAD_NONE, since want is out of *)
(* its range or no other thread is ready.                                   *)
YieldAlone(want) ==
  /\ \/ want \notin THREAD_SELF .. MaxThreads
     \/ ready = <<>> /\ want \notin {current, THREAD_SELF}
  /\ UNCHANGED <<current, ready, ctx, setcontext_called, status>>

YieldAny(want) ==
  /\ want = THREAD_ANY
  /\ ready # <<>>
  /\ SwitchTo(Head(ready), Tail(ready), "any")
  /\ UNCHANGED status

(* Mutant: the flag stays cleared. *)
YieldSelfMutant(want) ==
  /\ want \in {current, THREAD_SELF}
  /\ setcontext_called' = 0
  /\ UNCHANGED <<current, ready, ctx, status>>

YieldSelf(want) ==
  /\ want \in {current, THREAD_SELF}
  /\ setcontext_called' = 1
  /\ UNCHANGED <<current, ready, ctx, status>>

YieldTo(want) ==
  /\ want # current
  /\ \E i \in DOMAIN ready :
       /\ ready[i] = want
       /\ SwitchTo(want, RemoveAt(ready, i), "tid")
  /\ UNCHANGED status

(* search_t does not find the thread.  With one thread in the ready queue   *)
(* it returns NULL, and the flag stays cleared; with more it walks off the  *)
(* end of the queue and dereferences NULL.                                  *)
YieldAbsent(want) ==
  /\ want \in 0 .. MaxThreads \ (Range(ready) \cup {current})
  /\ ready # <<>>
  /\ setcontext_called' = 0
  /\ status' = IF Len(ready) = 1 THEN "up" ELSE "segv"
  /\ UNCHANGED <<current, ready, ctx>>

ThreadYield(want) ==
  /\ InUser
  /\ KillExitThreads
  /\ \/ YieldAlone(want)
     \/ YieldAny(want)
     \/ YieldSelf(want)
     \/ YieldTo(want)
     \/ YieldAbsent(want)

(* interrupt_handler: SIGALRM preempts the current thread. *)
InterruptHandler == ThreadYield(THREAD_ANY)

(* A thread that yielded is dispatched: it tests the global flag.  A        *)
(* cleared flag makes it go through the switch once more, with next_t       *)
(* pointing to itself: the ready queue loses its threads, or runs into      *)
(* NULL, and the thread both runs and is queued.                            *)
ResumeYield ==
  /\ status = "up"
  /\ ctx[current] \in Yielded
  /\ IF setcontext_called = 1
       THEN ctx' = [ctx EXCEPT ![current] = "run"] /\ UNCHANGED status
       ELSE status' = "corrupt" /\ UNCHANGED ctx
  /\ UNCHANGED <<exists, current, ready, killq, wq, stranded,
                 setcontext_called>>

-----------------------------------------------------------------------------

(* The part of thread_sleep up to the switch, on queue q. *)
GoToSleep(q, saved) ==
  /\ ready # <<>>
  /\ wq' = [wq EXCEPT ![q] = Append(@, current)]
  /\ current' = Head(ready)
  /\ ready' = Tail(ready)
  /\ ctx' = [ctx EXCEPT ![current] = saved]
  /\ UNCHANGED <<exists, killq, stranded, setcontext_called, status>>

(* thread_sleep; THREAD_INVALID and THREAD_NONE change nothing. *)
ThreadSleep(q) == InUser /\ GoToSleep(q, "sleep")

ResumeSleep ==
  /\ status = "up"
  /\ ctx[current] = "sleep"
  /\ ctx' = [ctx EXCEPT ![current] = "run"]
  /\ UNCHANGED <<exists, current, ready, killq, wq, stranded,
                 setcontext_called, status>>

(* Mutants: woken threads go ahead of those that are ready; the last to     *)
(* sleep is woken first.                                                    *)
WakeAllMutant(q) ==
  /\ ready' = wq[q] \o ready
  /\ wq' = [wq EXCEPT ![q] = <<>>]

WakeOneMutant(q) ==
  /\ ready' = Append(ready, Last(wq[q]))
  /\ wq' = [wq EXCEPT ![q] = Front(@)]

(* thread_wakeup with all = 1, and with all = 0. *)
WakeAll(q) ==
  /\ ready' = ready \o wq[q]
  /\ wq' = [wq EXCEPT ![q] = <<>>]

WakeOne(q) ==
  /\ ready' = Append(ready, Head(wq[q]))
  /\ wq' = [wq EXCEPT ![q] = Tail(@)]

ThreadWakeup(q, all) ==
  /\ InUser
  /\ wq[q] # <<>>
  /\ IF all THEN WakeAll(q) ELSE WakeOne(q)
  /\ UNCHANGED <<exists, current, killq, stranded, ctx, setcontext_called,
                 status>>

(* thread_wait: THREAD_NONE from thread_sleep is not looked at, the call    *)
(* then returns as if the thread had exited.                                *)
ThreadWait(tid) ==
  /\ InUser
  /\ tid \in exists \ {current}
  /\ \/ GoToSleep(tid, "wait")
     \/ /\ ready = <<>>
        /\ KillExitThreads
        /\ UNCHANGED <<current, ready, ctx, setcontext_called, status>>

ResumeWait ==
  /\ status = "up"
  /\ ctx[current] = "wait"
  /\ KillExitThreads
  /\ ctx' = [ctx EXCEPT ![current] = "run"]
  /\ UNCHANGED <<current, ready, setcontext_called, status>>

-----------------------------------------------------------------------------

(* Mutant: the waiters of the victim are woken at once. *)
ThreadKillMutant(tid) ==
  /\ InUser
  /\ tid \in exists \ {current}
  /\ ctx' = [ctx EXCEPT ![tid] = "exit"]
  /\ WakeAll(tid)
  /\ UNCHANGED <<exists, current, killq, stranded, setcontext_called, status>>

(* thread_kill: the victim keeps its place in whatever queue it is in. *)
ThreadKill(tid) ==
  /\ InUser
  /\ tid \in exists \ {current}
  /\ ctx' = [ctx EXCEPT ![tid] = "exit"]
  /\ UNCHANGED <<exists, current, ready, killq, wq, stranded,
                 setcontext_called, status>>

(* thread_kill and thread_wait read existing_threads[THREAD_MAX_THREADS],   *)
(* which is past the end of the array: what they find there is NULL         *)
(* (THREAD_INVALID, nothing changes) or is taken for a thread.              *)
BeyondTable ==
  /\ InUser
  /\ status' = "wild"
  /\ UNCHANGED <<exists, current, ready, killq, wq, stranded, ctx,
                 setcontext_called>>

(* The ready queue once thread_exit has woken the waiters of the current    *)
(* thread and then those of the threads it reaps.                           *)
ReadyAtExit ==
  (ready \o wq[current]) \o FlattenSeq([i \in DOMAIN killq |-> wq[killq[i]]])

(* No thread is ready: exit(0). *)
ExitProcess ==
  /\ ReadyAtExit = <<>>
  /\ status' = "exited"
  /\ exists' = exists \ (Zombies \cup {current})
  /\ killq' = <<>>
  /\ UNCHANGED <<current, ready, ctx>>

(* The current thread awaits its reaping and the next one is dispatched. *)
ExitToNext ==
  /\ ReadyAtExit # <<>>
  /\ exists' = exists \ Zombies
  /\ killq' = <<current>>
  /\ current' = Head(ReadyAtExit)
  /\ ready' = Tail(ReadyAtExit)
  /\ ctx' = [ctx EXCEPT ![current] = "exit"]
  /\ UNCHANGED status

(* thread_exit: called by the thread, or entered because it was killed. *)
ThreadExit ==
  /\ status = "up"
  /\ ctx[current] \in {"run", "exit"}
  /\ wq' = Without(Zombies \cup {current})
  /\ ExitProcess \/ ExitToNext
  /\ UNCHANGED <<stranded, setcontext_called>>

-----------------------------------------------------------------------------

(* What the library does on its own once a thread is dispatched. *)
Continue ==
  \/ ThreadStub
  \/ ResumeYield
  \/ ResumeSleep
  \/ ResumeWait
  \/ ctx[current] = "exit" /\ ThreadExit

(* The calls of the program, but for thread_yield to a named thread. *)
Call ==
  \/ ThreadCreate
  \/ \E q \in Queues : ThreadSleep(q)
  \/ \E q \in Queues, all \in BOOLEAN : ThreadWakeup(q, all)
  \/ \E tid \in Tid : ThreadWait(tid) \/ ThreadKill(tid)
  \/ ctx[current] = "run" /\ ThreadExit
  \/ ThreadYield(THREAD_SELF)

Ended == status # "up" /\ UNCHANGED vars

(* A program may pass any number to thread_yield: threads that are dead or  *)
(* asleep, and ids beyond either end of the range that it accepts, which is *)
(* one more than there are.                                                 *)
Next ==
  \/ Continue
  \/ InterruptHandler
  \/ Call
  \/ \E tid \in THREAD_SELF - 1 .. MaxThreads + 1 : ThreadYield(tid)
  \/ BeyondTable
  \/ Ended

Spec == Init /\ [][Next]_vars

(* A disciplined program yields to a named thread only if that thread is in *)
(* the ready queue, is itself, or if no thread is ready; and it passes ids  *)
(* below THREAD_MAX_THREADS.                                                *)
MayName == IF ready = <<>> THEN Tid ELSE Range(ready) \cup {current}

DisciplinedNext ==
  \/ Continue
  \/ InterruptHandler
  \/ Call
  \/ \E tid \in MayName : ThreadYield(tid)
  \/ Ended

DisciplinedSpec == Init /\ [][DisciplinedNext]_vars

(* A dispatched thread goes on.  The handler re-arms its one-shot timer,    *)
(* and a SIGALRM that arrives while blocked stays pending until it is       *)
(* unblocked: a thread that is in its own code again and again is preempted *)
(* again and again.                                                         *)
Fairness == WF_vars(Continue) /\ SF_vars(InterruptHandler)

FairSpec == DisciplinedSpec /\ Fairness

-----------------------------------------------------------------------------
(* Properties.  Once the process has ended, or gone wrong, the queues mean  *)
(* nothing: the invariants speak of a process that is "up".                 *)

Sleepers == UNION {Range(wq[q]) : q \in WaitQueues}

(* The type invariant. *)
TypeOK ==
  /\ exists \subseteq Tid
  /\ current \in Tid
  /\ ready \in Seq(Tid)
  /\ killq \in Seq(Tid)
  /\ wq \in [WaitQueues -> Seq(Tid)]
  /\ stranded \subseteq Tid
  /\ ctx \in [Tid -> Ctx]
  /\ setcontext_called \in {0, 1}
  /\ status \in Status

(* No thread is in two places: running, ready, exited, asleep on a queue,   *)
(* asleep where nothing finds it; and in no queue twice.  Threads are       *)
(* chained through their one next field, so a second place cuts a chain.    *)
NoThreadTwice ==
  /\ current \notin Range(ready) \cup Zombies \cup Sleepers \cup stranded
  /\ Range(ready) \cap (Zombies \cup Sleepers \cup stranded) = {}
  /\ Zombies \cap (Sleepers \cup stranded) = {}
  /\ Sleepers \cap stranded = {}
  /\ \A q, r \in WaitQueues : q # r => Range(wq[q]) \cap Range(wq[r]) = {}
  /\ IsInjective(ready) /\ IsInjective(killq)
  /\ \A q \in WaitQueues : IsInjective(wq[q])

(* Every thread in the table is in one of those places and they hold no     *)
(* freed thread: no thread is lost between two queues, whatever order of    *)
(* yields, sleeps, wake-ups, kills and exits.                               *)
NoThreadLost ==
  exists = {current} \cup Range(ready) \cup Zombies \cup Sleepers \cup stranded

(* The queues account for every thread, exactly once. *)
Accounted == status = "up" => NoThreadTwice /\ NoThreadLost

(* A thread that yielded and is still there finds the global flag set when  *)
(* it is dispatched, whoever dispatches it: another yield, a thread that    *)
(* goes to sleep, or one that exits.                                        *)
FlagTellsResumption ==
  (\E t \in exists : ctx[t] \in Yielded) => setcontext_called = 1

(* A disciplined program never sends the scheduler into a NULL pointer or   *)
(* through a switch that loses threads.                                     *)
NeverGoesWrong == status \in {"up", "exited"}

(* A thread that was killed does not run any further: once its context      *)
(* points to thread_exit, no switch overwrites it while the thread exists.  *)
KillIsFinal == \A t \in exists \cap exists' : ctx[t] = "exit" => ctx'[t] = "exit"

KilledStaysKilled == [][KillIsFinal]_vars

Before(s, a, b) ==
  \E i, j \in DOMAIN s : i < j /\ s[i] = a /\ s[j] = b

(* The ready queue is first in, first out: no thread overtakes another one, *)
(* and who becomes ready, by a yield or a wake-up, comes after all others.  *)
NoOvertaking ==
  \A a \in Range(ready) \cap Range(ready'), b \in Range(ready') :
     Before(ready, a, b) \/ b \notin Range(ready) => Before(ready', a, b)

ReadyIsFifo == [][NoOvertaking]_vars

(* The first thread to sleep is the first to be woken up: of two sleepers   *)
(* of a queue the later one never leaves it before the earlier one, and if  *)
(* one step wakes both the earlier one is ahead in the ready queue.         *)
WokenInOrder ==
  status' = "up" =>
    \A q \in WaitQueues : \A a, b \in Range(wq[q]) :
      Before(wq[q], a, b) /\ b \notin Range(wq'[q]) =>
        /\ a \notin Range(wq'[q])
        /\ {a, b} \subseteq Range(ready') => Before(ready', a, b)

WakeupsKeepOrder == [][WokenInOrder]_vars

(* A thread that waits for thread w leaves w's queue only in a step in      *)
(* which w exits or is freed; no wake-up, kill or switch releases it.       *)
WaiterLeavesAtExit ==
  \A w \in Tid : \A t \in Range(wq[w]) :
     t \notin Range(wq'[w]) =>
        w \notin exists' \/ w \in Range(killq') \ Range(killq)

WaitersLeaveAtExit == [][WaiterLeavesAtExit]_vars

(* Every ready thread runs, under preemption. *)
ReadyRuns ==
  \A t \in Tid : t \in Range(ready) ~> current = t \/ status # "up"

(* The id of an exited thread becomes free again. *)
ZombiesAreReaped ==
  \A t \in Tid : t \in Zombies ~> t \notin exists \/ status # "up"

-----------------------------------------------------------------------------
(* What the documentation says and the code does not do. *)

(* thread.h: thread_wait suspends the thread until thread tid exits.  A     *)
(* thread that waits for an exited thread is forgotten when that thread is  *)
(* reaped.                                                                  *)
NoneStranded == stranded = {}

=============================================================================
