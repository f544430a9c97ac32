------------------------------ MODULE ThreadSync ------------------------------
(***************************************************************************)
(* The locks and condition variables of threads/thread.c, on top of the     *)
(* scheduler.  A lock and a condition variable each own a wait queue; it    *)
(* carries their name.                                                      *)
(*                                                                          *)
(* lock_acquire blocks SIGALRM for its whole length, also while it sleeps.  *)
(* cv_wait does not: its three calls are steps of their own.  at[t] is the  *)
(* place of t in these functions:                                           *)
(*   "user"     in the caller's code                                        *)
(*   "acquire"  asleep in lock_acquire                                      *)
(*   "spin"     in the loop of lock_acquire with no thread to switch to     *)
(*   "release"  in cv_wait, the lock released                               *)
(*   "woken"    in cv_wait, thread_sleep called or returned                 *)
(*   "wakeup"   in cv_signal or cv_broadcast, the lock found to be its own  *)
(***************************************************************************)
EXTENDS ThreadSched

CONSTANTS Locks, Cvs

ASSUME SyncAssumption == Locks \cup Cvs \subseteq Queues /\ Locks \cap Cvs = {}

THREAD_NONE == -4

ProgramQueues == Queues \ (Locks \cup Cvs)   \* what wait_queue_create gave the program

VARIABLES
  holder,   \* holder_id of each lock, THREAD_NONE exactly if its lock field is 0
  at,       \* the place of each thread in the functions below
  inside    \* for each lock, who returned from acquiring it and has not
            \* called for its release: what the callers rely on

VARIABLE disciplined   \* whether every call so far was one that a careful
                       \* program makes (see AnyCall)

syncVars == <<holder, at, inside>>
allVars == <<vars, syncVars, disciplined>>

Place == [point : {"user", "spin"}]
         \cup [point : {"acquire"}, lock : Locks]
         \cup [point : {"release", "woken"}, lock : Locks, cv : Cvs]
         \cup [point : {"wakeup"}, cv : Cvs, all : BOOLEAN]
InCaller == [point |-> "user"]

SyncInit ==
  /\ Init
  /\ holder = [l \in Locks |-> THREAD_NONE]
  /\ at = [t \in Tid |-> InCaller]
  /\ inside = [l \in Locks |-> {}]
  /\ disciplined = TRUE

Goes(place) == at' = [at EXCEPT ![current] = place]

(* The current thread may call any function of the library. *)
MayCall == InUser /\ at[current] = InCaller

-----------------------------------------------------------------------------

(* Mutant: the lock is taken without a look at its holder. *)
TakeLockMutant(l) ==
  /\ holder' = [holder EXCEPT ![l] = current]
  /\ inside' = [inside EXCEPT ![l] = @ \cup {current}]
  /\ ctx' = [ctx EXCEPT ![current] = "run"]
  /\ Goes(InCaller)
  /\ UNCHANGED <<exists, current, ready, killq, wq, stranded,
                 setcontext_called, status>>

(* The loop of lock_acquire finds the lock free. *)
TakeLock(l) ==
  /\ holder[l] = THREAD_NONE
  /\ holder' = [holder EXCEPT ![l] = current]
  /\ inside' = [inside EXCEPT ![l] = @ \cup {current}]
  /\ ctx' = [ctx EXCEPT ![current] = "run"]
  /\ Goes(InCaller)
  /\ UNCHANGED <<exists, current, ready, killq, wq, stranded,
                 setcontext_called, status>>

(* It finds the lock held, and sleeps or, if thread_sleep returns           *)
(* THREAD_NONE, goes around again and again with SIGALRM blocked.           *)
AwaitLock(l) ==
  /\ holder[l] # THREAD_NONE
  /\ \/ GoToSleep(l, "sleep") /\ Goes([point |-> "acquire", lock |-> l])
     \/ /\ ready = <<>>
        /\ ctx' = [ctx EXCEPT ![current] = "run"]
        /\ Goes([point |-> "spin"])
        /\ UNCHANGED <<exists, current, ready, killq, wq, stranded,
                       setcontext_called, status>>
  /\ UNCHANGED <<holder, inside>>

LockLoop(l) == TakeLock(l) \/ AwaitLock(l)

LockAcquire(l) == MayCall /\ LockLoop(l)

(* A thread asleep in lock_acquire is dispatched and tests the lock again. *)
ResumeAcquire ==
  /\ status = "up"
  /\ ctx[current] = "sleep"
  /\ at[current].point = "acquire"
  /\ LockLoop(at[current].lock)

(* Mutant: the sleepers of the lock stay asleep. *)
ReleaseMutant1(l) ==
  /\ holder' = [holder EXCEPT ![l] = THREAD_NONE]
  /\ inside' = [inside EXCEPT ![l] = @ \ {current}]
  /\ UNCHANGED <<ready, wq>>

(* Mutant: the wrong constant marks a free lock. *)
ReleaseMutant2(l) ==
  /\ holder' = [holder EXCEPT ![l] = THREAD_ANY]
  /\ inside' = [inside EXCEPT ![l] = @ \ {current}]
  /\ IF holder[l] # THREAD_NONE THEN WakeAll(l) ELSE UNCHANGED <<ready, wq>>

(* lock_release, whoever holds the lock. *)
Release(l) ==
  /\ holder' = [holder EXCEPT ![l] = THREAD_NONE]
  /\ inside' = [inside EXCEPT ![l] = @ \ {current}]
  /\ IF holder[l] # THREAD_NONE THEN WakeAll(l) ELSE UNCHANGED <<ready, wq>>

LockRelease(l) ==
  /\ MayCall
  /\ Release(l)
  /\ UNCHANGED <<exists, current, killq, stranded, ctx, setcontext_called,
                 status, at>>

-----------------------------------------------------------------------------

(* Mutant: cv_wait keeps the lock. *)
CvWaitMutant(c, l) ==
  /\ MayCall
  /\ Goes([point |-> "release", lock |-> l, cv |-> c])
  /\ UNCHANGED <<exists, current, ready, killq, wq, stranded, ctx,
                 setcontext_called, status, holder, inside>>

(* cv_wait, the call of lock_release. *)
CvWait(c, l) ==
  /\ MayCall
  /\ Release(l)
  /\ Goes([point |-> "release", lock |-> l, cv |-> c])
  /\ UNCHANGED <<exists, current, killq, stranded, ctx, setcontext_called,
                 status>>

(* Mutant: cv_wait sleeps on the queue of the lock. *)
CvWaitSleepMutant ==
  /\ InUser
  /\ at[current].point = "release"
  /\ \/ GoToSleep(at[current].lock, "sleep")
     \/ ready = <<>> /\ UNCHANGED vars
  /\ Goes([at[current] EXCEPT !.point = "woken"])
  /\ UNCHANGED <<holder, inside>>

(* cv_wait, the call of thread_sleep; THREAD_NONE is not looked at. *)
CvWaitSleep ==
  /\ InUser
  /\ at[current].point = "release"
  /\ \/ GoToSleep(at[current].cv, "sleep")
     \/ ready = <<>> /\ UNCHANGED vars
  /\ Goes([at[current] EXCEPT !.point = "woken"])
  /\ UNCHANGED <<holder, inside>>

(* cv_wait, the call of lock_acquire. *)
CvWaitAcquire ==
  /\ InUser
  /\ at[current].point = "woken"
  /\ LockLoop(at[current].lock)

(* cv_signal and cv_broadcast, the test: they do nothing unless the caller  *)
(* holds the lock.  SIGALRM is not blocked behind it.                       *)
CvSignal(c, l, all) ==
  /\ MayCall
  /\ holder[l] = current
  /\ Goes([point |-> "wakeup", cv |-> c, all |-> all])
  /\ UNCHANGED <<vars, holder, inside>>

(* cv_signal and cv_broadcast, the call of thread_wakeup. *)
CvWakeup ==
  /\ InUser
  /\ at[current].point = "wakeup"
  /\ \/ ThreadWakeup(at[current].cv, at[current].all)
     \/ wq[at[current].cv] = <<>> /\ UNCHANGED vars
  /\ Goes(InCaller)
  /\ UNCHANGED <<holder, inside>>

-----------------------------------------------------------------------------

(* The steps of the scheduler, as they are, and those that depend on where  *)
(* the thread is.  With SIGALRM blocked a spinning thread is not preempted. *)
SyncContinue ==
  \/ (ThreadStub \/ ResumeYield \/ ResumeWait) /\ UNCHANGED syncVars
  \/ at[current].point # "acquire" /\ ResumeSleep /\ UNCHANGED syncVars
  \/ ResumeAcquire
  \/ CvWaitSleep
  \/ CvWaitAcquire
  \/ CvWakeup
  \/ ctx[current] = "exit" /\ ThreadExit /\ Goes(InCaller) /\ UNCHANGED <<holder, inside>>

SyncInterrupt ==
  at[current].point # "spin" /\ InterruptHandler /\ UNCHANGED syncVars

Spinning ==
  /\ status = "up" /\ ctx[current] = "run" /\ at[current].point = "spin"
  /\ UNCHANGED allVars

(* The calls that leave the caller running or ready; thread_yield accepts   *)
(* any number, and any thread.                                              *)
SchedCall ==
  /\ MayCall
  /\ \/ ThreadCreate
     \/ \E q \in ProgramQueues, all \in BOOLEAN : ThreadWakeup(q, all)
     \/ \E tid \in THREAD_SELF - 1 .. MaxThreads + 1 : ThreadYield(tid)
     \/ BeyondTable
  /\ UNCHANGED syncVars

(* The calls that may keep it from running for good. *)
BlockingCall ==
  /\ MayCall
  /\ \/ \E q \in ProgramQueues : ThreadSleep(q)
     \/ \E tid \in Tid : ThreadWait(tid)
     \/ ThreadExit
  /\ UNCHANGED syncVars

KillCall == \E tid \in Tid : MayCall /\ ThreadKill(tid) /\ UNCHANGED syncVars

HoldsNone == \A l \in Locks : current \notin inside[l]

Keeps(rule) == disciplined' = (disciplined /\ rule)

(* A program that uses the functions in any way they can be called.  It is  *)
(* disciplined as long as it calls lock_release and cv_wait only for a lock *)
(* it holds; does not acquire a lock, sleep on a queue of its own, wait for *)
(* a thread or exit while it holds one; and kills no thread.                *)
AnyCall ==
  \/ SchedCall /\ Keeps(TRUE)
  \/ BlockingCall /\ Keeps(HoldsNone)
  \/ KillCall /\ Keeps(FALSE)
  \/ \E l \in Locks : LockAcquire(l) /\ Keeps(HoldsNone)
  \/ \E l \in Locks : LockRelease(l) /\ Keeps(current \in inside[l])
  \/ \E l \in Locks, c \in Cvs : CvWait(c, l) /\ Keeps(current \in inside[l])
  \/ \E l \in Locks, c \in Cvs, all \in BOOLEAN : CvSignal(c, l, all) /\ Keeps(TRUE)

SyncEnded == status # "up" /\ UNCHANGED allVars

SyncNext ==
  \/ AnyCall
  \/ SyncContinue /\ UNCHANGED disciplined
  \/ SyncInterrupt /\ UNCHANGED disciplined
  \/ Spinning
  \/ SyncEnded

SyncSpec == SyncInit /\ [][SyncNext]_allVars

-----------------------------------------------------------------------------
(* Properties. *)

(* The type invariant of the part this module adds. *)
SyncTypeOK ==
  /\ holder \in [Locks -> Tid \cup {THREAD_NONE}]
  /\ at \in [Tid -> Place]
  /\ inside \in [Locks -> SUBSET Tid]
  /\ disciplined \in BOOLEAN

(* Disciplined programs: at most one thread is inside a lock, across        *)
(* preemptions, sleeps in cv_wait and the stampede that a release wakes;    *)
(* and it is the holder.                                                    *)
MutualExclusion ==
  disciplined /\ status = "up" =>
    \A l \in Locks :
      inside[l] = IF holder[l] = THREAD_NONE THEN {} ELSE {holder[l]}

(* No thread sleeps in lock_acquire on a lock that is free: a release that  *)
(* falls between the test and the sleep would leave it there.               *)
NoSleeperOnFreeLock ==
  \A l \in Locks : holder[l] = THREAD_NONE => wq[l] = <<>>

(* Disciplined programs: the thread that holds a lock is running or ready,  *)
(* so a thread that finds a lock held finds another thread to switch to, and *)
(* never loops in lock_acquire with SIGALRM blocked.                        *)
HolderCanRun ==
  disciplined =>
    /\ \A t \in Tid : at[t].point # "spin"
    /\ status = "up" =>
         \A l \in Locks : holder[l] # THREAD_NONE =>
           holder[l] = current \/ holder[l] \in Range(ready)

(* Disciplined programs: who sleeps on a lock's queue is in lock_acquire,   *)
(* or cv_wait's call of it, for that lock; who sleeps on the queue of a     *)
(* condition variable is in a cv_wait for it and is not inside its lock.    *)
SleepersBelong ==
  disciplined /\ status = "up" =>
    /\ \A l \in Locks : \A t \in Range(wq[l]) :
         at[t] = [point |-> "acquire", lock |-> l]
    /\ \A c \in Cvs : \A t \in Range(wq[c]) :
         /\ at[t].point = "woken" /\ at[t].cv = c
         /\ t \notin inside[at[t].lock]

=============================================================================
