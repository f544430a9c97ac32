-------------------------------- MODULE CvRing --------------------------------
(***************************************************************************)
(* The program of test_cv_signal (threads/test_thread.c) on the thread      *)
(* library: N threads pass a turn around, each sleeping on a condition      *)
(* variable of its own until the turn is its.  Thread 0 creates them and    *)
(* waits for each.                                                          *)
(***************************************************************************)
EXTENDS ThreadSync

CONSTANTS N,       \* NTHREADS
          LOOPS,
          lk,      \* testlock
          Signal   \* testcv_signal, a sequence of condition variables

ASSUME RingAssumption ==
  /\ N \in Nat \ {0} /\ LOOPS \in Nat \ {0} /\ MaxThreads = N + 1
  /\ lk \in Locks /\ Signal \in [1 .. N -> Cvs] /\ IsInjective(Signal)

VARIABLES turn,    \* testval1
          pc,      \* where each thread is in its program
          left,    \* the iterations of its loop each ring thread still has
          next     \* i + 1 in the loops of the main thread

ringVars == <<allVars, turn, pc, left, next>>

Ring == 1 .. N
Num(t) == t - 1
CvOf(num) == Signal[num + 1]

RingInit ==
  /\ SyncInit
  /\ turn = N - 1
  /\ pc = [t \in Tid |-> IF t = 0 THEN "create" ELSE "acquire"]
  /\ left = [t \in Ring |-> LOOPS]
  /\ next = 1

GoesTo(label) == pc' = [pc EXCEPT ![current] = label]

(* test_cv_signal: the threads are created, in the order of their ids since *)
(* none of them exits before the last one is there, and waited for in turn. *)
MainCreate ==
  /\ pc[0] = "create" /\ current = 0 /\ MayCall
  /\ IF next <= N
       THEN ThreadCreate /\ next' = next + 1 /\ UNCHANGED <<syncVars, pc>>
       ELSE GoesTo("wait") /\ next' = 1 /\ UNCHANGED allVars
  /\ UNCHANGED <<turn, left, disciplined>>

MainWait ==
  /\ pc[0] = "wait" /\ current = 0 /\ MayCall
  /\ IF next \in exists THEN ThreadWait(next) /\ UNCHANGED syncVars
                        ELSE UNCHANGED allVars   \* THREAD_INVALID
  /\ next' = next + 1
  /\ GoesTo(IF next = N THEN "done" ELSE "wait")
  /\ UNCHANGED <<turn, left, disciplined>>

(* test_cv_signal_thread. *)
AcquireTestLock ==
  /\ current \in Ring /\ pc[current] = "acquire"
  /\ LockAcquire(lk)
  /\ GoesTo("test")
  /\ UNCHANGED <<turn, left, next, disciplined>>

AwaitTurn ==
  /\ current \in Ring /\ pc[current] = "test" /\ turn # Num(current)
  /\ CvWait(CvOf(Num(current)), lk)
  /\ GoesTo("awoken")
  /\ UNCHANGED <<turn, left, next, disciplined>>

(* Mutant: the turn is not tested again. *)
AwokenMutant ==
  /\ current \in Ring /\ pc[current] = "awoken" /\ MayCall
  /\ turn' = (turn + N - 1) % N
  /\ GoesTo("signal")
  /\ UNCHANGED <<allVars, left, next>>

(* cv_wait returned: the turn is tested again, unless the wait was so short *)
(* that the thread leaves at once, without a release of the lock.  Time is  *)
(* not modelled, either may happen.                                         *)
Awoken ==
  /\ current \in Ring /\ pc[current] = "awoken" /\ MayCall
  /\ GoesTo("test") \/ GoesTo("exit")
  /\ UNCHANGED <<allVars, turn, left, next>>

PassTurn ==
  /\ current \in Ring /\ pc[current] = "test" /\ turn = Num(current)
  /\ MayCall
  /\ turn' = (turn + N - 1) % N
  /\ GoesTo("signal")
  /\ UNCHANGED <<allVars, left, next>>

SignalNext ==
  /\ current \in Ring /\ pc[current] = "signal"
  /\ CvSignal(CvOf(turn), lk, FALSE)
  /\ GoesTo("release")
  /\ UNCHANGED <<turn, left, next, disciplined>>

ReleaseTestLock ==
  /\ current \in Ring /\ pc[current] = "release"
  /\ LockRelease(lk)
  /\ left' = [left EXCEPT ![current] = @ - 1]
  /\ GoesTo(IF left[current] = 1 THEN "exit" ELSE "acquire")
  /\ UNCHANGED <<turn, next, disciplined>>

RingExit ==
  /\ current \in Ring /\ pc[current] = "exit"
  /\ MayCall /\ ThreadExit
  /\ UNCHANGED <<syncVars, turn, pc, left, next, disciplined>>

Program ==
  \/ MainCreate \/ MainWait
  \/ AcquireTestLock \/ AwaitTurn \/ Awoken \/ PassTurn \/ SignalNext
  \/ ReleaseTestLock \/ RingExit

Library == (SyncContinue \/ Spinning) /\ UNCHANGED <<turn, pc, left, next, disciplined>>

Preempt == SyncInterrupt /\ UNCHANGED <<turn, pc, left, next, disciplined>>

RingEnded == (status # "up" \/ pc[0] = "done") /\ UNCHANGED ringVars

RingNext == Program \/ Library \/ Preempt \/ RingEnded

RingSpec == RingInit /\ [][RingNext]_ringVars

-----------------------------------------------------------------------------

(* The threads pass in reverse order of their numbers: of two threads       *)
(* neither is ever a whole round ahead of the other.                        *)
NobodyLapped == \A t, u \in Ring : left[t] - left[u] \in {-1, 0, 1}

(* thread.h: cv_signal wakes up one thread that is waiting on the condition *)
(* variable.  So whoever has the turn is not asleep, but while the thread   *)
(* that gave it the turn is about to signal.  cv_wait releases the lock and *)
(* sleeps in two steps: the signal sent in between is lost.                 *)
TurnHolderIsAwake ==
  \A t \in Ring : t \in Range(wq[CvOf(Num(t))]) /\ turn = Num(t) =>
    \E u \in Ring : pc[u] = "signal" \/ at[u].point = "wakeup"

=============================================================================
