---------------------------- MODULE ThreadSyncProofs ----------------------------
(***************************************************************************)
(* The locks and condition variables do what their callers rely on: for any *)
(* number of threads, locks and condition variables.  Nothing before the     *)
(* last parts, on test_cv_signal, is about the constants of CvRing, and only *)
(* RingNames there rests on RingAssumption.                                  *)
(***************************************************************************)
EXTENDS CvRing, ThreadSchedProofs

(* A careful program takes one lock at a time. *)
OneLockEach ==
  \A l, m \in Locks : \A t \in inside[l] \cap inside[m] : l = m

(* Who waits for a lock, or is on its way through cv_wait, is in no lock.   *)
WaitersHoldNone ==
  \A t \in Tid : at[t].point \in {"acquire", "release", "woken"} =>
    \A l \in Locks : t \notin inside[l]

(* Only threads that exited have a context that points to thread_exit.      *)
NoneKilled == \A t \in exists \ Zombies : ctx[t] # "exit"

(* The inductive invariant.  HolderCanRun needs OneLockEach and             *)
(* WaitersHoldNone: the thread that goes to sleep must not be the holder of *)
(* any lock.                                                                *)
SyncIInv ==
  /\ IInv /\ SyncTypeOK /\ NoSleeperOnFreeLock
  /\ MutualExclusion /\ HolderCanRun /\ SleepersBelong
  /\ disciplined /\ status = "up" => OneLockEach /\ WaitersHoldNone /\ NoneKilled

-----------------------------------------------------------------------------
(* What a step does to the queues, as far as locks can tell. *)

(* The threads that run or will without anyone's help. *)
Awake == {current} \cup Range(ready)

QueuesShrink ==
  \A q \in Locks \cup Cvs :
    wq'[q] \in Seq(Tid) /\ Range(wq'[q]) \subseteq Range(wq[q])

(* No thread is lost to the ready queue. *)
Quiet == QueuesShrink /\ Awake \subseteq Awake'

(* The current thread is: it exits, or sleeps where no lock is concerned. *)
Leaves == QueuesShrink /\ Awake \ {current} \subseteq Awake'

(* The current thread goes to sleep on q. *)
SleepsOn(q) ==
  /\ Awake \ {current} \subseteq Awake'
  /\ wq[q] \in Seq(Tid) /\ Range(wq'[q]) = Range(wq[q]) \cup {current}
  /\ \A r \in Queues \ {q} : wq'[r] = wq[r]

LEMMA SyncNames ==
  /\ Locks \subseteq Queues /\ Cvs \subseteq Queues /\ Locks \cap Cvs = {}
  /\ Queues \subseteq WaitQueues /\ Tid \subseteq WaitQueues /\ Queues \cap Tid = {}
  /\ THREAD_NONE \notin Tid
  BY SyncAssumption, QueuesAssumption, IdsAreQueues, MaxThreadsAssumption
  DEF THREAD_NONE, Tid

LEMMA PlaceFacts ==
  ASSUME NEW p \in Place
  PROVE  /\ p.point \in {"user", "spin", "acquire", "release", "woken", "wakeup"}
         /\ p.point = "acquire" => p.lock \in Locks /\ p = [point |-> "acquire", lock |-> p.lock]
         /\ p.point \in {"release", "woken"} => p.lock \in Locks /\ p.cv \in Cvs
         /\ p.point = "release" =>
              LET w == [p EXCEPT !.point = "woken"]
              IN  w \in Place /\ w.point = "woken" /\ w.cv = p.cv /\ w.lock = p.lock
         /\ p.point = "wakeup" => p.cv \in Cvs /\ p.all \in BOOLEAN
  BY DEF Place

LEMMA NewPlaces ==
  /\ InCaller \in Place /\ InCaller.point = "user"
  /\ [point |-> "spin"] \in Place
  /\ \A l \in Locks : [point |-> "acquire", lock |-> l] \in Place
  /\ \A l \in Locks, c \in Cvs : [point |-> "release", lock |-> l, cv |-> c] \in Place
  /\ \A c \in Cvs, all \in BOOLEAN :
       LET p == [point |-> "wakeup", cv |-> c, all |-> all]
       IN  p \in Place /\ p.point = "wakeup"
  BY DEF Place, InCaller

(* Steps that leave the queues alone. *)
LEMMA SameIsQuiet ==
  ASSUME TypeOK, UNCHANGED <<current, ready, wq>>
  PROVE  Quiet
  BY SyncNames DEF TypeOK, Quiet, QueuesShrink, Awake

LEMMA SleepIsSleep ==
  ASSUME IInv, status = "up", NEW q \in WaitQueues, q \in Tid => q \in exists,
         NEW saved \in Ctx, GoToSleep(q, saved)
  PROVE  /\ IInv'
         /\ q \in Queues => SleepsOn(q)
         /\ q \notin Locks \cup Cvs => Leaves
  <1>1. IInv'
    BY GoToSleepType, SleepAccounted DEF IInv
  <1>2. /\ ready \in Seq(Tid) /\ ready # <<>> /\ IsInjective(ready)
        /\ wq \in [WaitQueues -> Seq(Tid)] /\ current \in Tid
        /\ current' = Head(ready) /\ ready' = Tail(ready)
        /\ wq' = [wq EXCEPT ![q] = Append(wq[q], current)]
    BY DEF IInv, TypeOK, Accounted, NoThreadTwice, GoToSleep
  <1>3. Awake \ {current} \subseteq Awake'
    BY <1>2, TailQueue DEF Awake
  <1>4. Range(Append(wq[q], current)) = Range(wq[q]) \cup {current}
    BY <1>2, AppendQueue
  <1> QED BY <1>1, <1>2, <1>3, <1>4, SyncNames DEF SleepsOn, Leaves, QueuesShrink

(* lock_release, and the first call of cv_wait. *)
LEMMA ReleaseIsQuiet ==
  ASSUME IInv, InUser, NEW l \in Locks, Release(l),
         UNCHANGED <<exists, current, killq, stranded, ctx, setcontext_called, status>>
  PROVE  /\ IInv' /\ Quiet
         /\ holder[l] # THREAD_NONE => wq'[l] = <<>>
  <1>0. /\ ready \in Seq(Tid) /\ wq \in [WaitQueues -> Seq(Tid)] /\ l \in WaitQueues
        /\ status = "up" /\ l \in Queues /\ TRUE \in BOOLEAN
    BY SyncNames DEF IInv, TypeOK, InUser
  <1>1. CASE holder[l] # THREAD_NONE /\ wq[l] # <<>>
    <2>1. WakeAll(l) /\ ThreadWakeup(l, TRUE)
      BY <1>1 DEF Release, ThreadWakeup
    <2>2. wq' = [wq EXCEPT ![l] = <<>>] /\ Range(ready) \subseteq Range(ready')
      BY <1>0, <2>1, ConcatQueue DEF WakeAll
    <2>3. Quiet /\ wq'[l] = <<>>
      BY <1>0, <2>2, SyncNames, EmptyQueue, EmptySeq DEF Quiet, QueuesShrink, Awake
    <2>4. Next
      BY <1>0, <2>1 DEF Next, Call
    <2> QED BY <2>3, <2>4, NextIInv
  <1>2. CASE ~(holder[l] # THREAD_NONE /\ wq[l] # <<>>)
    <2>1. wq' = wq /\ ready' = ready
      <3>1. CASE holder[l] = THREAD_NONE
        BY <3>1 DEF Release
      <3>2. CASE holder[l] # THREAD_NONE
        <4>1. wq[l] = <<>> /\ ready' = ready \o wq[l] /\ wq' = [wq EXCEPT ![l] = <<>>]
          BY <1>2, <3>2 DEF Release, WakeAll
        <4> QED BY <1>0, <4>1, ConcatEmptySeq
      <3> QED BY <3>1, <3>2
    <2>2. UNCHANGED vars
      BY <2>1 DEF vars
    <2> QED BY <1>2, <2>1, <2>2, NextIInv, SameIsQuiet DEF IInv
  <1> QED BY <1>1, <1>2

(* Queues of freed threads are given up, no others. *)
LEMMA WithoutShrinks ==
  ASSUME TypeOK, NEW G, wq' = Without(G)
  PROVE  QueuesShrink
  <1>1. \A q \in Locks \cup Cvs :
          wq'[q] \in Seq(Tid) /\ (wq'[q] = <<>> \/ wq'[q] = wq[q])
    BY WithoutFacts, SyncNames
  <1> QED BY <1>1, EmptyQueue DEF QueuesShrink

LEMMA ReapingIsQuiet ==
  ASSUME TypeOK, KillExitThreads, Awake \subseteq Awake'
  PROVE  Quiet
  BY WithoutShrinks DEF KillExitThreads, Quiet

LEMMA ContinueIsQuiet ==
  ASSUME IInv, ThreadStub \/ ResumeYield \/ ResumeSleep \/ ResumeWait
  PROVE  IInv' /\ Quiet
  <1>1. IInv'
    BY NextIInv DEF Next, Continue
  <1>2. Awake' = Awake
    BY DEF ThreadStub, ResumeYield, ResumeSleep, ResumeWait, Awake
  <1>3. Quiet
    BY <1>2, SameIsQuiet, ReapingIsQuiet
    DEF ThreadStub, ResumeYield, ResumeSleep, ResumeWait, IInv
  <1> QED BY <1>1, <1>3

LEMMA YieldIsQuiet ==
  ASSUME IInv, NEW want, ThreadYield(want)
  PROVE  IInv' /\ Quiet
  <1>1. IInv'
    BY YieldType, YieldAccounted DEF IInv
  <1>2. {current'} \cup Range(ready') = {current} \cup Range(ready)
    BY YieldExchange DEF IInv
  <1>3. KillExitThreads
    BY DEF ThreadYield
  <1> QED BY <1>1, <1>2, <1>3, ReapingIsQuiet DEF Awake, IInv

LEMMA CallIsQuiet ==
  ASSUME IInv,
         \/ ThreadCreate
         \/ \E tid \in Tid : ThreadKill(tid)
         \/ \E q \in Queues, all \in BOOLEAN : ThreadWakeup(q, all)
  PROVE  IInv' /\ Quiet
  <1>1. IInv'
    BY NextIInv DEF Next, Call
  <1>2. /\ ready \in Seq(Tid) /\ wq \in [WaitQueues -> Seq(Tid)]
        /\ \A q \in Queues : q \in WaitQueues /\ q \notin Tid
        /\ \A r \in Locks \cup Cvs : r \in Queues
        /\ wq' \in [WaitQueues -> Seq(Tid)]
    BY <1>1, SyncNames DEF IInv, TypeOK
  <1>3. CASE ThreadCreate
    <2>1. PICK id \in Tid : ready' = Append(ready, id) /\ wq' = [wq EXCEPT ![id] = <<>>]
      BY <1>3 DEF ThreadCreate, NewId
    <2>2. Range(ready') = Range(ready) \cup {id}
      BY <1>2, <2>1, AppendQueue
    <2> QED BY <1>1, <1>2, <1>3, <2>1, <2>2 DEF ThreadCreate, Quiet, QueuesShrink, Awake
  <1>4. ASSUME NEW tid \in Tid, ThreadKill(tid) PROVE Quiet
    BY <1>4, SameIsQuiet DEF ThreadKill, IInv
  <1>5. ASSUME NEW q \in Queues, NEW all \in BOOLEAN, ThreadWakeup(q, all)
        PROVE  Quiet
    <2>1. wq[q] \in Seq(Tid) /\ wq[q] # <<>> /\ current' = current
      BY <1>2, <1>5 DEF ThreadWakeup
    <2>2. CASE WakeAll(q)
      <3>1. Range(ready) \subseteq Range(ready') /\ wq' = [wq EXCEPT ![q] = <<>>]
        BY <1>2, <2>1, <2>2, ConcatQueue DEF WakeAll
      <3> QED BY <1>2, <2>1, <3>1, EmptyQueue DEF Quiet, QueuesShrink, Awake
    <2>3. CASE WakeOne(q)
      <3>1. /\ Head(wq[q]) \in Tid /\ IsInjective(wq[q])
            /\ Range(Tail(wq[q])) = Range(wq[q]) \ {Head(wq[q])}
        BY <1>2, <1>5, <2>1, TailQueue
        DEF IInv, Accounted, NoThreadTwice, ThreadWakeup, InUser
      <3>2. Range(ready) \subseteq Range(ready') /\ wq' = [wq EXCEPT ![q] = Tail(wq[q])]
        BY <1>2, <2>3, <3>1, AppendQueue DEF WakeOne
      <3> QED BY <1>2, <2>1, <3>1, <3>2 DEF Quiet, QueuesShrink, Awake
    <2> QED BY <1>5, <2>2, <2>3 DEF ThreadWakeup
  <1> QED BY <1>1, <1>3, <1>4, <1>5

LEMMA WaitLeaves ==
  ASSUME IInv, NEW tid \in Tid, ThreadWait(tid)
  PROVE  IInv' /\ Leaves
  <1>1. IInv'
    BY NextIInv DEF Next, Call
  <1>2. CASE GoToSleep(tid, "wait")
    <2>1. /\ "wait" \in Ctx /\ tid \in WaitQueues /\ tid \in exists /\ status = "up"
          /\ tid \notin Locks \cup Cvs
      BY SyncNames DEF Ctx, ThreadWait, InUser
    <2> QED BY <1>1, <1>2, <2>1, SleepIsSleep
  <1>3. CASE ~ GoToSleep(tid, "wait")
    <2>1. KillExitThreads /\ UNCHANGED <<current, ready>>
      BY <1>3 DEF ThreadWait
    <2> QED BY <1>1, <2>1, WithoutShrinks DEF KillExitThreads, Leaves, Awake, IInv
  <1> QED BY <1>2, <1>3

LEMMA ExitLeaves ==
  ASSUME IInv, ThreadExit
  PROVE  IInv' /\ QueuesShrink /\ (status' = "up" => Leaves)
  <1>1. IInv'
    BY ExitType, ExitAccounted DEF IInv
  <1>2. QueuesShrink
    BY WithoutShrinks DEF ThreadExit, IInv
  <1>3. CASE ExitProcess
    BY <1>1, <1>2, <1>3 DEF ExitProcess
  <1>4. CASE ExitToNext
    <2>1. /\ ReadyAtExit \in Seq(Tid) /\ IsInjective(ReadyAtExit)
          /\ Range(ready) \subseteq Range(ReadyAtExit)
      BY ReadyAtExitFacts DEF IInv, ThreadExit, Accounted
    <2>2. Range(ready') = Range(ReadyAtExit) \ {current'}
      BY <1>4, <2>1, TailQueue DEF ExitToNext
    <2> QED BY <1>1, <1>2, <2>1, <2>2 DEF Leaves, Awake
  <1> QED BY <1>3, <1>4 DEF ThreadExit

(* Only thread_kill makes a thread that has not exited a killed one. *)
LEMMA NoneKilledStays ==
  ASSUME IInv, NoneKilled, status = "up", status' = "up",
         \/ ThreadStub \/ ResumeYield \/ ResumeSleep \/ ResumeWait
         \/ ThreadCreate \/ ThreadExit
         \/ \E want : ThreadYield(want)
         \/ \E tid \in Tid : ThreadWait(tid)
         \/ \E q, saved : saved # "exit" /\ GoToSleep(q, saved)
         \/ UNCHANGED <<exists, killq, ctx>>
         \/ UNCHANGED <<exists, killq>> /\ ctx' = [ctx EXCEPT ![current] = "run"]
  PROVE  NoneKilled'
  <1>0. /\ current \in Tid /\ ctx \in [Tid -> Ctx] /\ exists \subseteq Tid
        /\ Zombies' = Range(killq')
    BY DEF IInv, TypeOK, Zombies
  <1>1. ASSUME exists' \ Zombies' \subseteq exists \ Zombies,
               \A t \in exists' \ Zombies' : ctx'[t] = "exit" => ctx[t] = "exit"
        PROVE  NoneKilled'
    BY <1>1 DEF NoneKilled
  <1>2. KillExitThreads => exists' \ Zombies' \subseteq exists \ Zombies
    BY <1>0, EmptyQueue DEF KillExitThreads
  <1>3. UNCHANGED <<exists, killq>> => exists' \ Zombies' = exists \ Zombies
    BY DEF Zombies
  <1>4. CASE ThreadStub \/ ResumeYield \/ ResumeSleep
    BY <1>0, <1>1, <1>3, <1>4 DEF ThreadStub, ResumeYield, ResumeSleep
  <1>5. CASE ResumeWait
    BY <1>0, <1>1, <1>2, <1>5 DEF ResumeWait
  <1>6. ASSUME NEW want, ThreadYield(want) PROVE NoneKilled'
    <2>1. \A t \in Tid : ctx'[t] = "exit" => ctx[t] = "exit"
      BY <1>0, <1>6
      DEF ThreadYield, YieldAlone, YieldAny, YieldSelf, YieldTo, YieldAbsent, SwitchTo
    <2>2. exists' \subseteq Tid
      BY <1>0, <1>6 DEF ThreadYield, KillExitThreads
    <2> QED BY <1>1, <1>2, <1>6, <2>1, <2>2 DEF ThreadYield
  <1>7. CASE ThreadCreate
    <2>1. PICK id \in Tid : exists' = exists \cup {id} /\ ctx' = [ctx EXCEPT ![id] = "stub"]
      BY <1>7 DEF ThreadCreate, NewId
    <2>2. Zombies' = Zombies
      BY <1>7 DEF ThreadCreate, Zombies
    <2>3. \A t \in Tid : ctx'[t] = IF t = id THEN "stub" ELSE ctx[t]
      BY <1>0, <2>1
    <2> QED BY <1>0, <2>1, <2>2, <2>3 DEF NoneKilled
  <1>8. CASE ThreadExit
    <2>1. /\ exists' = exists \ Zombies /\ killq' = <<current>>
          /\ \A t \in Tid \ {current} : ctx'[t] = ctx[t]
      BY <1>0, <1>8 DEF ThreadExit, ExitProcess, ExitToNext
    <2>2. Zombies' = {current}
      BY <1>0, <2>1 DEF Range
    <2> QED BY <1>0, <1>1, <2>1, <2>2
  <1>9. ASSUME NEW q, NEW saved, saved # "exit", GoToSleep(q, saved) PROVE NoneKilled'
    BY <1>0, <1>1, <1>3, <1>9 DEF GoToSleep
  <1>10. ASSUME NEW tid \in Tid, ThreadWait(tid) PROVE NoneKilled'
    BY <1>1, <1>2, <1>9, <1>10 DEF ThreadWait, KillExitThreads
  <1>11. CASE UNCHANGED <<exists, killq, ctx>>
    BY <1>1, <1>3, <1>11
  <1>12. CASE UNCHANGED <<exists, killq>> /\ ctx' = [ctx EXCEPT ![current] = "run"]
    BY <1>0, <1>1, <1>3, <1>12
  <1> QED
    BY <1>4, <1>5, <1>6, <1>7, <1>8, <1>9, <1>10, <1>11, <1>12

-----------------------------------------------------------------------------
(* What the properties of careful programs come to. *)

Sound ==
  /\ \A l \in Locks : inside[l] = IF holder[l] = THREAD_NONE THEN {} ELSE {holder[l]}
  /\ \A l \in Locks : holder[l] # THREAD_NONE => holder[l] \in Awake
  /\ \A l \in Locks : \A t \in Range(wq[l]) : at[t] = [point |-> "acquire", lock |-> l]
  /\ \A c \in Cvs : \A t \in Range(wq[c]) : at[t].point = "woken" /\ at[t].cv = c
  /\ OneLockEach /\ WaitersHoldNone /\ NoneKilled

NoneSpins == \A t \in Tid : at[t].point # "spin"

Parts ==
  /\ IInv /\ SyncTypeOK /\ NoSleeperOnFreeLock
  /\ disciplined => NoneSpins
  /\ disciplined /\ status = "up" => Sound

LEMMA SyncParts == SyncIInv <=> Parts
  <1>1. ASSUME IInv, SyncTypeOK
        PROVE  /\ \A c \in Cvs : \A t \in Range(wq[c]) : t \in Tid /\ at[t] \in Place
               /\ WaitersHoldNone =>
                    \A c \in Cvs : \A t \in Range(wq[c]) :
                      at[t].point = "woken" => t \notin inside[at[t].lock]
    <2>1. \A c \in Cvs : \A t \in Range(wq[c]) : t \in Tid /\ at[t] \in Place
      BY <1>1, SyncNames, RangeOfSeq DEF IInv, TypeOK, SyncTypeOK
    <2> QED BY <2>1, PlaceFacts DEF WaitersHoldNone
  <1>2. ASSUME SyncIInv PROVE Parts
    BY <1>2 DEF SyncIInv, Parts, Sound, NoneSpins, MutualExclusion, HolderCanRun,
                SleepersBelong, Awake
  <1>3. ASSUME Parts PROVE SyncIInv
    BY <1>1, <1>3 DEF SyncIInv, Parts, Sound, NoneSpins, MutualExclusion, HolderCanRun,
                SleepersBelong, Awake
  <1> QED BY <1>2, <1>3

-----------------------------------------------------------------------------
(* The steps keep the invariant. *)

LEMMA FreeLocksStayEmpty ==
  ASSUME NoSleeperOnFreeLock, QueuesShrink,
         \A l \in Locks : holder'[l] = THREAD_NONE =>
            holder[l] = THREAD_NONE \/ wq'[l] = <<>>
  PROVE  NoSleeperOnFreeLock'
  <1> SUFFICES ASSUME NEW l \in Locks, holder'[l] = THREAD_NONE PROVE wq'[l] = <<>>
    BY DEF NoSleeperOnFreeLock
  <1>1. CASE holder[l] = THREAD_NONE
    <2>1. wq[l] = <<>> /\ l \in Queues
      BY <1>1, SyncNames DEF NoSleeperOnFreeLock
    <2>2. Range(wq'[l]) = {} /\ wq'[l] \in Seq(Tid)
      BY <2>1, EmptyQueue DEF QueuesShrink
    <2> QED BY <2>2, QueueEmpty
  <1> QED BY <1>1

(* Only the current thread goes to another place, not to spin there, and if *)
(* it waits for a lock or in cv_wait it did so before.                      *)
Waiting == {"acquire", "release", "woken"}

OnlyCurrentMoves ==
  /\ at' \in [Tid -> Place]
  /\ \A t \in Tid :
       \/ at'[t] = at[t]
       \/ /\ t = current
          /\ at'[t].point # "spin"
          /\ at'[t].point \in Waiting => at[t].point \in Waiting

LEMMA NobodyMoves == SyncTypeOK /\ UNCHANGED at => OnlyCurrentMoves
  BY DEF SyncTypeOK, OnlyCurrentMoves

(* Steps that concern no lock. *)
LEMMA LocksStay ==
  ASSUME Parts, IInv', UNCHANGED <<holder, inside>>, OnlyCurrentMoves, status = "up",
         disciplined' \in BOOLEAN, disciplined' => disciplined,
         QueuesShrink,
         status' = "up" => Quiet \/ (Leaves /\ (disciplined' => HoldsNone)),
         status' = "up" /\ disciplined' => NoneKilled'
  PROVE  Parts'
  <1>1. SyncTypeOK' /\ NoSleeperOnFreeLock' /\ (disciplined' => NoneSpins')
    BY FreeLocksStayEmpty DEF Parts, SyncTypeOK, OnlyCurrentMoves, NoneSpins
  <1>2. ASSUME disciplined', status' = "up" PROVE Sound'
    <2>1. Sound /\ holder' = holder /\ inside' = inside /\ NoneKilled'
      BY <1>2 DEF Parts
    <2>2. \A l \in Locks : holder[l] # THREAD_NONE => holder[l] \in Awake'
      <3>1. CASE Quiet
        BY <2>1, <3>1 DEF Sound, Quiet
      <3>2. CASE Leaves /\ HoldsNone
        BY <2>1, <3>2 DEF Sound, Leaves, HoldsNone
      <3> QED BY <1>2, <3>1, <3>2
    <2>3. \A q \in Locks \cup Cvs : current \notin Range(wq[q]) /\ wq[q] \in Seq(Tid)
      BY SyncNames DEF Parts, IInv, TypeOK, Accounted, NoThreadTwice, Sleepers
    <2>4. \A q \in Locks \cup Cvs : \A t \in Range(wq'[q]) :
            t \in Range(wq[q]) /\ at'[t] = at[t]
      BY <2>3, RangeOfSeq DEF QueuesShrink, OnlyCurrentMoves
    <2>5. OneLockEach' /\ WaitersHoldNone'
      BY <2>1 DEF Sound, OneLockEach, WaitersHoldNone, OnlyCurrentMoves, Waiting
    <2> QED BY <2>1, <2>2, <2>4, <2>5 DEF Sound
  <1> QED BY <1>1, <1>2 DEF Parts

(* lock_acquire takes the lock. *)
LEMMA TakeLockStep ==
  ASSUME Parts, status = "up", NEW l \in Locks, TakeLock(l),
         disciplined' \in BOOLEAN, disciplined' => disciplined /\ HoldsNone
  PROVE  Parts'
  <1>0. /\ current \in Tid /\ holder \in [Locks -> Tid \cup {THREAD_NONE}]
        /\ at \in [Tid -> Place] /\ inside \in [Locks -> SUBSET Tid]
        /\ holder[l] = THREAD_NONE /\ holder' = [holder EXCEPT ![l] = current]
        /\ inside' = [inside EXCEPT ![l] = @ \cup {current}]
        /\ at' = [at EXCEPT ![current] = InCaller]
        /\ UNCHANGED <<exists, current, ready, killq, wq, stranded, status>>
        /\ ctx' = [ctx EXCEPT ![current] = "run"]
    BY DEF Parts, IInv, TypeOK, SyncTypeOK, TakeLock, Goes
  <1>1. IInv' /\ Quiet
    <2>1. TypeOK' /\ OneZombie'
      BY DEF Parts, IInv, TypeOK, OneZombie, TakeLock, Ctx
    <2>2. UNCHANGED placed
      BY <1>0 DEF placed
    <2> QED BY <1>0, <2>1, <2>2, NothingMoves, SameIsQuiet DEF Parts, IInv
  <1>2. SyncTypeOK'
    BY <1>0, NewPlaces DEF SyncTypeOK
  <1>3. NoSleeperOnFreeLock'
    <2>1. \A m \in Locks : holder'[m] = THREAD_NONE => holder[m] = THREAD_NONE
      BY <1>0, SyncNames
    <2> QED BY <1>1, <2>1, FreeLocksStayEmpty DEF Parts, Quiet
  <1>4. disciplined' => NoneSpins'
    BY <1>0, NewPlaces DEF Parts, NoneSpins
  <1>5. ASSUME disciplined' PROVE Sound'
    <2>1. Sound /\ HoldsNone /\ l \in Queues
      BY <1>5, SyncNames DEF Parts
    <2>2. \A m \in Locks :
            inside'[m] = IF holder'[m] = THREAD_NONE THEN {} ELSE {holder'[m]}
      BY <1>0, <2>1, SyncNames DEF Sound
    <2>3. \A m \in Locks : holder'[m] # THREAD_NONE => holder'[m] \in Awake'
      BY <1>0, <2>1 DEF Sound, Awake
    <2>4. \A q \in Locks \cup Cvs : current \notin Range(wq[q])
      BY <1>0, SyncNames DEF Parts, IInv, Accounted, NoThreadTwice, Sleepers
    <2>5. \A q \in Locks \cup Cvs : \A t \in Range(wq'[q]) : t \in Tid /\ at'[t] = at[t]
      BY <1>0, <2>4, SyncNames, RangeOfSeq DEF Parts, IInv, TypeOK
    <2>6. OneLockEach'
      BY <1>0, <2>1 DEF Sound, OneLockEach, HoldsNone
    <2>7. WaitersHoldNone'
      BY <1>0, <2>1, NewPlaces DEF Sound, WaitersHoldNone
    <2>8. NoneKilled'
      BY <1>0, <2>1, NoneKilledStays DEF Sound, Parts
    <2>9. \A m \in Locks : \A t \in Range(wq'[m]) :
            at'[t] = [point |-> "acquire", lock |-> m]
      <3>1. \A m \in Locks : \A t \in Range(wq[m]) :
              at[t] = [point |-> "acquire", lock |-> m]
        BY <2>1 DEF Sound
      <3>2. wq' = wq
        BY <1>0
      <3> QED BY <2>5, <3>1, <3>2
    <2>10. \A c \in Cvs : \A t \in Range(wq'[c]) :
             at'[t].point = "woken" /\ at'[t].cv = c
      BY <1>0, <2>1, <2>5 DEF Sound
    <2> QED BY <2>2, <2>3, <2>6, <2>7, <2>8, <2>9, <2>10 DEF Sound
  <1> QED BY <1>1, <1>2, <1>3, <1>4, <1>5 DEF Parts

(* A thread goes to sleep, in lock_acquire or in cv_wait. *)
LEMMA SleepStep ==
  ASSUME Parts, status = "up", NEW q \in Locks \cup Cvs, NEW place \in Place,
         GoToSleep(q, "sleep"), Goes(place), UNCHANGED <<holder, inside>>,
         place.point \in {"acquire", "woken"},
         q \in Locks => place = [point |-> "acquire", lock |-> q] /\ holder[q] # THREAD_NONE,
         q \in Cvs => place.point = "woken" /\ place.cv = q,
         disciplined' \in BOOLEAN, disciplined' => disciplined /\ HoldsNone
  PROVE  Parts'
  <1>0. /\ current \in Tid /\ holder \in [Locks -> Tid \cup {THREAD_NONE}]
        /\ at \in [Tid -> Place] /\ inside \in [Locks -> SUBSET Tid]
        /\ holder' = holder /\ inside' = inside
        /\ at' = [at EXCEPT ![current] = place]
        /\ status' = "up" /\ q \in Queues
    BY SyncNames DEF Parts, IInv, TypeOK, SyncTypeOK, Goes, GoToSleep
  <1>1. IInv' /\ SleepsOn(q)
    <2>1. "sleep" \in Ctx /\ q \in WaitQueues /\ q \notin Tid
      BY <1>0, SyncNames DEF Ctx
    <2> QED BY <1>0, <2>1, SleepIsSleep DEF Parts
  <1>2. SyncTypeOK'
    BY <1>0 DEF SyncTypeOK
  <1>3. NoSleeperOnFreeLock'
    <2>1. \A l \in Locks : l # q => wq'[l] = wq[l]
      BY <1>1, SyncNames DEF SleepsOn
    <2> QED BY <1>0, <2>1 DEF Parts, NoSleeperOnFreeLock
  <1>4. disciplined' => NoneSpins'
    BY <1>0 DEF Parts, NoneSpins
  <1>5. ASSUME disciplined' PROVE Sound'
    <2>1. Sound /\ HoldsNone
      BY <1>5 DEF Parts
    <2>2. \A l \in Locks : holder[l] # THREAD_NONE => holder[l] \in Awake'
      BY <1>1, <2>1 DEF Sound, HoldsNone, SleepsOn
    <2>3. \A r \in Locks \cup Cvs : current \notin Range(wq[r]) /\ wq[r] \in Seq(Tid)
      BY <1>0, SyncNames DEF Parts, IInv, TypeOK, Accounted, NoThreadTwice, Sleepers
    <2>4. \A r \in Locks \cup Cvs : \A t \in Range(wq'[r]) :
            \/ t \in Range(wq[r]) /\ at'[t] = at[t]
            \/ r = q /\ at'[t] = place
      <3> SUFFICES ASSUME NEW r \in Locks \cup Cvs, NEW t \in Range(wq'[r])
                   PROVE  \/ t \in Range(wq[r]) /\ at'[t] = at[t]
                          \/ r = q /\ at'[t] = place
        OBVIOUS
      <3>1. t \in Range(wq[r]) => t \in Tid /\ t # current /\ at'[t] = at[t]
        BY <1>0, <2>3, RangeOfSeq
      <3>2. r # q => wq'[r] = wq[r]
        BY <1>1, SyncNames DEF SleepsOn
      <3>3. r = q => Range(wq'[r]) = Range(wq[r]) \cup {current}
        BY <1>1 DEF SleepsOn
      <3> QED BY <1>0, <3>1, <3>2, <3>3
    <2>5. \A l \in Locks : \A t \in Range(wq'[l]) :
            at'[t] = [point |-> "acquire", lock |-> l]
      <3>1. \A l \in Locks : \A t \in Range(wq[l]) :
              at[t] = [point |-> "acquire", lock |-> l]
        BY <2>1 DEF Sound
      <3>2. SUFFICES ASSUME NEW l \in Locks, NEW t \in Range(wq'[l])
                     PROVE  at'[t] = [point |-> "acquire", lock |-> l]
        OBVIOUS
      <3>3. CASE t \in Range(wq[l]) /\ at'[t] = at[t]
        BY <3>1, <3>3
      <3>4. CASE l = q /\ at'[t] = place
        BY <3>4
      <3> QED BY <2>4, <3>3, <3>4
    <2>6. \A c \in Cvs : \A t \in Range(wq'[c]) :
            at'[t].point = "woken" /\ at'[t].cv = c
      BY <2>1, <2>4 DEF Sound
    <2>7. OneLockEach' /\ WaitersHoldNone'
      BY <1>0, <2>1 DEF Sound, OneLockEach, WaitersHoldNone, HoldsNone
    <2>8. NoneKilled'
      BY <1>0, <2>1, NoneKilledStays DEF Sound, Parts
    <2>9. \A l \in Locks :
            inside'[l] = IF holder'[l] = THREAD_NONE THEN {} ELSE {holder'[l]}
      BY <1>0, <2>1 DEF Sound
    <2> QED BY <1>0, <2>2, <2>5, <2>6, <2>7, <2>8, <2>9 DEF Sound
  <1> QED BY <1>1, <1>2, <1>3, <1>4, <1>5 DEF Parts

(* The loop of lock_acquire; it never spins on a lock of careful programs.  *)
LEMMA LockLoopStep ==
  ASSUME Parts, status = "up", NEW l \in Locks, LockLoop(l),
         disciplined' \in BOOLEAN, disciplined' => disciplined /\ HoldsNone
  PROVE  Parts'
  <1>1. CASE TakeLock(l)
    BY <1>1, TakeLockStep
  <1>2. ASSUME holder[l] # THREAD_NONE, GoToSleep(l, "sleep"),
               Goes([point |-> "acquire", lock |-> l]), UNCHANGED <<holder, inside>>
        PROVE  Parts'
    BY <1>2, SleepStep, NewPlaces, SyncNames
  <1>3. ASSUME holder[l] # THREAD_NONE, ready = <<>>,
               ctx' = [ctx EXCEPT ![current] = "run"], Goes([point |-> "spin"]),
               UNCHANGED <<exists, current, ready, killq, wq, stranded,
                           setcontext_called, status, holder, inside>>
        PROVE  Parts'
    <2>1. ~disciplined'
      <3> SUFFICES ASSUME disciplined' PROVE FALSE
        OBVIOUS
      <3>1. Sound /\ HoldsNone
        BY DEF Parts
      <3>2. holder[l] \in Awake /\ inside[l] = {holder[l]}
        BY <1>3, <3>1 DEF Sound
      <3>3. Awake = {current}
        BY <1>3, EmptyQueue DEF Awake
      <3> QED BY <3>1, <3>2, <3>3 DEF HoldsNone
    <2>2. SyncTypeOK'
      BY <1>3, NewPlaces DEF Parts, SyncTypeOK, Goes, IInv, TypeOK
    <2>3. IInv'
      <3>1. TypeOK' /\ OneZombie'
        BY <1>3 DEF Parts, IInv, TypeOK, OneZombie, Ctx
      <3>2. UNCHANGED placed
        BY <1>3 DEF placed
      <3> QED BY <1>3, <3>1, <3>2, NothingMoves DEF Parts, IInv
    <2>4. NoSleeperOnFreeLock'
      BY <1>3 DEF Parts, NoSleeperOnFreeLock
    <2> QED BY <2>1, <2>2, <2>3, <2>4 DEF Parts
  <1> QED BY <1>1, <1>2, <1>3 DEF LockLoop, AwaitLock

(* lock_release, on its own or as the first part of cv_wait. *)
LEMMA ReleaseStep ==
  ASSUME Parts, InUser, NEW l \in Locks, Release(l),
         UNCHANGED <<exists, current, killq, stranded, ctx, setcontext_called, status>>,
         \/ at' = at
         \/ \E c \in Cvs : Goes([point |-> "release", lock |-> l, cv |-> c]),
         disciplined' \in BOOLEAN, disciplined' => disciplined /\ current \in inside[l]
  PROVE  Parts'
  <1>0. /\ current \in Tid /\ holder \in [Locks -> Tid \cup {THREAD_NONE}]
        /\ at \in [Tid -> Place] /\ inside \in [Locks -> SUBSET Tid]
        /\ holder' = [holder EXCEPT ![l] = THREAD_NONE]
        /\ inside' = [inside EXCEPT ![l] = @ \ {current}]
        /\ status = "up" /\ status' = "up" /\ l \in Queues
    BY SyncNames DEF Parts, IInv, TypeOK, SyncTypeOK, Release, InUser
  <1>1. IInv' /\ Quiet /\ (holder[l] # THREAD_NONE => wq'[l] = <<>>)
    BY ReleaseIsQuiet DEF Parts
  <1>2. /\ at' \in [Tid -> Place]
        /\ \A t \in Tid : \/ at'[t] = at[t]
                          \/ t = current /\ at'[t].point = "release"
    <2>1. ASSUME NEW c \in Cvs, Goes([point |-> "release", lock |-> l, cv |-> c])
          PROVE  /\ at' \in [Tid -> Place]
                 /\ \A t \in Tid : \/ at'[t] = at[t]
                                   \/ t = current /\ at'[t].point = "release"
      BY <1>0, <2>1, NewPlaces DEF Goes
    <2> QED BY <1>0, <2>1
  <1>3. SyncTypeOK'
    BY <1>0, <1>2 DEF SyncTypeOK
  <1>4. NoSleeperOnFreeLock'
    <2>1. \A m \in Locks : holder'[m] = THREAD_NONE =>
             holder[m] = THREAD_NONE \/ wq'[m] = <<>>
      BY <1>0, <1>1
    <2> QED BY <1>1, <2>1, FreeLocksStayEmpty DEF Parts, Quiet
  <1>5. disciplined' => NoneSpins'
    BY <1>2 DEF Parts, NoneSpins
  <1>6. ASSUME disciplined' PROVE Sound'
    <2>1. Sound /\ current \in inside[l]
      BY <1>0, <1>6 DEF Parts
    <2>2. \A m \in Locks :
            inside'[m] = IF holder'[m] = THREAD_NONE THEN {} ELSE {holder'[m]}
      <3>1. \A m \in Locks :
              inside[m] = IF holder[m] = THREAD_NONE THEN {} ELSE {holder[m]}
        BY <2>1 DEF Sound
      <3>2. inside[l] = {current}
        BY <2>1, <3>1
      <3>3. inside'[l] = {} /\ holder'[l] = THREAD_NONE
        BY <1>0, <3>2
      <3>4. \A m \in Locks \ {l} : inside'[m] = inside[m] /\ holder'[m] = holder[m]
        BY <1>0
      <3> QED BY <3>1, <3>3, <3>4
    <2>3. \A m \in Locks : holder'[m] # THREAD_NONE => holder'[m] \in Awake'
      BY <1>0, <1>1, <2>1 DEF Sound, Quiet
    <2>4. \A q \in Locks \cup Cvs : \A t \in Range(wq'[q]) :
            t \in Range(wq[q]) /\ t \in Tid /\ t # current
      <3>1. \A q \in Locks \cup Cvs : current \notin Range(wq[q]) /\ wq[q] \in Seq(Tid)
        BY <1>0, SyncNames DEF Parts, IInv, TypeOK, Accounted, NoThreadTwice, Sleepers
      <3>2. \A q \in Locks \cup Cvs : Range(wq'[q]) \subseteq Range(wq[q])
        BY <1>1, SyncNames DEF Quiet, QueuesShrink
      <3> QED BY <3>1, <3>2, RangeOfSeq
    <2>5. /\ \A m \in Locks : \A t \in Range(wq'[m]) :
               at'[t] = [point |-> "acquire", lock |-> m]
          /\ \A c \in Cvs : \A t \in Range(wq'[c]) :
               at'[t].point = "woken" /\ at'[t].cv = c
      BY <1>2, <2>1, <2>4 DEF Sound
    <2>6. \A m \in Locks : inside'[m] = inside[m] \ {current}
      BY <1>0, <2>1 DEF Sound, OneLockEach
    <2>7. OneLockEach'
      BY <2>1, <2>6 DEF Sound, OneLockEach
    <2>8. WaitersHoldNone'
      BY <1>2, <2>1, <2>6 DEF Sound, WaitersHoldNone
    <2>9. NoneKilled'
      BY <1>0, <2>1, NoneKilledStays DEF Sound, Parts
    <2> QED BY <2>2, <2>3, <2>5, <2>7, <2>8, <2>9 DEF Sound
  <1> QED BY <1>0, <1>1, <1>3, <1>4, <1>5, <1>6 DEF Parts

(* Steps in the functions that leave the scheduler as it is: cv_wait goes    *)
(* on without having slept, cv_signal finds that its caller has the lock.   *)
LEMMA MoveStep ==
  ASSUME Parts, status = "up", NEW place \in Place, UNCHANGED vars, Goes(place),
         place.point # "spin",
         place.point \in Waiting => at[current].point \in Waiting,
         UNCHANGED <<holder, inside>>,
         disciplined' \in BOOLEAN, disciplined' => disciplined
  PROVE  Parts'
  <1>1. /\ current \in Tid /\ at \in [Tid -> Place] /\ IInv
        /\ at' = [at EXCEPT ![current] = place]
    BY DEF Parts, IInv, TypeOK, SyncTypeOK, Goes
  <1>2. OnlyCurrentMoves
    BY <1>1 DEF OnlyCurrentMoves
  <1>3. IInv' /\ Quiet
    BY <1>1, NextIInv, SameIsQuiet DEF vars, IInv
  <1>4. status' = "up" /\ disciplined' => NoneKilled'
    BY DEF Parts, Sound, NoneKilled, Zombies, vars
  <1> QED BY <1>2, <1>3, <1>4, LocksStay DEF Quiet

(* cv_signal and cv_broadcast, the call of thread_wakeup. *)
LEMMA WakeupStep ==
  ASSUME Parts, CvWakeup, UNCHANGED disciplined
  PROVE  Parts'
  <1> DEFINE c == at[current].cv
             all == at[current].all
  <1>1. /\ current \in Tid /\ at \in [Tid -> Place] /\ IInv /\ status = "up"
        /\ disciplined \in BOOLEAN
    BY DEF Parts, IInv, TypeOK, SyncTypeOK, CvWakeup, InUser
  <1>2. /\ Goes(InCaller) /\ UNCHANGED <<holder, inside>>
        /\ ThreadWakeup(c, all) \/ UNCHANGED vars
    BY DEF CvWakeup
  <1>3. c \in Queues /\ all \in BOOLEAN
    BY <1>1, PlaceFacts, SyncNames DEF CvWakeup
  <1> HIDE DEF c, all
  <1>4. CASE UNCHANGED vars
    BY <1>1, <1>2, <1>4, MoveStep, NewPlaces DEF Waiting
  <1>5. CASE ThreadWakeup(c, all)
    <2>1. IInv' /\ Quiet
      BY <1>1, <1>3, <1>5, CallIsQuiet
    <2>2. OnlyCurrentMoves
      BY <1>1, <1>2, NewPlaces DEF Goes, OnlyCurrentMoves, Waiting
    <2>3. status' = "up" /\ disciplined' => NoneKilled'
      BY <1>1, <1>5, NoneKilledStays DEF ThreadWakeup, Parts, Sound
    <2> QED BY <1>1, <1>2, <2>1, <2>2, <2>3, LocksStay DEF Quiet
  <1> QED BY <1>2, <1>4, <1>5

(* A killed thread exits: then the program was not careful. *)
LEMMA KilledExitStep ==
  ASSUME Parts, ctx[current] = "exit", ThreadExit, Goes(InCaller),
         UNCHANGED <<holder, inside, disciplined>>
  PROVE  Parts'
  <1>1. IInv' /\ QueuesShrink
    BY ExitLeaves DEF Parts
  <1>2. ~disciplined
    <2>1. current \in exists \ Zombies /\ status = "up"
      BY DEF Parts, IInv, ThreadExit, Accounted, NoThreadLost, NoThreadTwice
    <2> QED BY <2>1 DEF Parts, Sound, NoneKilled
  <1>3. SyncTypeOK' /\ NoSleeperOnFreeLock'
    BY <1>1, NewPlaces, FreeLocksStayEmpty DEF Parts, SyncTypeOK, Goes, IInv, TypeOK
  <1> QED BY <1>1, <1>2, <1>3 DEF Parts

LEMMA CallStep ==
  ASSUME Parts, AnyCall
  PROVE  Parts'
  <1>0. IInv /\ disciplined \in BOOLEAN
    BY DEF Parts, SyncTypeOK
  <1>1. \A rule \in BOOLEAN : Keeps(rule) =>
          disciplined' \in BOOLEAN /\ (disciplined' => disciplined /\ rule)
    BY <1>0 DEF Keeps
  <1>2. /\ HoldsNone \in BOOLEAN
        /\ \A l \in Locks : (current \in inside[l]) \in BOOLEAN
    BY DEF HoldsNone
  <1>3. CASE SchedCall /\ Keeps(TRUE)
    <2>1. /\ UNCHANGED <<holder, inside>> /\ OnlyCurrentMoves /\ status = "up"
          /\ disciplined' \in BOOLEAN /\ (disciplined' => disciplined)
      BY <1>1, <1>3, NobodyMoves DEF SchedCall, MayCall, InUser, syncVars, Parts
    <2>2. \/ ThreadCreate
          \/ \E q \in Queues, all \in BOOLEAN : ThreadWakeup(q, all)
          \/ \E want : ThreadYield(want)
          \/ BeyondTable
      BY <1>3 DEF SchedCall, ProgramQueues
    <2>3. IInv' /\ Quiet
      <3>1. CASE BeyondTable
        BY <1>0, <3>1, NextIInv, SameIsQuiet DEF Next, BeyondTable, IInv
      <3> QED BY <1>0, <2>2, <3>1, CallIsQuiet, YieldIsQuiet
    <2>4. status' = "up" /\ disciplined' => NoneKilled'
      BY <1>0, <2>1, <2>2, NoneKilledStays DEF ThreadWakeup, BeyondTable, Parts, Sound
    <2> QED BY <2>1, <2>3, <2>4, LocksStay DEF Quiet
  <1>9. CASE BlockingCall /\ Keeps(HoldsNone)
    <2>1. /\ UNCHANGED <<holder, inside>> /\ OnlyCurrentMoves /\ status = "up"
          /\ disciplined' \in BOOLEAN /\ (disciplined' => disciplined /\ HoldsNone)
      BY <1>1, <1>2, <1>9, NobodyMoves DEF BlockingCall, MayCall, InUser, syncVars, Parts
    <2>2. IInv' /\ QueuesShrink /\ (status' = "up" => Leaves)
      <3>1. ASSUME NEW q \in ProgramQueues, ThreadSleep(q) PROVE IInv' /\ Leaves
        <4>1. /\ q \in WaitQueues /\ q \notin Tid /\ q \notin Locks \cup Cvs
              /\ "sleep" \in Ctx
          BY SyncNames DEF ProgramQueues, Ctx
        <4> QED BY <1>0, <2>1, <3>1, <4>1, SleepIsSleep DEF ThreadSleep
      <3> QED BY <1>0, <1>9, <3>1, WaitLeaves, ExitLeaves DEF BlockingCall, Leaves
    <2>3. status' = "up" /\ disciplined' => NoneKilled'
      BY <1>0, <1>9, <2>1, NoneKilledStays DEF BlockingCall, ThreadSleep, Parts, Sound
    <2> QED BY <2>1, <2>2, <2>3, LocksStay
  <1>4. CASE KillCall /\ Keeps(FALSE)
    <2>1. /\ UNCHANGED <<holder, inside>> /\ OnlyCurrentMoves /\ status = "up"
          /\ ~disciplined' /\ disciplined' \in BOOLEAN
      BY <1>4, NobodyMoves DEF KillCall, MayCall, InUser, Keeps, syncVars, Parts
    <2>2. IInv' /\ Quiet
      BY <1>0, <1>4, CallIsQuiet DEF KillCall
    <2> QED BY <2>1, <2>2, LocksStay DEF Quiet
  <1>5. ASSUME NEW l \in Locks, LockAcquire(l), Keeps(HoldsNone) PROVE Parts'
    BY <1>1, <1>2, <1>5, LockLoopStep DEF LockAcquire, MayCall, InUser
  <1>6. ASSUME NEW l \in Locks, LockRelease(l), Keeps(current \in inside[l]) PROVE Parts'
    BY <1>1, <1>2, <1>6, ReleaseStep DEF LockRelease, MayCall
  <1>7. ASSUME NEW l \in Locks, NEW c \in Cvs, CvWait(c, l), Keeps(current \in inside[l])
        PROVE  Parts'
    BY <1>1, <1>2, <1>7, ReleaseStep DEF CvWait, MayCall
  <1>8. ASSUME NEW l \in Locks, NEW c \in Cvs, NEW all \in BOOLEAN,
               CvSignal(c, l, all), Keeps(TRUE)
        PROVE  Parts'
    <2> DEFINE p == [point |-> "wakeup", cv |-> c, all |-> all]
    <2>1. p \in Place /\ p.point = "wakeup"
      BY NewPlaces
    <2>2. /\ status = "up" /\ UNCHANGED vars /\ Goes(p) /\ UNCHANGED <<holder, inside>>
          /\ disciplined' \in BOOLEAN /\ (disciplined' => disciplined)
      BY <1>1, <1>8 DEF CvSignal, MayCall, InUser
    <2> HIDE DEF p
    <2> QED BY <2>1, <2>2, MoveStep DEF Waiting
  <1> QED BY <1>3, <1>4, <1>5, <1>6, <1>7, <1>8, <1>9 DEF AnyCall

LEMMA ContinueStep ==
  ASSUME Parts, SyncContinue \/ SyncInterrupt, UNCHANGED disciplined
  PROVE  Parts'
  <1>0. /\ IInv /\ disciplined' \in BOOLEAN /\ current \in Tid /\ at[current] \in Place
    BY DEF Parts, SyncTypeOK, IInv, TypeOK
  <1>1. ASSUME UNCHANGED syncVars,
               ThreadStub \/ ResumeYield \/ ResumeSleep \/ ResumeWait \/ InterruptHandler
        PROVE  Parts'
    <2>1. IInv' /\ Quiet
      BY <1>0, <1>1, ContinueIsQuiet, YieldIsQuiet DEF InterruptHandler
    <2>2. status = "up"
      BY <1>1 DEF ThreadStub, ResumeYield, ResumeSleep, ResumeWait, InterruptHandler,
                  ThreadYield, InUser
    <2>3. status' = "up" /\ disciplined' => NoneKilled'
      BY <1>0, <1>1, <2>2, NoneKilledStays DEF InterruptHandler, Parts, Sound
    <2>4. OnlyCurrentMoves /\ UNCHANGED <<holder, inside>>
      BY <1>1, NobodyMoves DEF Parts, syncVars
    <2> QED BY <1>0, <2>1, <2>2, <2>3, <2>4, LocksStay DEF Quiet
  <1>2. status = "up" /\ at[current].point \in {"acquire", "release", "woken"}
          /\ disciplined' => disciplined /\ HoldsNone
    BY <1>0 DEF Parts, Sound, WaitersHoldNone, HoldsNone
  <1>3. CASE ResumeAcquire \/ CvWaitAcquire
    <2>1. status = "up" /\ at[current].point \in {"acquire", "woken"}
          /\ LockLoop(at[current].lock)
      BY <1>3 DEF ResumeAcquire, CvWaitAcquire, InUser
    <2>2. at[current].lock \in Locks
      BY <1>0, <2>1, PlaceFacts
    <2> QED BY <1>0, <1>2, <2>1, <2>2, LockLoopStep
  <1>4. CASE CvWaitSleep
    <2> DEFINE place == [at[current] EXCEPT !.point = "woken"]
               c == at[current].cv
    <2>1. /\ status = "up" /\ at[current].point = "release" /\ Goes(place)
          /\ UNCHANGED <<holder, inside>>
          /\ GoToSleep(c, "sleep") \/ UNCHANGED vars
      BY <1>4 DEF CvWaitSleep, InUser
    <2>2. /\ place \in Place /\ place.point = "woken" /\ place.cv = c /\ c \in Cvs
          /\ c \notin Locks
      BY <1>0, <2>1, PlaceFacts, SyncNames
    <2> HIDE DEF place, c
    <2>3. CASE GoToSleep(c, "sleep")
      BY <1>0, <1>2, <2>1, <2>2, <2>3, SleepStep
    <2>4. CASE UNCHANGED vars
      BY <1>0, <2>1, <2>2, <2>4, MoveStep DEF Waiting
    <2> QED BY <2>1, <2>3, <2>4
  <1>5. CASE ctx[current] = "exit" /\ ThreadExit /\ Goes(InCaller)
             /\ UNCHANGED <<holder, inside>>
    BY <1>5, KilledExitStep
  <1>6. CASE CvWakeup
    BY <1>6, WakeupStep
  <1> QED BY <1>1, <1>3, <1>4, <1>5, <1>6 DEF SyncContinue, SyncInterrupt

-----------------------------------------------------------------------------

LEMMA SyncInitial == SyncInit => SyncIInv
  <1> SUFFICES ASSUME SyncInit PROVE Parts
    BY SyncParts
  <1>1. IInv /\ SyncTypeOK
    BY InitIInv, NewPlaces DEF SyncInit, SyncTypeOK
  <1>2. \A q \in Queues : wq[q] = <<>>
    BY SyncNames DEF SyncInit, Init
  <1>3. NoSleeperOnFreeLock /\ NoneSpins
    BY <1>2, SyncNames, NewPlaces DEF SyncInit, NoSleeperOnFreeLock, NoneSpins
  <1>4. Sound
    <2>1. OneLockEach /\ WaitersHoldNone /\ NoneKilled
      BY <1>1 DEF SyncInit, Init, OneLockEach, WaitersHoldNone, NoneKilled, IInv, TypeOK
    <2> QED BY <1>2, <2>1, SyncNames, EmptyQueue DEF SyncInit, Sound
  <1> QED BY <1>1, <1>3, <1>4 DEF Parts

LEMMA SyncStep == SyncIInv /\ [SyncNext]_allVars => SyncIInv'
  <1>1. ASSUME Parts, [SyncNext]_allVars PROVE Parts'
    <2>1. CASE UNCHANGED allVars
      <3>1. UNCHANGED vars /\ UNCHANGED <<holder, at, inside, disciplined>>
        BY <2>1 DEF allVars, syncVars
      <3>2. IInv'
        BY <1>1, <3>1, NextIInv DEF Parts
      <3>3. SyncTypeOK' /\ NoSleeperOnFreeLock' /\ (disciplined' => NoneSpins')
        BY <1>1, <3>1 DEF Parts, SyncTypeOK, NoSleeperOnFreeLock, NoneSpins, vars
      <3>4. disciplined' /\ status' = "up" => Sound'
        BY <1>1, <3>1
        DEF Parts, Sound, Awake, OneLockEach, WaitersHoldNone, NoneKilled, Zombies, vars
      <3> QED BY <3>2, <3>3, <3>4 DEF Parts
    <2> QED BY <1>1, <2>1, CallStep, ContinueStep DEF SyncNext, Spinning, SyncEnded
  <1>2. SyncIInv' <=> Parts'
    BY SyncParts, PTL
  <1> QED BY <1>1, <1>2, SyncParts

(* The inductive invariant of the scheduler with locks and condition        *)
(* variables.                                                                *)
THEOREM SyncInvariance == SyncSpec => []SyncIInv
  BY SyncInitial, SyncStep, PTL DEF SyncSpec

(* Whatever is called: the types of what the locks add to the scheduler.    *)
THEOREM SyncTypeCorrectness == SyncSpec => []SyncTypeOK
  <1>1. SyncIInv => SyncTypeOK
    BY DEF SyncIInv
  <1> QED BY <1>1, SyncInvariance, PTL

(* Whatever is called, kills and releases by strangers included: a free     *)
(* lock has no sleeper (thread.c 806-838).                                   *)
THEOREM FreeLocksHaveNoSleepers == SyncSpec => []NoSleeperOnFreeLock
  <1>1. SyncIInv => NoSleeperOnFreeLock
    BY DEF SyncIInv
  <1> QED BY <1>1, SyncInvariance, PTL

(* Careful programs: at most one thread is inside a lock, the holder.       *)
THEOREM LocksExclude == SyncSpec => []MutualExclusion
  <1>1. SyncIInv => MutualExclusion
    BY DEF SyncIInv
  <1> QED BY <1>1, SyncInvariance, PTL

(* Careful programs: no thread ever loops in lock_acquire with SIGALRM      *)
(* blocked, since the holder of a lock is running or ready.                  *)
THEOREM HoldersCanRun == SyncSpec => []HolderCanRun
  <1>1. SyncIInv => HolderCanRun
    BY DEF SyncIInv
  <1> QED BY <1>1, SyncInvariance, PTL

(* Careful programs: who sleeps on the queue of a lock or of a condition    *)
(* variable waits for just that, and holds no lock it could block.           *)
THEOREM SleepersWaitForTheirs == SyncSpec => []SleepersBelong
  <1>1. SyncIInv => SleepersBelong
    BY DEF SyncIInv
  <1> QED BY <1>1, SyncInvariance, PTL

-----------------------------------------------------------------------------
(* test_cv_signal for any number of threads and loops: nobody is lapped,    *)
(* whatever the preemptions.                                                *)

Labels == {"create", "wait", "done", "acquire", "test", "awoken", "signal",
           "release", "exit"}

RingTypeOK ==
  /\ turn \in 0 .. N - 1
  /\ pc \in [Tid -> Labels]
  /\ left \in [Ring -> Int]

(* All waiting within the library is for the one lock of the test. *)
OnlyTestLock ==
  \A t \in Tid : at[t].point \in {"acquire", "release", "woken"} => at[t].lock = lk

(* The library part of the inductive invariant: no thread is killed. *)
LibInv ==
  /\ IInv /\ SyncTypeOK /\ OnlyTestLock
  /\ status = "up" => NoneKilled

InSection(t) == pc[t] \in {"test", "awoken", "signal", "release"}

(* The places of a thread that waits for nothing. *)
AtWork == {"user", "wakeup"}

(* Who does not wait in the critical section is the holder.                 *)
SectionIsLocked ==
  \A t \in Ring : InSection(t) /\ at[t].point \in AtWork => holder[lk] = t

(* t has passed the turn on and has not counted it yet. *)
InFlight(t) == pc[t] \in {"signal", "release"}
Passes(t) == LOOPS - left[t] + (IF InFlight(t) THEN 1 ELSE 0)
After(num) == (num + N - 1) % N

(* Nobody has taken the turn from the thread behind one that is in flight.  *)
FlightIsRecent ==
  \A t \in Ring : InFlight(t) => at[t].point \in AtWork /\ turn = After(Num(t))

(* All threads have passed the turn equally often, those whose turn was     *)
(* already in this round once more.                                         *)
RoundsAgree ==
  \E r \in Nat : \A t \in Ring :
    Passes(t) = IF Num(t) > turn THEN r + 1 ELSE r

RingIInv ==
  RingTypeOK /\ LibInv /\ SectionIsLocked /\ FlightIsRecent /\ RoundsAgree

-----------------------------------------------------------------------------
(* The library, as far as the ring can tell. *)

LEMMA RingNames ==
  /\ Ring \subseteq Tid /\ 0 \in Tid /\ 0 \notin Ring /\ N \in Nat /\ N >= 1
  /\ lk \in Locks /\ lk \in Queues /\ LOOPS \in Nat
  /\ \A num \in 0 .. N - 1 : CvOf(num) \in Cvs /\ CvOf(num) \in Queues
  BY RingAssumption, SyncAssumption DEF Ring, Tid, CvOf

(* The steps that neither take the lock nor leave the library. *)
KeepsLock ==
  /\ holder' = holder
  /\ at'[current].point \in AtWork => at[current].point \in AtWork

WaitsForLock == holder' = holder /\ at'[current].point \notin AtWork

TakesLock == holder[lk] = THREAD_NONE /\ holder' = [holder EXCEPT ![lk] = current]

OthersStay == \A t \in Tid \ {current} : at'[t] = at[t]

LEMMA LoopEffect ==
  ASSUME LibInv, status = "up", LockLoop(lk), UNCHANGED disciplined
  PROVE  LibInv' /\ OthersStay /\ (WaitsForLock \/ TakesLock)
  <1>0. /\ IInv /\ SyncTypeOK /\ OnlyTestLock /\ NoneKilled /\ TypeOK /\ OneZombie
        /\ current \in Tid /\ ctx \in [Tid -> Ctx] /\ at \in [Tid -> Place]
        /\ holder \in [Locks -> Tid \cup {THREAD_NONE}]
        /\ inside \in [Locks -> SUBSET Tid] /\ lk \in Locks /\ lk \in Queues
    BY RingNames DEF LibInv, IInv, TypeOK, SyncTypeOK
  <1>1. ASSUME NEW p \in Place, Goes(p),
               p.point \in {"user", "spin"} \/ p.lock = lk
        PROVE  /\ OthersStay /\ at' \in [Tid -> Place] /\ at'[current] = p
               /\ OnlyTestLock'
    <2>1. OthersStay /\ at' \in [Tid -> Place] /\ at'[current] = p
      BY <1>0, <1>1 DEF Goes, OthersStay
    <2> QED BY <1>0, <1>1, <2>1 DEF OnlyTestLock, OthersStay
  <1>2. ASSUME ctx' = [ctx EXCEPT ![current] = "run"],
               UNCHANGED <<exists, current, ready, killq, wq, stranded,
                           setcontext_called, status>>
        PROVE  IInv' /\ (status' = "up" => NoneKilled')
    <2>1. TypeOK' /\ OneZombie'
      BY <1>0, <1>2 DEF TypeOK, OneZombie, Ctx
    <2>2. UNCHANGED placed
      BY <1>2 DEF placed
    <2>3. IInv'
      BY <1>0, <2>1, <2>2, NothingMoves DEF IInv
    <2> QED BY <1>0, <1>2, <2>3, NoneKilledStays
  <1>3. CASE TakeLock(lk)
    <2>1. /\ holder[lk] = THREAD_NONE /\ holder' = [holder EXCEPT ![lk] = current]
          /\ inside' = [inside EXCEPT ![lk] = @ \cup {current}] /\ Goes(InCaller)
      BY <1>3 DEF TakeLock
    <2>2. OthersStay /\ at' \in [Tid -> Place] /\ OnlyTestLock'
      BY <1>1, <2>1, NewPlaces
    <2>3. IInv' /\ (status' = "up" => NoneKilled')
      BY <1>2, <1>3 DEF TakeLock
    <2>4. SyncTypeOK'
      BY <1>0, <2>1, <2>2 DEF SyncTypeOK
    <2> QED BY <2>1, <2>2, <2>3, <2>4 DEF LibInv, TakesLock
  <1>4. CASE AwaitLock(lk) /\ GoToSleep(lk, "sleep")
               /\ Goes([point |-> "acquire", lock |-> lk])
    <2>1. /\ OthersStay /\ at' \in [Tid -> Place] /\ OnlyTestLock'
          /\ at'[current] = [point |-> "acquire", lock |-> lk]
      <3> DEFINE p == [point |-> "acquire", lock |-> lk]
      <3>1. p \in Place /\ p.lock = lk
        BY <1>0, NewPlaces
      <3> HIDE DEF p
      <3>2. Goes(p)
        BY <1>4 DEF p
      <3>3. OthersStay /\ at' \in [Tid -> Place] /\ at'[current] = p /\ OnlyTestLock'
        BY <1>1, <3>1, <3>2
      <3> QED BY <3>3 DEF p
    <2>2. IInv'
      <3>1. lk \in WaitQueues /\ lk \notin Tid /\ "sleep" \in Ctx
        BY <1>0, SyncNames DEF Ctx
      <3> QED BY <1>0, <1>4, <3>1, SleepIsSleep
    <2>3. status' = "up" => NoneKilled'
      BY <1>0, <1>4, NoneKilledStays DEF GoToSleep
    <2>4. SyncTypeOK' /\ holder' = holder
      BY <1>0, <1>4, <2>1 DEF SyncTypeOK, AwaitLock
    <2> QED BY <2>1, <2>2, <2>3, <2>4, NewPlaces DEF LibInv, WaitsForLock, AtWork
  <1>5. CASE /\ AwaitLock(lk) /\ Goes([point |-> "spin"])
             /\ ctx' = [ctx EXCEPT ![current] = "run"]
             /\ UNCHANGED <<exists, current, ready, killq, wq, stranded,
                            setcontext_called, status>>
    <2>1. /\ OthersStay /\ at' \in [Tid -> Place] /\ OnlyTestLock'
          /\ at'[current] = [point |-> "spin"]
      BY <1>1, <1>5, NewPlaces
    <2>2. IInv' /\ (status' = "up" => NoneKilled')
      BY <1>2, <1>5
    <2>3. SyncTypeOK' /\ holder' = holder
      BY <1>0, <1>5, <2>1 DEF SyncTypeOK, AwaitLock
    <2> QED BY <2>1, <2>2, <2>3, NewPlaces DEF LibInv, WaitsForLock, AtWork
  <1> QED BY <1>3, <1>4, <1>5 DEF LockLoop, AwaitLock

(* Steps of the scheduler alone, called by the ring or not. *)
LEMMA SchedulerEffect ==
  ASSUME LibInv, status = "up", UNCHANGED <<holder, inside, disciplined>>,
         \/ at' = at
         \/ \E place \in Place : Goes(place) /\ place.point \in AtWork,
         \/ UNCHANGED vars
         \/ ThreadStub \/ ResumeYield \/ ResumeSleep \/ ResumeWait \/ InterruptHandler
         \/ ThreadCreate \/ ThreadExit
         \/ \E tid \in Tid : ThreadWait(tid)
         \/ \E q \in Queues, all \in BOOLEAN : ThreadWakeup(q, all)
  PROVE  LibInv'
  <1>0. /\ IInv /\ SyncTypeOK /\ OnlyTestLock /\ NoneKilled
        /\ current \in Tid /\ at \in [Tid -> Place]
    BY DEF LibInv, IInv, TypeOK, SyncTypeOK
  <1>1. IInv'
    <2>1. CASE ThreadExit
      BY <1>0, <2>1, ExitLeaves
    <2> QED BY <1>0, <2>1, NextIInv DEF Next, Continue, Call, vars
  <1>2. status' = "up" => NoneKilled'
    <2>1. CASE UNCHANGED vars \/ \E q \in Queues, all \in BOOLEAN : ThreadWakeup(q, all)
      <3>1. UNCHANGED <<exists, killq, ctx>>
        BY <2>1 DEF vars, ThreadWakeup
      <3> QED BY <1>0, <3>1, NoneKilledStays
    <2> QED BY <1>0, <2>1, NoneKilledStays DEF InterruptHandler
  <1>3. SyncTypeOK' /\ OnlyTestLock'
    <2>1. CASE at' = at
      BY <1>0, <2>1 DEF SyncTypeOK, OnlyTestLock
    <2>2. ASSUME NEW place \in Place, Goes(place), place.point \in AtWork
          PROVE  SyncTypeOK' /\ OnlyTestLock'
      BY <1>0, <2>2 DEF SyncTypeOK, OnlyTestLock, Goes, AtWork
    <2> QED BY <2>1, <2>2
  <1> QED BY <1>1, <1>2, <1>3 DEF LibInv

(* The first call of cv_wait, and lock_release. *)
LEMMA ReleaseEffect ==
  ASSUME LibInv, InUser, Release(lk), UNCHANGED disciplined,
         UNCHANGED <<exists, current, killq, stranded, ctx, setcontext_called, status>>,
         \/ at' = at
         \/ \E c \in Cvs : Goes([point |-> "release", lock |-> lk, cv |-> c])
  PROVE  /\ LibInv' /\ OthersStay
         /\ holder' = [holder EXCEPT ![lk] = THREAD_NONE]
  <1>0. /\ IInv /\ SyncTypeOK /\ OnlyTestLock /\ NoneKilled /\ status = "up"
        /\ current \in Tid /\ at \in [Tid -> Place] /\ lk \in Locks
        /\ holder \in [Locks -> Tid \cup {THREAD_NONE}]
        /\ inside \in [Locks -> SUBSET Tid]
    BY RingNames DEF LibInv, IInv, TypeOK, SyncTypeOK, InUser
  <1>1. IInv' /\ NoneKilled'
    BY <1>0, ReleaseIsQuiet, NoneKilledStays
  <1>2. /\ OthersStay /\ at' \in [Tid -> Place]
        /\ at'[current] = at[current] \/ at'[current].lock = lk
    <2>1. CASE at' = at
      BY <1>0, <2>1 DEF OthersStay
    <2>2. ASSUME NEW c \in Cvs, Goes([point |-> "release", lock |-> lk, cv |-> c])
          PROVE  OthersStay /\ at' \in [Tid -> Place] /\ at'[current].lock = lk
      BY <1>0, <2>2, NewPlaces DEF Goes, OthersStay
    <2> QED BY <2>1, <2>2
  <1>3. OnlyTestLock'
    BY <1>0, <1>2 DEF OnlyTestLock, OthersStay
  <1>4. SyncTypeOK' /\ holder' = [holder EXCEPT ![lk] = THREAD_NONE]
    BY <1>0, <1>2 DEF SyncTypeOK, Release
  <1> QED BY <1>0, <1>1, <1>2, <1>3, <1>4 DEF LibInv

(* What happens on its own once a thread is dispatched, and preemption. *)
LEMMA LibraryEffect ==
  ASSUME LibInv, SyncContinue \/ Spinning \/ SyncInterrupt, UNCHANGED disciplined
  PROVE  /\ LibInv' /\ OthersStay /\ (KeepsLock \/ TakesLock)
         /\ at[current].point \in AtWork =>
              at'[current].point \in AtWork /\ holder' = holder
  <1>0. /\ IInv /\ SyncTypeOK /\ OnlyTestLock /\ current \in Tid
        /\ at \in [Tid -> Place] /\ at[current] \in Place
    BY DEF LibInv, IInv, TypeOK, SyncTypeOK
  <1>1. ASSUME UNCHANGED syncVars,
               \/ UNCHANGED vars
               \/ ThreadStub \/ ResumeYield \/ ResumeSleep \/ ResumeWait
               \/ InterruptHandler,
               status = "up"
        PROVE  /\ LibInv' /\ OthersStay /\ KeepsLock /\ at' = at /\ holder' = holder
    BY <1>0, <1>1, SchedulerEffect DEF OthersStay, KeepsLock, syncVars
  <1>2. CASE \/ (ThreadStub \/ ResumeYield \/ ResumeWait) /\ UNCHANGED syncVars
             \/ ResumeSleep /\ UNCHANGED syncVars
             \/ Spinning \/ SyncInterrupt
    BY <1>1, <1>2
    DEF ThreadStub, ResumeYield, ResumeSleep, ResumeWait, InterruptHandler, ThreadYield,
        InUser, Spinning, SyncInterrupt, allVars
  <1>3. CASE ResumeAcquire \/ CvWaitAcquire
    <2>1. /\ status = "up" /\ at[current].point \in {"acquire", "woken"}
          /\ LockLoop(at[current].lock)
      BY <1>3 DEF ResumeAcquire, CvWaitAcquire, InUser
    <2>2. at[current].lock = lk /\ at[current].point \notin AtWork
      BY <1>0, <2>1 DEF OnlyTestLock, AtWork
    <2> QED BY <2>1, <2>2, LoopEffect DEF WaitsForLock, KeepsLock
  <1>4. CASE CvWaitSleep
    <2> DEFINE p == [at[current] EXCEPT !.point = "woken"]
               c == at[current].cv
    <2>1. /\ status = "up" /\ at[current].point = "release" /\ Goes(p)
          /\ UNCHANGED <<holder, inside>>
          /\ GoToSleep(c, "sleep") \/ UNCHANGED vars
      BY <1>4 DEF CvWaitSleep, InUser
    <2>2. /\ p \in Place /\ p.point = "woken" /\ p.lock = at[current].lock /\ c \in Cvs
          /\ c \in WaitQueues /\ c \notin Tid
      BY <1>0, <2>1, PlaceFacts, SyncNames
    <2>3. p.lock = lk /\ at[current].point \notin AtWork
      BY <1>0, <2>1, <2>2 DEF OnlyTestLock, AtWork
    <2> HIDE DEF p, c
    <2>4. OthersStay /\ at' \in [Tid -> Place] /\ at'[current] = p
      BY <1>0, <2>1, <2>2 DEF Goes, OthersStay
    <2>5. OnlyTestLock' /\ SyncTypeOK' /\ KeepsLock
      BY <1>0, <2>1, <2>2, <2>3, <2>4
      DEF OnlyTestLock, OthersStay, SyncTypeOK, KeepsLock, AtWork
    <2>6. IInv' /\ (status' = "up" => NoneKilled')
      <3>1. CASE GoToSleep(c, "sleep")
        <4>1. IInv'
          BY <1>0, <2>1, <2>2, <3>1, SleepIsSleep DEF Ctx
        <4> QED BY <1>0, <2>1, <3>1, <4>1, NoneKilledStays DEF LibInv, GoToSleep
      <3>2. CASE UNCHANGED vars
        BY <1>0, <2>1, <3>2, NextIInv DEF LibInv, NoneKilled, Zombies, vars
      <3> QED BY <2>1, <3>1, <3>2
    <2> QED BY <2>3, <2>4, <2>5, <2>6 DEF LibInv
  <1>5. ~(ctx[current] = "exit" /\ ThreadExit)
    <2>1. status = "up" => current \in exists \ Zombies
      BY <1>0 DEF IInv, Accounted, NoThreadLost, NoThreadTwice
    <2> QED BY <2>1 DEF LibInv, NoneKilled, ThreadExit
  <1>6. CASE CvWakeup
    <2> DEFINE c == at[current].cv
               all == at[current].all
    <2>1. /\ status = "up" /\ at[current].point = "wakeup" /\ Goes(InCaller)
          /\ UNCHANGED <<holder, inside>>
          /\ ThreadWakeup(c, all) \/ UNCHANGED vars
      BY <1>6 DEF CvWakeup, InUser
    <2>2. c \in Queues /\ all \in BOOLEAN
      BY <1>0, <2>1, PlaceFacts, SyncNames
    <2> HIDE DEF c, all
    <2>3. InCaller \in Place /\ InCaller.point \in AtWork
      BY NewPlaces DEF AtWork
    <2>4. LibInv'
      BY <2>1, <2>2, <2>3, SchedulerEffect
    <2>5. OthersStay /\ at'[current].point \in AtWork
      BY <1>0, <2>1, <2>3 DEF Goes, OthersStay
    <2> QED BY <2>1, <2>4, <2>5 DEF KeepsLock, AtWork
  <1> QED BY <1>2, <1>3, <1>4, <1>5, <1>6 DEF SyncContinue

-----------------------------------------------------------------------------
(* The turn and the rounds. *)

(* How the turn and the place in the ring count down. *)
LEMMA AfterFacts ==
  ASSUME NEW n \in Nat, n >= 1, NEW num \in 0 .. n - 1
  PROVE  (num + n - 1) % n = IF num = 0 THEN n - 1 ELSE num - 1
  <1>1. CASE num = 0
    BY <1>1
  <1>2. CASE num # 0
    <2>1. num + n - 1 = num - 1 + n /\ num - 1 \in 0 .. n - 1
      BY <1>2
    <2>2. (num - 1 + n) % n = num - 1
      BY <2>1
    <2> QED BY <1>2, <2>1, <2>2
  <1> QED BY <1>1, <1>2

LEMMA AfterIs ==
  ASSUME NEW num \in 0 .. N - 1
  PROVE  After(num) = IF num = 0 THEN N - 1 ELSE num - 1
  BY AfterFacts, RingNames DEF After

LEMMA NumFacts ==
  /\ \A t \in Ring : Num(t) \in 0 .. N - 1
  /\ \A t, u \in Ring : Num(t) = Num(u) => t = u
  BY RingNames DEF Ring, Num

(* A step that does not touch the program of the ring. *)
LEMMA RingStays ==
  ASSUME RingIInv, LibInv', UNCHANGED <<turn, pc, left>>, OthersStay,
         KeepsLock \/ TakesLock,
         at[current].point \in AtWork =>
           at'[current].point \in AtWork /\ holder' = holder
  PROVE  RingIInv'
  <1>0. /\ current \in Tid /\ Ring \subseteq Tid /\ lk \in Locks
        /\ holder \in [Locks -> Tid \cup {THREAD_NONE}] /\ THREAD_NONE \notin Tid
    BY RingNames, SyncNames DEF RingIInv, LibInv, IInv, TypeOK, SyncTypeOK
  <1>1. RingTypeOK' /\ RoundsAgree'
    BY DEF RingIInv, RingTypeOK, RoundsAgree, Passes, InFlight
  <1>2. SectionIsLocked'
    <2>1. CASE at[current].point \in AtWork
      <3>1. /\ holder' = holder
            /\ \A t \in Ring : at'[t].point \in AtWork => at[t].point \in AtWork
        BY <1>0, <2>1 DEF OthersStay
      <3> QED BY <3>1 DEF RingIInv, SectionIsLocked, InSection
    <2>2. CASE at[current].point \notin AtWork /\ KeepsLock
      BY <1>0, <2>2 DEF RingIInv, SectionIsLocked, InSection, OthersStay, KeepsLock
    <2>3. CASE at[current].point \notin AtWork /\ TakesLock
      <3>1. \A t \in Ring : t # current => ~(InSection(t) /\ at[t].point \in AtWork)
        BY <1>0, <2>3 DEF RingIInv, SectionIsLocked, TakesLock
      <3>2. holder'[lk] = current
        BY <1>0, <2>3 DEF TakesLock
      <3> QED BY <1>0, <3>1, <3>2 DEF OthersStay, SectionIsLocked, InSection
    <2> QED BY <2>1, <2>2, <2>3
  <1>3. FlightIsRecent'
    <2>1. \A t \in Ring : InFlight(t) => at'[t].point \in AtWork
      BY <1>0 DEF RingIInv, FlightIsRecent, OthersStay
    <2> QED BY <2>1 DEF RingIInv, FlightIsRecent, InFlight, After
  <1> QED BY <1>1, <1>2, <1>3 DEF RingIInv

(* A thread of the ring goes on to a place where it is not in flight. *)
LEMMA RingGoes ==
  ASSUME RingIInv, LibInv', NEW label \in Labels \ {"signal", "release"},
         current \in Tid, current \in Ring => ~InFlight(current),
         GoesTo(label), UNCHANGED <<turn, left>>, OthersStay
  PROVE  RingTypeOK' /\ FlightIsRecent' /\ RoundsAgree'
  <1>0. /\ Ring \subseteq Tid /\ pc \in [Tid -> Labels]
        /\ pc' = [pc EXCEPT ![current] = label]
    BY RingNames DEF RingIInv, RingTypeOK, GoesTo
  <1>1. RingTypeOK'
    BY <1>0 DEF RingIInv, RingTypeOK
  <1>2. \A t \in Ring : InFlight(t)' <=> InFlight(t)
    BY <1>0 DEF InFlight
  <1>3. \A t \in Ring : Passes(t)' = Passes(t)
    BY <1>2 DEF Passes
  <1>4. RoundsAgree'
    BY <1>3 DEF RingIInv, RoundsAgree
  <1>5. FlightIsRecent'
    <2> SUFFICES ASSUME NEW t \in Ring, InFlight(t)'
                 PROVE  at'[t].point \in AtWork /\ turn' = After(Num(t))
      BY DEF FlightIsRecent
    <2>1. InFlight(t) /\ t # current
      BY <1>2
    <2>2. at[t].point \in AtWork /\ turn = After(Num(t))
      BY <2>1 DEF RingIInv, FlightIsRecent
    <2> QED BY <1>0, <2>1, <2>2 DEF OthersStay
  <1> QED BY <1>1, <1>4, <1>5

-----------------------------------------------------------------------------
(* The steps of the program. *)

(* Steps that only move the current thread within its program. *)
LEMMA WalkStep ==
  ASSUME RingIInv, NEW label \in Labels, GoesTo(label), status = "up",
         UNCHANGED <<allVars, turn, left>>, MayCall,
         current \in Ring => ~InFlight(current) /\ label \notin {"signal", "release"}
                             /\ (label \in {"test", "awoken"} => InSection(current)),
         current \notin Ring => label \notin {"signal", "release"}
  PROVE  RingIInv'
  <1>0. /\ current \in Tid /\ UNCHANGED <<current, at, holder>> /\ Ring \subseteq Tid
        /\ UNCHANGED vars /\ UNCHANGED syncVars /\ UNCHANGED disciplined
        /\ pc \in [Tid -> Labels] /\ pc' = [pc EXCEPT ![current] = label]
    BY RingNames
    DEF RingIInv, RingTypeOK, LibInv, IInv, TypeOK, allVars, vars, syncVars, GoesTo
  <1>1. LibInv' /\ OthersStay
    BY <1>0, SchedulerEffect DEF RingIInv, OthersStay, syncVars
  <1>2. RingTypeOK' /\ FlightIsRecent' /\ RoundsAgree'
    BY <1>0, <1>1, RingGoes
  <1>3. \A t \in Ring : InSection(t)' => InSection(t)
    BY <1>0 DEF InSection
  <1>4. SectionIsLocked'
    BY <1>0, <1>3 DEF RingIInv, SectionIsLocked
  <1> QED BY <1>1, <1>2, <1>4 DEF RingIInv

LEMMA MainStep ==
  ASSUME RingIInv, MainCreate \/ MainWait
  PROVE  RingIInv'
  <1>0. /\ current = 0 /\ 0 \in Tid /\ 0 \notin Ring /\ Ring \subseteq Tid /\ MayCall
        /\ status = "up" /\ UNCHANGED <<turn, left>> /\ UNCHANGED disciplined
    BY RingNames DEF MainCreate, MainWait, MayCall, InUser
  <1>1. ASSUME UNCHANGED syncVars, ThreadCreate \/ (\E tid \in Tid : ThreadWait(tid)),
               pc' = pc \/ \E label \in {"wait", "done"} : GoesTo(label)
        PROVE  RingIInv'
    <2>1. LibInv' /\ OthersStay /\ UNCHANGED <<at, holder>>
      BY <1>0, <1>1, SchedulerEffect DEF RingIInv, OthersStay, syncVars
    <2>2. CASE pc' = pc
      BY <1>0, <2>1, <2>2, RingStays DEF KeepsLock
    <2>3. ASSUME NEW label \in {"wait", "done"}, GoesTo(label) PROVE RingIInv'
      <3>1. RingTypeOK' /\ FlightIsRecent' /\ RoundsAgree'
        BY <1>0, <2>1, <2>3, RingGoes DEF Labels
      <3>2. \A t \in Ring : InSection(t)' => InSection(t)
        BY <1>0, <2>3 DEF RingIInv, RingTypeOK, GoesTo, InSection
      <3>3. SectionIsLocked'
        BY <2>1, <3>2 DEF RingIInv, SectionIsLocked
      <3> QED BY <2>1, <3>1, <3>3 DEF RingIInv
    <2> QED BY <1>1, <2>2, <2>3
  <1>2. ASSUME UNCHANGED allVars, NEW label \in {"wait", "done"}, GoesTo(label)
        PROVE  RingIInv'
    <2>1. label \in Labels /\ label \notin {"signal", "release"}
      BY DEF Labels
    <2> QED BY <1>0, <1>2, <2>1, WalkStep
  <1>3. CASE MainCreate
    <2>1. CASE next <= N
      BY <1>1, <1>3, <2>1 DEF MainCreate
    <2>2. CASE ~(next <= N)
      BY <1>2, <1>3, <2>2 DEF MainCreate
    <2> QED BY <2>1, <2>2
  <1>4. CASE MainWait
    <2>1. PICK label \in {"wait", "done"} : GoesTo(label)
      BY <1>4 DEF MainWait
    <2>2. CASE next \in exists
      <3>1. next \in Tid
        BY <2>2 DEF RingIInv, LibInv, IInv, TypeOK
      <3> QED BY <1>1, <1>4, <2>1, <2>2, <3>1 DEF MainWait
    <2>3. CASE next \notin exists
      BY <1>2, <1>4, <2>1, <2>3 DEF MainWait
    <2> QED BY <2>2, <2>3
  <1> QED BY <1>3, <1>4

LEMMA AcquireStep ==
  ASSUME RingIInv, AcquireTestLock
  PROVE  RingIInv'
  <1>0. /\ current \in Ring /\ current \in Tid /\ Ring \subseteq Tid /\ status = "up"
        /\ pc[current] = "acquire" /\ at[current].point \in AtWork /\ LockLoop(lk)
        /\ GoesTo("test") /\ UNCHANGED <<turn, left, disciplined>>
        /\ pc \in [Tid -> Labels] /\ lk \in Locks
        /\ holder \in [Locks -> Tid \cup {THREAD_NONE}] /\ THREAD_NONE \notin Tid
    BY RingNames, SyncNames
    DEF AcquireTestLock, LockAcquire, MayCall, InUser, RingIInv, RingTypeOK, LibInv,
        SyncTypeOK, InCaller, AtWork
  <1>1. LibInv' /\ OthersStay /\ (WaitsForLock \/ TakesLock)
    BY <1>0, LoopEffect DEF RingIInv
  <1>2. RingTypeOK' /\ FlightIsRecent' /\ RoundsAgree'
    BY <1>0, <1>1, RingGoes DEF Labels, InFlight
  <1>3. SectionIsLocked'
    <2>1. \A t \in Ring \ {current} : pc'[t] = pc[t] /\ at'[t] = at[t]
      BY <1>0, <1>1 DEF GoesTo, OthersStay
    <2>2. CASE TakesLock
      <3>1. \A t \in Ring : ~(InSection(t) /\ at[t].point \in AtWork)
        BY <1>0, <2>2 DEF RingIInv, SectionIsLocked, TakesLock
      <3>2. holder'[lk] = current
        BY <1>0, <2>2 DEF TakesLock
      <3> QED BY <2>1, <3>1, <3>2 DEF SectionIsLocked, InSection
    <2>3. CASE WaitsForLock
      BY <2>1, <2>3 DEF RingIInv, SectionIsLocked, InSection, WaitsForLock
    <2> QED BY <1>1, <2>2, <2>3
  <1> QED BY <1>1, <1>2, <1>3 DEF RingIInv

(* The critical section is the current thread's. *)
LEMMA AloneInSection ==
  ASSUME RingIInv, current \in Ring, InSection(current), at[current].point \in AtWork
  PROVE  \A t \in Ring \ {current} : ~(InSection(t) /\ at[t].point \in AtWork)
  BY DEF RingIInv, SectionIsLocked

LEMMA AwaitStep ==
  ASSUME RingIInv, AwaitTurn
  PROVE  RingIInv'
  <1> DEFINE c == CvOf(Num(current))
             p == [point |-> "release", lock |-> lk, cv |-> c]
  <1>0. /\ current \in Ring /\ current \in Tid /\ Ring \subseteq Tid /\ InUser
        /\ pc[current] = "test" /\ at[current].point \in AtWork
        /\ Release(lk) /\ Goes(p) /\ GoesTo("awoken")
        /\ UNCHANGED <<exists, current, killq, stranded, ctx, setcontext_called, status>>
        /\ UNCHANGED <<turn, left, disciplined>>
        /\ pc \in [Tid -> Labels] /\ at \in [Tid -> Place]
    BY RingNames
    DEF AwaitTurn, CvWait, MayCall, RingIInv, RingTypeOK, LibInv, SyncTypeOK, InCaller,
        AtWork
  <1>1. c \in Cvs /\ p.point = "release"
    BY <1>0, NumFacts, RingNames
  <1>2. LibInv' /\ OthersStay
    BY <1>0, <1>1, ReleaseEffect DEF RingIInv
  <1> HIDE DEF c, p
  <1>3. RingTypeOK' /\ FlightIsRecent' /\ RoundsAgree'
    BY <1>0, <1>2, RingGoes DEF Labels, InFlight
  <1>4. at'[current].point \notin AtWork
    BY <1>0, <1>1, NewPlaces DEF Goes, AtWork
  <1>5. \A t \in Ring \ {current} : pc'[t] = pc[t] /\ at'[t] = at[t]
    BY <1>0, <1>2 DEF GoesTo, OthersStay
  <1>6. \A t \in Ring \ {current} : ~(InSection(t) /\ at[t].point \in AtWork)
    BY <1>0, AloneInSection DEF InSection
  <1>7. SectionIsLocked'
    BY <1>4, <1>5, <1>6 DEF SectionIsLocked, InSection
  <1> QED BY <1>2, <1>3, <1>7 DEF RingIInv

LEMMA ReleaseTestStep ==
  ASSUME RingIInv, ReleaseTestLock
  PROVE  RingIInv'
  <1>0. /\ current \in Ring /\ current \in Tid /\ Ring \subseteq Tid /\ InUser
        /\ pc[current] = "release" /\ at[current].point \in AtWork
        /\ Release(lk) /\ at' = at /\ left' = [left EXCEPT ![current] = @ - 1]
        /\ UNCHANGED <<exists, current, killq, stranded, ctx, setcontext_called, status>>
        /\ UNCHANGED <<turn, disciplined>>
        /\ pc \in [Tid -> Labels] /\ left \in [Ring -> Int] /\ LOOPS \in Nat
    BY RingNames
    DEF ReleaseTestLock, LockRelease, MayCall, RingIInv, RingTypeOK, InCaller, AtWork
  <1>1. PICK label \in {"exit", "acquire"} : GoesTo(label)
    BY DEF ReleaseTestLock
  <1>2. /\ \A t \in Ring \ {current} : pc'[t] = pc[t] /\ left'[t] = left[t]
        /\ pc'[current] = label /\ left'[current] = left[current] - 1
        /\ left[current] \in Int
    BY <1>0, <1>1 DEF GoesTo
  <1>3. RingTypeOK'
    BY <1>0, <1>1 DEF RingIInv, RingTypeOK, GoesTo, Labels
  <1>4. LibInv'
    BY <1>0, ReleaseEffect DEF RingIInv
  <1>5. SectionIsLocked'
    <2>1. \A t \in Ring \ {current} : ~(InSection(t) /\ at[t].point \in AtWork)
      BY <1>0, AloneInSection DEF InSection
    <2> QED BY <1>0, <1>2, <2>1 DEF SectionIsLocked, InSection
  <1>6. FlightIsRecent'
    <2>1. \A t \in Ring : InFlight(t)' => InFlight(t)
      BY <1>0, <1>2 DEF InFlight
    <2> QED BY <1>0, <2>1 DEF RingIInv, FlightIsRecent, After, Num
  <1>7. \A t \in Ring : Passes(t)' = Passes(t)
    <2>1. ASSUME NEW t \in Ring, t = current PROVE Passes(t)' = Passes(t)
      BY <1>0, <1>1, <1>2, <2>1 DEF Passes, InFlight
    <2>2. ASSUME NEW t \in Ring, t # current PROVE Passes(t)' = Passes(t)
      BY <1>2, <2>2 DEF Passes, InFlight
    <2> QED BY <2>1, <2>2
  <1>8. RoundsAgree'
    BY <1>0, <1>7 DEF RingIInv, RoundsAgree
  <1> QED BY <1>3, <1>4, <1>5, <1>6, <1>8 DEF RingIInv

LEMMA SignalStep ==
  ASSUME RingIInv, SignalNext
  PROVE  RingIInv'
  <1> DEFINE p == [point |-> "wakeup", cv |-> CvOf(turn), all |-> FALSE]
  <1>0. /\ current \in Ring /\ current \in Tid /\ Ring \subseteq Tid /\ status = "up"
        /\ pc[current] = "signal" /\ GoesTo("release")
        /\ UNCHANGED <<turn, left>> /\ UNCHANGED <<holder, inside, disciplined>>
        /\ UNCHANGED vars /\ Goes(p)
        /\ pc \in [Tid -> Labels] /\ at \in [Tid -> Place] /\ turn \in 0 .. N - 1
        /\ FALSE \in BOOLEAN
    BY RingNames
    DEF SignalNext, CvSignal, MayCall, InUser, RingIInv, RingTypeOK, LibInv, SyncTypeOK
  <1>1. p \in Place /\ p.point \in AtWork
    BY <1>0, RingNames, NewPlaces DEF AtWork
  <1> HIDE DEF p
  <1>2. LibInv'
    BY <1>0, <1>1, SchedulerEffect DEF RingIInv
  <1>3. /\ \A t \in Ring : InSection(t)' = InSection(t) /\ InFlight(t)' = InFlight(t)
        /\ at'[current].point \in AtWork /\ \A t \in Tid \ {current} : at'[t] = at[t]
        /\ holder' = holder /\ pc' \in [Tid -> Labels]
    BY <1>0, <1>1 DEF GoesTo, Goes, InSection, InFlight, Labels
  <1>4. InSection(current) /\ InFlight(current)
    BY <1>0 DEF InSection, InFlight
  <1>5. at[current].point \in AtWork
    BY <1>0, <1>4 DEF RingIInv, FlightIsRecent
  <1>6. RingTypeOK' /\ SectionIsLocked'
    BY <1>0, <1>3, <1>4, <1>5 DEF RingIInv, RingTypeOK, SectionIsLocked
  <1>7. FlightIsRecent'
    BY <1>0, <1>3 DEF RingIInv, FlightIsRecent, After, Num
  <1>8. \A t \in Ring : Passes(t)' = Passes(t)
    BY <1>0, <1>3 DEF Passes
  <1>9. RoundsAgree'
    BY <1>0, <1>8 DEF RingIInv, RoundsAgree
  <1> QED BY <1>2, <1>6, <1>7, <1>9 DEF RingIInv

(* The turn is passed on: nobody else is in flight. *)
LEMMA PassStep ==
  ASSUME RingIInv, PassTurn
  PROVE  RingIInv'
  <1>0. /\ current \in Ring /\ current \in Tid /\ Ring \subseteq Tid /\ status = "up"
        /\ pc[current] = "test" /\ at[current].point \in AtWork /\ GoesTo("signal")
        /\ UNCHANGED left /\ UNCHANGED disciplined /\ UNCHANGED syncVars /\ UNCHANGED vars
        /\ turn = Num(current) /\ turn' = After(turn) /\ turn \in 0 .. N - 1
        /\ pc \in [Tid -> Labels] /\ left \in [Ring -> Int] /\ LOOPS \in Nat
        /\ N \in Nat /\ N >= 1
    BY RingNames
    DEF PassTurn, MayCall, InUser, RingIInv, RingTypeOK, allVars, After, InCaller, AtWork
  <1>1. LibInv'
    BY <1>0, SchedulerEffect DEF RingIInv, syncVars
  <1>2. turn' = (IF turn = 0 THEN N - 1 ELSE turn - 1) /\ turn' \in 0 .. N - 1
    BY <1>0, AfterIs
  <1>3. /\ \A t \in Ring \ {current} : pc'[t] = pc[t]
        /\ pc'[current] = "signal" /\ pc' \in [Tid -> Labels]
        /\ at' = at /\ holder' = holder
    BY <1>0 DEF GoesTo, Labels, syncVars
  <1>4. \A t \in Ring \ {current} : ~InFlight(t)
    <2>1. \A t \in Ring \ {current} : ~(InSection(t) /\ at[t].point \in AtWork)
      BY <1>0, AloneInSection DEF InSection
    <2> QED BY <2>1 DEF RingIInv, FlightIsRecent, InFlight, InSection
  <1>5. RingTypeOK'
    BY <1>0, <1>2, <1>3 DEF RingTypeOK
  <1>6. SectionIsLocked'
    <2>1. \A t \in Ring : InSection(t)' => InSection(t)
      BY <1>0, <1>3 DEF InSection
    <2> QED BY <1>3, <2>1 DEF RingIInv, SectionIsLocked
  <1>7. FlightIsRecent'
    <2>1. \A t \in Ring : InFlight(t)' => t = current
      BY <1>3, <1>4 DEF InFlight
    <2>2. at'[current].point \in AtWork /\ turn' = After(Num(current))
      BY <1>0, <1>3
    <2> QED BY <2>1, <2>2 DEF FlightIsRecent, Num, After
  <1>8. RoundsAgree'
    <2>1. PICK r \in Nat : \A t \in Ring : Passes(t) = IF Num(t) > turn THEN r + 1 ELSE r
      BY DEF RingIInv, RoundsAgree
    <2>2. \A t \in Ring \ {current} : Passes(t)' = Passes(t)
      BY <1>0, <1>3 DEF Passes, InFlight
    <2>3. ASSUME NEW t \in Ring, t = current
          PROVE  Passes(t) = r /\ Passes(t)' = r + 1
      <3>1. Passes(t) = r
        BY <1>0, <2>1, <2>3, NumFacts
      <3>2. ~InFlight(t) /\ InFlight(t)' /\ left' = left /\ left[t] \in Int
        BY <1>0, <1>3, <2>3 DEF InFlight
      <3> QED BY <1>0, <3>1, <3>2 DEF Passes
    <2>4. \A t \in Ring \ {current} : Num(t) # turn /\ Num(t) \in 0 .. N - 1
      BY <1>0, NumFacts
    <2>5. CASE turn = 0
      <3>1. \A t \in Ring : Passes(t)' = r + 1
        BY <2>1, <2>2, <2>3, <2>4, <2>5
      <3>2. \A t \in Ring : Passes(t)' = IF Num(t) > turn' THEN (r + 1) + 1 ELSE r + 1
        <4>1. \A t \in Ring : ~(Num(t) > turn')
          BY <1>0, <1>2, <2>5, NumFacts
        <4> QED BY <3>1, <4>1
      <3>3. r + 1 \in Nat /\ \A t \in Ring : Num(t)' = Num(t)
        BY <2>1 DEF Num
      <3> QED BY <3>2, <3>3 DEF RoundsAgree, Num
    <2>6. CASE turn # 0
      <3>1. turn' = turn - 1
        BY <1>2, <2>6
      <3>2. \A t \in Ring \ {current} : Num(t) > turn' <=> Num(t) > turn
        BY <1>0, <2>4, <3>1
      <3>3. Num(current) > turn'
        BY <1>0, <3>1
      <3>4. \A t \in Ring : Passes(t)' = IF Num(t) > turn' THEN r + 1 ELSE r
        BY <2>1, <2>2, <2>3, <3>2, <3>3
      <3> QED BY <3>4 DEF RoundsAgree, Num
    <2> QED BY <2>5, <2>6
  <1> QED BY <1>1, <1>5, <1>6, <1>7, <1>8 DEF RingIInv

LEMMA ExitStep ==
  ASSUME RingIInv, RingExit
  PROVE  RingIInv'
  <1>1. /\ status = "up" /\ ThreadExit /\ UNCHANGED syncVars
        /\ UNCHANGED <<turn, pc, left>> /\ UNCHANGED disciplined
    BY DEF RingExit, MayCall, InUser
  <1>2. LibInv' /\ at' = at /\ holder' = holder
    BY <1>1, SchedulerEffect DEF RingIInv, syncVars
  <1> QED BY <1>1, <1>2, RingStays DEF OthersStay, KeepsLock

LEMMA RingStep == RingIInv /\ [RingNext]_ringVars => RingIInv'
  <1> SUFFICES ASSUME RingIInv, [RingNext]_ringVars PROVE RingIInv'
    OBVIOUS
  <1>1. CASE UNCHANGED ringVars
    <2>1. /\ UNCHANGED vars /\ UNCHANGED <<holder, at, inside, disciplined>>
          /\ UNCHANGED <<turn, pc, left>>
      BY <1>1 DEF ringVars, allVars, syncVars
    <2>2. IInv' /\ (status' = "up" => NoneKilled')
      BY <2>1, NextIInv DEF RingIInv, LibInv, NoneKilled, Zombies, vars
    <2>3. LibInv'
      BY <2>1, <2>2 DEF RingIInv, LibInv, SyncTypeOK, OnlyTestLock
    <2> QED BY <2>1, <2>3, RingStays DEF OthersStay, KeepsLock, vars
  <1>2. CASE Program
    <2>1. CASE Awoken
      <3>1. /\ current \in Ring /\ pc[current] = "awoken" /\ MayCall
            /\ UNCHANGED <<allVars, turn, left>>
        BY <2>1 DEF Awoken
      <3>2. PICK label \in {"test", "exit"} : GoesTo(label)
        BY <2>1 DEF Awoken
      <3> QED BY <3>1, <3>2, WalkStep DEF Labels, InFlight, InSection, MayCall, InUser
    <2> QED BY <1>2, <2>1, MainStep, AcquireStep, AwaitStep, PassStep, SignalStep,
               ReleaseTestStep, ExitStep DEF Program
  <1>3. CASE Library \/ Preempt
    <2>1. /\ SyncContinue \/ Spinning \/ SyncInterrupt
          /\ UNCHANGED <<turn, pc, left>> /\ UNCHANGED disciplined
      BY <1>3 DEF Library, Preempt
    <2> QED BY <2>1, LibraryEffect, RingStays DEF RingIInv
  <1> QED BY <1>1, <1>2, <1>3 DEF RingNext, RingEnded

LEMMA RingInitial == RingInit => RingIInv
  <1> SUFFICES ASSUME RingInit PROVE RingIInv
    OBVIOUS
  <1>1. SyncIInv /\ SyncInit
    BY SyncInitial DEF RingInit
  <1>2. LibInv
    <2>1. IInv /\ SyncTypeOK
      BY <1>1 DEF SyncIInv
    <2>2. OnlyTestLock
      BY <1>1, NewPlaces DEF SyncInit, OnlyTestLock
    <2>3. NoneKilled
      BY <1>1, <2>1 DEF SyncInit, Init, NoneKilled, IInv, TypeOK
    <2> QED BY <2>1, <2>2, <2>3 DEF LibInv
  <1>3. RingTypeOK
    BY RingNames DEF RingInit, RingTypeOK, Labels
  <1>4. \A t \in Ring : pc[t] = "acquire"
    BY RingNames DEF RingInit
  <1>5. SectionIsLocked /\ FlightIsRecent
    BY <1>4 DEF SectionIsLocked, FlightIsRecent, InSection, InFlight
  <1>6. RoundsAgree
    <2>1. \A t \in Ring : Passes(t) = 0 /\ ~(Num(t) > turn)
      BY <1>4, RingNames, NumFacts DEF RingInit, Passes, InFlight
    <2> QED BY <2>1 DEF RoundsAgree
  <1> QED BY <1>2, <1>3, <1>5, <1>6 DEF RingIInv

LEMMA RingInvariance == RingSpec => []RingIInv
  BY RingInitial, RingStep, PTL DEF RingSpec

(* However the threads of test_cv_signal are preempted: none is ever a round *)
(* ahead of another, for any number of threads and loops.                   *)
THEOREM NobodyIsLapped == RingSpec => []NobodyLapped
  <1>1. ASSUME RingIInv PROVE NobodyLapped
    <2> SUFFICES ASSUME NEW t \in Ring, NEW u \in Ring
                 PROVE  left[t] - left[u] \in {-1, 0, 1}
      BY DEF NobodyLapped
    <2>1. PICK r \in Nat : \A v \in Ring : Passes(v) = IF Num(v) > turn THEN r + 1 ELSE r
      BY <1>1 DEF RingIInv, RoundsAgree
    <2>2. left[t] \in Int /\ left[u] \in Int /\ LOOPS \in Nat
          /\ Num(t) \in 0 .. N - 1 /\ Num(u) \in 0 .. N - 1 /\ turn \in 0 .. N - 1
      BY <1>1, RingNames, NumFacts DEF RingIInv, RingTypeOK
    <2>3. \A v \in {t, u} : InFlight(v) =>
             turn = IF Num(v) = 0 THEN N - 1 ELSE Num(v) - 1
      BY <1>1, <2>2, AfterIs DEF RingIInv, FlightIsRecent
    <2> QED BY <2>1, <2>2, <2>3 DEF Passes
  <1> QED BY <1>1, RingInvariance, PTL

=============================================================================
