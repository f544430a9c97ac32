-------------------------- MODULE ThreadSchedProofs --------------------------
(***************************************************************************)
(* The queues of the scheduler account for every thread, exactly once: for *)
(* any number of threads and wait queues, and for any calls.                *)
(***************************************************************************)
EXTENDS ThreadSched, QueueLemmas

(* thread_exit reaps the other exited threads before it queues itself: this *)
(* bounds what it wakes.                                                    *)
OneZombie == Len(killq) <= 1

(* The queue of a free id is empty in the model: its sleepers, if any, were *)
(* moved to stranded.  thread_create starts from an empty queue.            *)
FreeIdHasNoWaiters == \A t \in Tid \ exists : wq[t] = <<>>

(* The inductive invariant: the two above are what Accounted rests on.      *)
IInv == TypeOK /\ OneZombie /\ FreeIdHasNoWaiters /\ Accounted

placed == <<exists, current, ready, killq, wq, stranded>>

-----------------------------------------------------------------------------
(* Facts about the helpers. *)

LEMMA IdsAreQueues == Tid \subseteq WaitQueues /\ Queues \subseteq WaitQueues
  BY DEF WaitQueues

LEMMA WithoutFacts ==
  ASSUME TypeOK, NEW G
  PROVE  /\ Without(G) \in [WaitQueues -> Seq(Tid)]
         /\ \A q \in WaitQueues :
              Without(G)[q] = IF q \in G THEN <<>> ELSE wq[q]
  BY EmptySeq DEF TypeOK, Without

LEMMA ZombieFacts ==
  ASSUME TypeOK, OneZombie
  PROVE  \/ killq = <<>> /\ Zombies = {}
         \/ \E z \in Tid : killq = <<z>> /\ Zombies = {z}
  BY ShortQueue, EmptyQueue DEF TypeOK, OneZombie, Zombies

(* The threads thread_exit finds ready: those that were, and its waiters    *)
(* and those of the thread it reaps, each once.                             *)
LEMMA ReadyAtExitFacts ==
  ASSUME TypeOK, OneZombie
  PROVE  /\ ReadyAtExit \in Seq(Tid)
         /\ Range(ReadyAtExit) = UNION {Range(ready), Range(wq[current]),
                                        UNION {Range(wq[z]) : z \in Zombies}}
         /\ NoThreadTwice => IsInjective(ReadyAtExit)
  <1> DEFINE own == ready \o wq[current]
             reaped == FlattenSeq([i \in DOMAIN killq |-> wq[killq[i]]])
  <1>1. /\ ready \in Seq(Tid) /\ current \in Tid
        /\ \A q \in WaitQueues : wq[q] \in Seq(Tid)
        /\ Tid \subseteq WaitQueues
    BY IdsAreQueues DEF TypeOK
  <1>2. /\ own \in Seq(Tid)
        /\ Range(own) = Range(ready) \cup Range(wq[current])
        /\ NoThreadTwice => IsInjective(own)
    <2>1. NoThreadTwice => Range(ready) \cap Range(wq[current]) = {}
      BY <1>1 DEF NoThreadTwice, Sleepers
    <2>2. NoThreadTwice => IsInjective(ready) /\ IsInjective(wq[current])
      BY <1>1 DEF NoThreadTwice
    <2> QED BY <1>1, <2>1, <2>2, ConcatQueue
  <1> HIDE DEF own
  <1>3. ReadyAtExit = own \o reaped
    BY DEF ReadyAtExit, own
  <1>4. CASE killq = <<>> /\ Zombies = {}
    <2>1. [i \in DOMAIN killq |-> wq[killq[i]]] = <<>>
      BY <1>4
    <2>2. reaped = <<>>
      BY <2>1, FlattenEmpty
    <2>3. ReadyAtExit = own
      BY <1>2, <1>3, <2>2, ConcatEmptySeq
    <2> QED BY <1>2, <1>4, <2>3
  <1>5. ASSUME NEW z \in Tid, killq = <<z>>, Zombies = {z}
        PROVE  /\ ReadyAtExit \in Seq(Tid)
               /\ Range(ReadyAtExit) = UNION {Range(ready), Range(wq[current]),
                                        UNION {Range(wq[y]) : y \in Zombies}}
               /\ NoThreadTwice => IsInjective(ReadyAtExit)
    <2>1. [i \in DOMAIN killq |-> wq[killq[i]]] = <<wq[z]>>
      BY <1>5
    <2>2. reaped = wq[z] /\ wq[z] \in Seq(Tid)
      BY <1>1, <2>1, FlattenOne
    <2> HIDE DEF reaped
    <2>3. /\ ReadyAtExit \in Seq(Tid)
          /\ Range(ReadyAtExit) = Range(own) \cup Range(wq[z])
      BY <1>2, <1>3, <2>2, ConcatQueue
    <2>4. ASSUME NoThreadTwice PROVE IsInjective(ReadyAtExit)
      <3>1. current # z /\ z \in WaitQueues /\ current \in WaitQueues
        BY <1>1, <1>5, <2>4 DEF NoThreadTwice
      <3>2. Range(wq[current]) \cap Range(wq[z]) = {} /\ IsInjective(wq[z])
        BY <2>4, <3>1 DEF NoThreadTwice
      <3>3. Range(ready) \cap Range(wq[z]) = {}
        BY <2>4, <3>1 DEF NoThreadTwice, Sleepers
      <3> QED BY <1>2, <1>3, <2>2, <2>4, <3>2, <3>3, ConcatQueue
    <2> QED BY <1>2, <1>5, <2>3, <2>4
  <1> QED BY <1>4, <1>5, ZombieFacts

-----------------------------------------------------------------------------
(* Types. *)

LEMMA KillExitThreadsType ==
  ASSUME TypeOK, KillExitThreads
  PROVE  /\ exists' \subseteq Tid
         /\ killq' \in Seq(Tid) /\ Len(killq') = 0
         /\ wq' \in [WaitQueues -> Seq(Tid)]
         /\ stranded' \subseteq Tid
  <1>1. \A z \in Zombies : wq[z] \in Seq(Tid) /\ Range(wq[z]) \subseteq Tid
    BY RangeOfSeq, IdsAreQueues DEF TypeOK, Zombies
  <1> QED BY <1>1, EmptySeq, WithoutFacts DEF TypeOK, KillExitThreads

LEMMA SwitchToType ==
  ASSUME TypeOK, NEW next \in Tid, NEW rest \in Seq(Tid),
         NEW saved \in Ctx, SwitchTo(next, rest, saved)
  PROVE  /\ current' \in Tid /\ ready' \in Seq(Tid)
         /\ ctx' \in [Tid -> Ctx] /\ setcontext_called' \in {0, 1}
  BY AppendProperties DEF TypeOK, SwitchTo

LEMMA GoToSleepType ==
  ASSUME TypeOK, OneZombie, NEW q \in WaitQueues, NEW saved \in Ctx,
         GoToSleep(q, saved)
  PROVE  TypeOK' /\ OneZombie'
  <1>1. wq' \in [WaitQueues -> Seq(Tid)]
    BY AppendProperties DEF TypeOK, GoToSleep
  <1>2. current' \in Tid /\ ready' \in Seq(Tid)
    BY HeadTailProperties DEF TypeOK, GoToSleep
  <1> QED BY <1>1, <1>2 DEF TypeOK, OneZombie, GoToSleep

LEMMA YieldType ==
  ASSUME TypeOK, NEW want, ThreadYield(want)
  PROVE  TypeOK' /\ OneZombie'
  <1>1. /\ exists' \subseteq Tid /\ killq' \in Seq(Tid) /\ Len(killq') = 0
        /\ wq' \in [WaitQueues -> Seq(Tid)] /\ stranded' \subseteq Tid
    BY KillExitThreadsType DEF ThreadYield
  <1>2. "any" \in Ctx /\ "tid" \in Ctx /\ "up" \in Status /\ "segv" \in Status
    BY DEF Ctx, Yielded, Status
  <1>3. /\ current' \in Tid /\ ready' \in Seq(Tid) /\ ctx' \in [Tid -> Ctx]
        /\ setcontext_called' \in {0, 1} /\ status' \in Status
    <2>1. CASE YieldAlone(want)
      BY <2>1 DEF YieldAlone, TypeOK
    <2>2. CASE YieldAny(want)
      <3>1. Head(ready) \in Tid /\ Tail(ready) \in Seq(Tid)
        BY <2>2, HeadTailProperties DEF YieldAny, TypeOK
      <3> QED BY <1>2, <2>2, <3>1, SwitchToType DEF YieldAny, TypeOK
    <2>3. CASE YieldSelf(want)
      BY <2>3 DEF YieldSelf, TypeOK
    <2>4. CASE YieldTo(want)
      <3>1. PICK i \in DOMAIN ready :
              ready[i] = want /\ SwitchTo(want, RemoveAt(ready, i), "tid")
        BY <2>4 DEF YieldTo
      <3>2. want \in Tid /\ RemoveAt(ready, i) \in Seq(Tid)
        BY <3>1, RemoveQueue DEF TypeOK
      <3> QED BY <1>2, <2>4, <3>1, <3>2, SwitchToType DEF YieldTo, TypeOK
    <2>5. CASE YieldAbsent(want)
      BY <1>2, <2>5 DEF YieldAbsent, TypeOK
    <2> QED BY <2>1, <2>2, <2>3, <2>4, <2>5 DEF ThreadYield
  <1> QED BY <1>1, <1>3 DEF TypeOK, OneZombie

LEMMA ExitType ==
  ASSUME TypeOK, OneZombie, ThreadExit
  PROVE  TypeOK' /\ OneZombie'
  <1>1. wq' \in [WaitQueues -> Seq(Tid)] /\ stranded' \subseteq Tid
        /\ setcontext_called' \in {0, 1}
    BY WithoutFacts DEF ThreadExit, TypeOK
  <1>2. CASE ExitProcess
    BY <1>1, <1>2, EmptySeq DEF ExitProcess, TypeOK, OneZombie, Status
  <1>3. CASE ExitToNext
    <2>1. /\ ReadyAtExit \in Seq(Tid) /\ ReadyAtExit # <<>>
      BY <1>3, ReadyAtExitFacts DEF ExitToNext
    <2>2. current' \in Tid /\ ready' \in Seq(Tid)
      BY <1>3, <2>1, HeadTailProperties DEF ExitToNext
    <2>3. killq' \in Seq(Tid) /\ Len(killq') = 1
      BY <1>3 DEF ExitToNext, TypeOK
    <2>4. ctx' \in [Tid -> Ctx]
      BY <1>3 DEF ExitToNext, TypeOK, Ctx
    <2> QED BY <1>1, <1>3, <2>2, <2>3, <2>4 DEF ExitToNext, TypeOK, OneZombie
  <1> QED BY <1>2, <1>3 DEF ThreadExit

(* Every step keeps the types and leaves at most one exited thread. *)
LEMMA NextType ==
  ASSUME TypeOK, OneZombie, [Next]_vars
  PROVE  TypeOK' /\ OneZombie'
  <1>0. /\ "run" \in Ctx /\ "stub" \in Ctx /\ "exit" \in Ctx
        /\ "sleep" \in Ctx /\ "wait" \in Ctx
        /\ "corrupt" \in Status /\ "wild" \in Status
    BY DEF Ctx, Status
  <1>1. CASE ThreadStub
    BY <1>0, <1>1 DEF ThreadStub, TypeOK, OneZombie
  <1>2. CASE ResumeYield
    BY <1>0, <1>2 DEF ResumeYield, TypeOK, OneZombie
  <1>3. CASE ResumeSleep
    BY <1>0, <1>3 DEF ResumeSleep, TypeOK, OneZombie
  <1>4. CASE ResumeWait
    BY <1>0, <1>4, KillExitThreadsType DEF ResumeWait, TypeOK, OneZombie
  <1>5. CASE ThreadExit
    BY <1>5, ExitType
  <1>6. ASSUME NEW want, ThreadYield(want) PROVE TypeOK' /\ OneZombie'
    BY <1>6, YieldType
  <1>7. CASE ThreadCreate
    <2>1. PICK id \in Tid : /\ exists' = exists \cup {id}
                            /\ ready' = Append(ready, id)
                            /\ ctx' = [ctx EXCEPT ![id] = "stub"]
                            /\ wq' = [wq EXCEPT ![id] = <<>>]
      BY <1>7 DEF ThreadCreate, NewId
    <2>2. ready' \in Seq(Tid) /\ wq' \in [WaitQueues -> Seq(Tid)]
      BY <2>1, AppendProperties, EmptySeq DEF TypeOK
    <2> QED BY <1>0, <1>7, <2>1, <2>2 DEF ThreadCreate, TypeOK, OneZombie
  <1>8. ASSUME NEW q \in Queues, ThreadSleep(q) PROVE TypeOK' /\ OneZombie'
    BY <1>0, <1>8, GoToSleepType, IdsAreQueues DEF ThreadSleep
  <1>9. ASSUME NEW q \in Queues, NEW all \in BOOLEAN, ThreadWakeup(q, all)
        PROVE  TypeOK' /\ OneZombie'
    <2>1. q \in WaitQueues /\ wq[q] \in Seq(Tid) /\ wq[q] # <<>>
      BY <1>9, IdsAreQueues DEF ThreadWakeup, TypeOK
    <2>2. CASE WakeAll(q)
      <3>1. ready' \in Seq(Tid) /\ wq' \in [WaitQueues -> Seq(Tid)]
        BY <2>1, <2>2, ConcatProperties, EmptySeq DEF WakeAll, TypeOK
      <3> QED BY <1>9, <3>1 DEF ThreadWakeup, TypeOK, OneZombie
    <2>3. CASE WakeOne(q)
      <3>1. Head(wq[q]) \in Tid /\ Tail(wq[q]) \in Seq(Tid)
        BY <2>1, HeadTailProperties
      <3>2. ready' \in Seq(Tid) /\ wq' \in [WaitQueues -> Seq(Tid)]
        BY <2>3, <3>1, AppendProperties DEF WakeOne, TypeOK
      <3> QED BY <1>9, <3>2 DEF ThreadWakeup, TypeOK, OneZombie
    <2> QED BY <1>9, <2>2, <2>3 DEF ThreadWakeup
  <1>10. ASSUME NEW tid \in Tid, ThreadWait(tid) PROVE TypeOK' /\ OneZombie'
    <2>1. CASE GoToSleep(tid, "wait")
      BY <1>0, <2>1, GoToSleepType, IdsAreQueues
    <2>2. CASE ~ GoToSleep(tid, "wait")
      BY <1>10, <2>2, KillExitThreadsType DEF ThreadWait, TypeOK, OneZombie
    <2> QED BY <2>1, <2>2
  <1>11. ASSUME NEW tid \in Tid, ThreadKill(tid) PROVE TypeOK' /\ OneZombie'
    BY <1>0, <1>11 DEF ThreadKill, TypeOK, OneZombie
  <1>12. CASE BeyondTable
    BY <1>0, <1>12 DEF BeyondTable, TypeOK, OneZombie
  <1>13. CASE UNCHANGED vars
    BY <1>13 DEF vars, TypeOK, OneZombie
  <1> QED
    BY <1>1, <1>2, <1>3, <1>4, <1>5, <1>6, <1>7, <1>8, <1>9, <1>10, <1>11,
       <1>12, <1>13 DEF Next, Continue, InterruptHandler, Call, Ended

-----------------------------------------------------------------------------
(* The queues account for every thread. *)

(* Steps that move no thread. *)
LEMMA NothingMoves ==
  ASSUME FreeIdHasNoWaiters, Accounted, status = "up", UNCHANGED placed
  PROVE  FreeIdHasNoWaiters' /\ Accounted'
  BY DEF placed, FreeIdHasNoWaiters, Accounted, NoThreadTwice, NoThreadLost,
         Sleepers, Zombies

(* The reaping in thread_yield and thread_wait, together with any exchange  *)
(* of the running thread and the ready ones: the sleepers of the reaped     *)
(* thread become stranded, all others stay.                                 *)
LEMMA ReapStep ==
  ASSUME TypeOK, FreeIdHasNoWaiters, NoThreadTwice, NoThreadLost,
         KillExitThreads,
         ready' \in Seq(Tid), IsInjective(ready'),
         current' \notin Range(ready'),
         {current'} \cup Range(ready') = {current} \cup Range(ready)
  PROVE  FreeIdHasNoWaiters' /\ NoThreadTwice' /\ NoThreadLost'
  <1>1. Zombies' = {} /\ IsInjective(killq')
    BY EmptyQueue DEF KillExitThreads, Zombies
  <1>2. /\ Zombies \subseteq Tid
        /\ Tid \subseteq WaitQueues
    BY RangeOfSeq, IdsAreQueues DEF TypeOK, Zombies
  <1>3. \A q \in WaitQueues : wq'[q] = IF q \in Zombies THEN <<>> ELSE wq[q]
    BY WithoutFacts DEF KillExitThreads
  <1>4. \A q \in WaitQueues :
          /\ Range(wq'[q]) = IF q \in Zombies THEN {} ELSE Range(wq[q])
          /\ IsInjective(wq'[q])
    BY <1>3, EmptyQueue DEF NoThreadTwice
  <1>5. stranded' = stranded \cup UNION {Range(wq[z]) : z \in Zombies}
    BY DEF KillExitThreads
  <1>6. /\ Sleepers' \cup stranded' = Sleepers \cup stranded
        /\ Sleepers' \subseteq Sleepers
    BY <1>2, <1>4, <1>5 DEF Sleepers
  <1>7. Sleepers' \cap stranded' = {}
    <2> SUFFICES ASSUME NEW t \in Sleepers', t \in stranded' PROVE FALSE
      OBVIOUS
    <2>1. PICK q \in WaitQueues : t \in Range(wq'[q])
      BY DEF Sleepers
    <2>2. q \notin Zombies /\ t \in Range(wq[q])
      BY <1>4, <2>1
    <2>3. t \in Sleepers
      BY <2>2 DEF Sleepers
    <2>4. PICK z \in Zombies : t \in Range(wq[z])
      BY <1>5, <2>3 DEF NoThreadTwice
    <2> QED BY <1>2, <2>2, <2>4 DEF NoThreadTwice
  <1>8. \A q, r \in WaitQueues : q # r => Range(wq'[q]) \cap Range(wq'[r]) = {}
    BY <1>4 DEF NoThreadTwice
  <1>9. NoThreadTwice'
    BY <1>1, <1>4, <1>6, <1>7, <1>8 DEF NoThreadTwice
  <1>10. NoThreadLost'
    BY <1>1, <1>6 DEF NoThreadTwice, NoThreadLost, KillExitThreads
  <1>11. FreeIdHasNoWaiters'
    BY <1>2, <1>3 DEF FreeIdHasNoWaiters, KillExitThreads
  <1> QED BY <1>9, <1>10, <1>11

(* thread_yield exchanges the caller with a ready thread, if with anyone.    *)
LEMMA YieldExchange ==
  ASSUME TypeOK, Accounted, NEW want, ThreadYield(want)
  PROVE  /\ ready' \in Seq(Tid) /\ IsInjective(ready')
         /\ current' \notin Range(ready')
         /\ {current'} \cup Range(ready') = {current} \cup Range(ready)
  <1>1. /\ ready \in Seq(Tid) /\ current \in Tid
        /\ IsInjective(ready) /\ current \notin Range(ready)
    BY DEF ThreadYield, InUser, Accounted, NoThreadTwice, TypeOK
  <1>2. ASSUME NEW next \in Range(ready), NEW rest \in Seq(Tid), NEW saved,
               SwitchTo(next, rest, saved),
               Range(rest) = Range(ready) \ {next}, IsInjective(rest)
        PROVE  /\ ready' \in Seq(Tid) /\ IsInjective(ready')
               /\ current' \notin Range(ready')
               /\ {current'} \cup Range(ready') = {current} \cup Range(ready)
    <2>1. ready' = Append(rest, current) /\ current' = next
      BY <1>2 DEF SwitchTo
    <2>2. /\ ready' \in Seq(Tid)
          /\ Range(ready') = Range(rest) \cup {current}
          /\ IsInjective(ready')
      BY <1>1, <1>2, <2>1, AppendQueue
    <2> QED BY <1>1, <1>2, <2>1, <2>2
  <1>3. CASE YieldAlone(want) \/ YieldSelf(want) \/ YieldAbsent(want)
    BY <1>1, <1>3 DEF YieldAlone, YieldSelf, YieldAbsent
  <1>4. CASE YieldAny(want)
    <2>1. /\ Head(ready) \in Range(ready) /\ Tail(ready) \in Seq(Tid)
          /\ Range(Tail(ready)) = Range(ready) \ {Head(ready)}
          /\ IsInjective(Tail(ready))
      BY <1>1, <1>4, TailQueue DEF YieldAny
    <2> QED BY <1>2, <1>4, <2>1 DEF YieldAny
  <1>5. CASE YieldTo(want)
    <2>1. PICK i \in DOMAIN ready :
            ready[i] = want /\ SwitchTo(want, RemoveAt(ready, i), "tid")
      BY <1>5 DEF YieldTo
    <2>2. /\ want \in Range(ready) /\ RemoveAt(ready, i) \in Seq(Tid)
          /\ Range(RemoveAt(ready, i)) = Range(ready) \ {want}
          /\ IsInjective(RemoveAt(ready, i))
      BY <1>1, <2>1, RemoveQueue
    <2> QED BY <1>2, <2>1, <2>2
  <1> QED BY <1>3, <1>4, <1>5 DEF ThreadYield

LEMMA YieldAccounted ==
  ASSUME TypeOK, FreeIdHasNoWaiters, Accounted, NEW want, ThreadYield(want)
  PROVE  FreeIdHasNoWaiters' /\ Accounted'
  <1>1. NoThreadTwice /\ NoThreadLost /\ KillExitThreads
    BY DEF ThreadYield, InUser, Accounted
  <1> QED BY <1>1, YieldExchange, ReapStep DEF Accounted

(* thread_sleep and thread_wait: the caller moves to the end of a wait      *)
(* queue, the first ready thread runs.                                      *)
LEMMA SleepAccounted ==
  ASSUME TypeOK, FreeIdHasNoWaiters, Accounted, status = "up",
         NEW q \in WaitQueues, q \in Tid => q \in exists,
         NEW saved, GoToSleep(q, saved)
  PROVE  FreeIdHasNoWaiters' /\ Accounted'
  <1>1. NoThreadTwice /\ NoThreadLost /\ current \in Tid
    BY DEF Accounted, TypeOK
  <1>2. /\ current' = Head(ready) /\ ready' = Tail(ready)
        /\ Head(ready) \in Range(ready)
        /\ Range(ready') = Range(ready) \ {Head(ready)} /\ IsInjective(ready')
    BY <1>1, TailQueue DEF GoToSleep, TypeOK, NoThreadTwice
  <1>3. /\ wq' \in [WaitQueues -> Seq(Tid)]
        /\ \A r \in WaitQueues : r # q => wq'[r] = wq[r]
        /\ wq'[q] = Append(wq[q], current)
    BY AppendProperties DEF GoToSleep, TypeOK
  <1>4. /\ wq[q] \in Seq(Tid) /\ IsInjective(wq[q]) /\ current \notin Range(wq[q])
    BY <1>1 DEF TypeOK, NoThreadTwice, Sleepers
  <1>5. Range(wq'[q]) = Range(wq[q]) \cup {current} /\ IsInjective(wq'[q])
    BY <1>1, <1>3, <1>4, AppendQueue
  <1>6. \A r \in WaitQueues :
          /\ Range(wq'[r]) = Range(wq[r]) \cup (IF r = q THEN {current} ELSE {})
          /\ IsInjective(wq'[r])
    BY <1>1, <1>3, <1>5 DEF NoThreadTwice
  <1>7. Sleepers' = Sleepers \cup {current}
    BY <1>6 DEF Sleepers
  <1>8. \A r, u \in WaitQueues : r # u => Range(wq'[r]) \cap Range(wq'[u]) = {}
    BY <1>1, <1>6 DEF NoThreadTwice, Sleepers
  <1>9. Zombies' = Zombies /\ stranded' = stranded /\ exists' = exists
        /\ killq' = killq
    BY DEF GoToSleep, Zombies
  <1>10. NoThreadTwice'
    <2>1. /\ current' \notin Range(ready') \cup Zombies' \cup Sleepers' \cup stranded'
          /\ Range(ready') \cap (Zombies' \cup Sleepers' \cup stranded') = {}
          /\ Zombies' \cap (Sleepers' \cup stranded') = {}
          /\ Sleepers' \cap stranded' = {}
      BY <1>1, <1>2, <1>7, <1>9 DEF NoThreadTwice
    <2>2. IsInjective(ready') /\ IsInjective(killq')
      BY <1>1, <1>2, <1>9 DEF NoThreadTwice
    <2> QED BY <1>6, <1>8, <2>1, <2>2 DEF NoThreadTwice
  <1>11. NoThreadLost'
    BY <1>1, <1>2, <1>7, <1>9 DEF NoThreadLost, NoThreadTwice
  <1>12. FreeIdHasNoWaiters'
    BY <1>3, <1>9, IdsAreQueues DEF FreeIdHasNoWaiters
  <1> QED BY <1>10, <1>11, <1>12 DEF Accounted

(* thread_wakeup: some sleepers of a queue become ready. *)
LEMMA WakeupAccounted ==
  ASSUME TypeOK, FreeIdHasNoWaiters, Accounted,
         NEW q \in Queues, NEW all \in BOOLEAN, ThreadWakeup(q, all)
  PROVE  FreeIdHasNoWaiters' /\ Accounted'
  <1>1. /\ NoThreadTwice /\ NoThreadLost
        /\ q \in WaitQueues /\ q \notin Tid
        /\ wq[q] # <<>> /\ wq[q] \in Seq(Tid) /\ IsInjective(wq[q])
        /\ ready \in Seq(Tid) /\ IsInjective(ready)
        /\ Range(ready) \cap Range(wq[q]) = {}
    BY IdsAreQueues, QueuesAssumption
    DEF ThreadWakeup, InUser, Accounted, TypeOK, NoThreadTwice, Sleepers
  <1>2. PICK left \in Seq(Tid) :
          /\ wq' = [wq EXCEPT ![q] = left]
          /\ IsInjective(left) /\ Range(left) \subseteq Range(wq[q])
          /\ Range(ready') = Range(ready) \cup (Range(wq[q]) \ Range(left))
          /\ IsInjective(ready')
    <2>1. CASE WakeAll(q)
      <3>1. /\ Range(ready') = Range(ready) \cup Range(wq[q])
            /\ IsInjective(ready')
        BY <1>1, <2>1, ConcatQueue DEF WakeAll
      <3>2. <<>> \in Seq(Tid)
        BY EmptySeq
      <3> WITNESS <<>> \in Seq(Tid)
      <3> QED BY <2>1, <3>1, EmptyQueue DEF WakeAll
    <2>2. CASE WakeOne(q)
      <3>1. /\ Head(wq[q]) \in Tid /\ Head(wq[q]) \in Range(wq[q])
            /\ Tail(wq[q]) \in Seq(Tid) /\ IsInjective(Tail(wq[q]))
            /\ Range(Tail(wq[q])) = Range(wq[q]) \ {Head(wq[q])}
        BY <1>1, TailQueue
      <3>2. /\ Range(ready') = Range(ready) \cup {Head(wq[q])}
            /\ IsInjective(ready')
        BY <1>1, <2>2, <3>1, AppendQueue DEF WakeOne
      <3>3. wq' = [wq EXCEPT ![q] = Tail(wq[q])]
        BY <2>2 DEF WakeOne
      <3>4. Tail(wq[q]) \in Seq(Tid)
        BY <3>1
      <3> WITNESS Tail(wq[q]) \in Seq(Tid)
      <3> QED BY <3>1, <3>2, <3>3
    <2> QED BY <2>1, <2>2 DEF ThreadWakeup
  <1>3. /\ \A r \in WaitQueues : IsInjective(wq'[r])
        /\ \A r \in WaitQueues :
             Range(wq'[r]) = IF r = q THEN Range(left) ELSE Range(wq[r])
        /\ \A r \in WaitQueues : r # q => wq'[r] = wq[r]
    BY <1>1, <1>2 DEF NoThreadTwice, TypeOK
  <1>4. Sleepers' = Sleepers \ (Range(wq[q]) \ Range(left))
    BY <1>1, <1>2, <1>3 DEF Sleepers, NoThreadTwice
  <1>5. \A r, u \in WaitQueues : r # u => Range(wq'[r]) \cap Range(wq'[u]) = {}
    <2>1. \A r \in WaitQueues : Range(wq'[r]) \subseteq Range(wq[r])
      BY <1>2, <1>3
    <2>2. \A r, u \in WaitQueues : r # u => Range(wq[r]) \cap Range(wq[u]) = {}
      BY <1>1 DEF NoThreadTwice
    <2> QED BY <2>1, <2>2
  <1>6. /\ Zombies' = Zombies /\ stranded' = stranded /\ exists' = exists
        /\ killq' = killq /\ current' = current
    BY DEF ThreadWakeup, Zombies
  <1>7. Range(wq[q]) \subseteq Sleepers
    BY <1>1 DEF Sleepers
  <1>8. NoThreadTwice'
    BY <1>1, <1>2, <1>3, <1>4, <1>5, <1>6, <1>7 DEF NoThreadTwice
  <1>9. NoThreadLost'
    BY <1>1, <1>2, <1>4, <1>6, <1>7 DEF NoThreadLost
  <1>10. FreeIdHasNoWaiters'
    BY <1>1, <1>3, <1>6, IdsAreQueues DEF FreeIdHasNoWaiters
  <1> QED BY <1>8, <1>9, <1>10 DEF Accounted

(* thread_create: a free id becomes ready. *)
LEMMA CreateAccounted ==
  ASSUME TypeOK, FreeIdHasNoWaiters, Accounted, ThreadCreate
  PROVE  FreeIdHasNoWaiters' /\ Accounted'
  <1>1. PICK id \in Tid \ exists : /\ exists' = exists \cup {id}
                                  /\ ready' = Append(ready, id)
                                  /\ wq' = [wq EXCEPT ![id] = <<>>]
    BY DEF ThreadCreate, NewId
  <1>2. wq' = wq
    BY <1>1, IdsAreQueues DEF FreeIdHasNoWaiters, TypeOK
  <1>3. /\ NoThreadTwice /\ NoThreadLost
        /\ UNCHANGED <<current, killq, stranded>>
    BY DEF ThreadCreate, InUser, Accounted
  <1>4. id \notin Range(ready) /\ ready \in Seq(Tid) /\ IsInjective(ready)
    BY <1>3 DEF NoThreadLost, NoThreadTwice, TypeOK
  <1>5. Range(ready') = Range(ready) \cup {id} /\ IsInjective(ready')
    BY <1>1, <1>4, AppendQueue
  <1>6. Sleepers' = Sleepers /\ Zombies' = Zombies
    BY <1>2, <1>3 DEF Sleepers, Zombies
  <1>7. NoThreadTwice'
    <2>1. id \notin {current} \cup Zombies \cup Sleepers \cup stranded
      BY <1>3 DEF NoThreadLost
    <2>2. /\ current' \notin Range(ready') \cup Zombies' \cup Sleepers' \cup stranded'
          /\ Range(ready') \cap (Zombies' \cup Sleepers' \cup stranded') = {}
          /\ Zombies' \cap (Sleepers' \cup stranded') = {}
          /\ Sleepers' \cap stranded' = {}
      BY <1>3, <1>5, <1>6, <2>1 DEF NoThreadTwice
    <2>3. \A q, r \in WaitQueues : q # r => Range(wq'[q]) \cap Range(wq'[r]) = {}
      BY <1>2, <1>3 DEF NoThreadTwice
    <2>4. /\ IsInjective(killq')
          /\ \A q \in WaitQueues : IsInjective(wq'[q])
      BY <1>2, <1>3 DEF NoThreadTwice
    <2> QED BY <1>5, <2>2, <2>3, <2>4 DEF NoThreadTwice
  <1>8. NoThreadLost'
    BY <1>1, <1>3, <1>5, <1>6 DEF NoThreadLost
  <1>9. FreeIdHasNoWaiters'
    BY <1>1, <1>2 DEF FreeIdHasNoWaiters
  <1> QED BY <1>7, <1>8, <1>9 DEF Accounted

(* thread_exit: the caller becomes the only exited thread, its waiters and  *)
(* those of the thread it reaps become ready, the first ready thread runs.  *)
LEMMA ExitAccounted ==
  ASSUME TypeOK, OneZombie, FreeIdHasNoWaiters, Accounted, ThreadExit
  PROVE  FreeIdHasNoWaiters' /\ Accounted'
  <1> DEFINE Gone == Zombies \cup {current}
             Woken == UNION {Range(wq[z]) : z \in Gone}
  <1>1. /\ NoThreadTwice /\ NoThreadLost /\ current \in Tid
        /\ Zombies \subseteq Tid /\ Tid \subseteq WaitQueues
        /\ stranded' = stranded
    BY RangeOfSeq, IdsAreQueues DEF ThreadExit, Accounted, TypeOK, Zombies
  <1>2. \A q \in WaitQueues : wq'[q] = IF q \in Gone THEN <<>> ELSE wq[q]
    BY WithoutFacts DEF ThreadExit
  <1>3. CASE ExitProcess
    <2>1. status' # "up" /\ exists' = exists \ Gone
      BY <1>3 DEF ExitProcess
    <2> QED BY <1>1, <1>2, <2>1 DEF Accounted, FreeIdHasNoWaiters
  <1>4. CASE ExitToNext
    <2>1. /\ exists' = exists \ Zombies
          /\ killq' = <<current>>
          /\ current' = Head(ReadyAtExit)
          /\ ready' = Tail(ReadyAtExit)
          /\ ReadyAtExit # <<>>
      BY <1>4 DEF ExitToNext
    <2>2. /\ ReadyAtExit \in Seq(Tid) /\ IsInjective(ReadyAtExit)
          /\ Range(ReadyAtExit) = Range(ready) \cup Woken
      BY <1>1, ReadyAtExitFacts
    <2>3. /\ current' \in Range(ready) \cup Woken
          /\ Range(ready') = (Range(ready) \cup Woken) \ {current'}
          /\ IsInjective(ready')
      BY <2>1, <2>2, TailQueue
    <2>4. Zombies' = {current} /\ IsInjective(killq')
      BY <2>1 DEF Zombies, Range, IsInjective
    <2>5. \A q \in WaitQueues :
            /\ Range(wq'[q]) = IF q \in Gone THEN {} ELSE Range(wq[q])
            /\ IsInjective(wq'[q])
      BY <1>1, <1>2, EmptyQueue DEF NoThreadTwice
    <2>6. Sleepers' \cup Woken = Sleepers /\ Woken \subseteq Sleepers
      BY <1>1, <2>5 DEF Sleepers
    <2>7. Sleepers' \cap Woken = {}
      <3> SUFFICES ASSUME NEW t \in Sleepers', t \in Woken PROVE FALSE
        OBVIOUS
      <3>1. PICK q \in WaitQueues : t \in Range(wq'[q])
        BY DEF Sleepers
      <3>2. q \notin Gone /\ t \in Range(wq[q])
        BY <2>5, <3>1
      <3>3. PICK z \in Gone : t \in Range(wq[z])
        OBVIOUS
      <3> QED BY <1>1, <3>2, <3>3 DEF NoThreadTwice
    <2> HIDE DEF Woken
    <2>8. \A q, r \in WaitQueues : q # r => Range(wq'[q]) \cap Range(wq'[r]) = {}
      BY <1>1, <2>5 DEF NoThreadTwice
    <2>9. NoThreadTwice'
      BY <1>1, <2>3, <2>4, <2>5, <2>6, <2>7, <2>8 DEF NoThreadTwice
    <2>10. NoThreadLost'
      BY <1>1, <2>1, <2>3, <2>4, <2>6 DEF NoThreadLost, NoThreadTwice
    <2>11. FreeIdHasNoWaiters'
      BY <1>1, <1>2, <2>1 DEF FreeIdHasNoWaiters
    <2> QED BY <2>9, <2>10, <2>11 DEF Accounted
  <1> QED BY <1>3, <1>4 DEF ThreadExit

-----------------------------------------------------------------------------

(* thread_init establishes the invariant. *)
LEMMA InitIInv == Init => IInv
  <1> SUFFICES ASSUME Init PROVE IInv
    OBVIOUS
  <1>1. 0 \in Tid /\ <<>> \in Seq(Tid)
    BY MaxThreadsAssumption, EmptySeq DEF Tid
  <1>2. TypeOK /\ OneZombie
    BY <1>1 DEF Init, TypeOK, OneZombie, Ctx, Status
  <1>3. FreeIdHasNoWaiters
    BY IdsAreQueues DEF Init, FreeIdHasNoWaiters
  <1>4. Sleepers = {} /\ Zombies = {} /\ Range(ready) = {}
    BY EmptyQueue DEF Init, Sleepers, Zombies
  <1>5. NoThreadTwice /\ NoThreadLost
    BY <1>4, EmptyQueue DEF Init, NoThreadTwice, NoThreadLost
  <1> QED BY <1>2, <1>3, <1>5 DEF IInv, Accounted

(* Every step keeps the invariant. *)
LEMMA NextIInv == IInv /\ [Next]_vars => IInv'
  <1> SUFFICES ASSUME IInv, [Next]_vars PROVE IInv'
    OBVIOUS
  <1> USE DEF IInv
  <1>0. TypeOK' /\ OneZombie'
    BY NextType
  <1>1. CASE ThreadStub \/ ResumeYield \/ ResumeSleep
    BY <1>0, <1>1, NothingMoves DEF ThreadStub, ResumeYield, ResumeSleep, placed
  <1>2. CASE ResumeWait
    <2>1. /\ NoThreadTwice /\ NoThreadLost /\ ready \in Seq(Tid)
          /\ UNCHANGED <<current, ready>> /\ KillExitThreads
      BY <1>2 DEF ResumeWait, Accounted, TypeOK
    <2>2. IsInjective(ready) /\ current \notin Range(ready)
      BY <2>1 DEF NoThreadTwice
    <2> QED BY <1>0, <2>1, <2>2, ReapStep DEF Accounted
  <1>3. CASE ThreadExit
    BY <1>0, <1>3, ExitAccounted
  <1>4. ASSUME NEW want, ThreadYield(want) PROVE IInv'
    BY <1>0, <1>4, YieldAccounted
  <1>5. CASE ThreadCreate
    BY <1>0, <1>5, CreateAccounted
  <1>6. ASSUME NEW q \in Queues, ThreadSleep(q) PROVE IInv'
    BY <1>0, <1>6, SleepAccounted, IdsAreQueues, QueuesAssumption
    DEF ThreadSleep, InUser
  <1>7. ASSUME NEW q \in Queues, NEW all \in BOOLEAN, ThreadWakeup(q, all)
        PROVE  IInv'
    BY <1>0, <1>7, WakeupAccounted
  <1>8. ASSUME NEW tid \in Tid, ThreadWait(tid) PROVE IInv'
    <2>1. CASE GoToSleep(tid, "wait")
      BY <1>0, <1>8, <2>1, SleepAccounted, IdsAreQueues DEF ThreadWait, InUser
    <2>2. CASE ~ GoToSleep(tid, "wait")
      <3>1. /\ NoThreadTwice /\ NoThreadLost /\ ready \in Seq(Tid)
            /\ UNCHANGED <<current, ready>> /\ KillExitThreads
        BY <1>8, <2>2 DEF ThreadWait, InUser, Accounted, TypeOK
      <3>2. IsInjective(ready) /\ current \notin Range(ready)
        BY <3>1 DEF NoThreadTwice
      <3> QED BY <1>0, <3>1, <3>2, ReapStep DEF Accounted
    <2> QED BY <2>1, <2>2
  <1>9. ASSUME NEW tid \in Tid, ThreadKill(tid) PROVE IInv'
    BY <1>0, <1>9, NothingMoves DEF ThreadKill, InUser, placed
  <1>10. CASE BeyondTable
    BY <1>0, <1>10, NothingMoves DEF BeyondTable, InUser, placed
  <1>11. CASE UNCHANGED vars
    BY <1>11 DEF vars, TypeOK, OneZombie, FreeIdHasNoWaiters, Accounted,
                NoThreadTwice, NoThreadLost, Sleepers, Zombies
  <1> QED
    BY <1>1, <1>2, <1>3, <1>4, <1>5, <1>6, <1>7, <1>8, <1>9, <1>10, <1>11
    DEF Next, Continue, InterruptHandler, Call, Ended

(* The inductive invariant holds, whatever the program calls. *)
THEOREM Invariance == Spec => []IInv
  BY InitIInv, NextIInv, PTL DEF Spec

(* Type correctness, for any number of threads and wait queues. *)
THEOREM TypeCorrectness == Spec => []TypeOK
  BY Invariance, PTL DEF IInv

(* No thread is lost between the queues or in two of them, for any number   *)
(* of threads and wait queues and whatever the program calls.               *)
THEOREM ThreadsAccounted == Spec => []Accounted
  BY Invariance, PTL DEF IInv

-----------------------------------------------------------------------------
(* What a step may never do. *)

LEMMA YieldKeepsOthers ==
  ASSUME TypeOK, NEW want, ThreadYield(want)
  PROVE  /\ KillIsFinal
         /\ \A w \in exists' \cap Tid : wq'[w] = wq[w]
  <1>1. \A t \in Tid \ {current} : ctx'[t] = ctx[t]
    BY DEF ThreadYield, YieldAlone, YieldAny, YieldSelf, YieldTo, YieldAbsent,
           SwitchTo, TypeOK
  <1>2. KillIsFinal
    BY <1>1 DEF ThreadYield, InUser, KillIsFinal, TypeOK
  <1>3. \A w \in exists' \cap Tid : wq'[w] = wq[w]
    BY WithoutFacts, IdsAreQueues DEF ThreadYield, KillExitThreads
  <1> QED BY <1>2, <1>3

(* One step lets no killed thread loose and no waiter go early. *)
LEMMA StepRespects ==
  ASSUME IInv, [Next]_vars
  PROVE  KillIsFinal /\ WaiterLeavesAtExit
  <1> USE DEF IInv
  <1>0. /\ Tid \subseteq WaitQueues /\ exists \subseteq Tid /\ current \in Tid
        /\ ctx \in [Tid -> Ctx] /\ wq \in [WaitQueues -> Seq(Tid)]
    BY IdsAreQueues DEF TypeOK
  <1>a. SUFFICES KillIsFinal /\ (wq' = wq \/ WaiterLeavesAtExit)
    BY DEF WaiterLeavesAtExit
  <1>1. CASE ThreadStub \/ ResumeYield \/ ResumeSleep
    BY <1>0, <1>1 DEF ThreadStub, ResumeYield, ResumeSleep, KillIsFinal, Yielded
  <1>2. CASE ResumeWait
    <2>1. KillIsFinal
      BY <1>0, <1>2 DEF ResumeWait, KillIsFinal
    <2>2. \A w \in exists' \cap Tid : wq'[w] = wq[w]
      BY <1>0, <1>2, WithoutFacts DEF ResumeWait, KillExitThreads
    <2> QED BY <2>1, <2>2 DEF WaiterLeavesAtExit
  <1>3. CASE ThreadExit
    <2>1. KillIsFinal
      BY <1>0, <1>3 DEF ThreadExit, ExitProcess, ExitToNext, KillIsFinal
    <2>2. \A w \in Tid : w \notin Zombies /\ w # current => wq'[w] = wq[w]
      BY <1>0, <1>3, WithoutFacts DEF ThreadExit
    <2>3. \A w \in Zombies : w \notin exists'
      BY <1>3 DEF ThreadExit, ExitProcess, ExitToNext
    <2>4. \/ current \notin exists'
          \/ current \in Range(killq') \ Range(killq)
      <3>1. CASE ExitProcess
        BY <3>1 DEF ExitProcess
      <3>2. CASE ExitToNext
        <4>1. current \in Range(killq')
          BY <3>2 DEF ExitToNext, Range
        <4>2. current \notin Range(killq)
          BY <1>3 DEF ThreadExit, Accounted, NoThreadTwice, Zombies
        <4> QED BY <4>1, <4>2
      <3> QED BY <1>3, <3>1, <3>2 DEF ThreadExit
    <2> QED BY <2>1, <2>2, <2>3, <2>4 DEF WaiterLeavesAtExit
  <1>4. ASSUME NEW want, ThreadYield(want)
        PROVE  KillIsFinal /\ WaiterLeavesAtExit
    BY <1>4, YieldKeepsOthers DEF WaiterLeavesAtExit
  <1>5. CASE ThreadCreate
    <2>1. PICK id \in Tid \ exists : /\ ctx' = [ctx EXCEPT ![id] = "stub"]
                                    /\ wq' = [wq EXCEPT ![id] = <<>>]
      BY <1>5 DEF ThreadCreate, NewId
    <2>2. wq' = wq
      BY <1>0, <2>1 DEF FreeIdHasNoWaiters
    <2>3. KillIsFinal
      BY <1>0, <2>1 DEF KillIsFinal
    <2> QED BY <2>2, <2>3
  <1>6. ASSUME NEW q \in WaitQueues, NEW saved, GoToSleep(q, saved), InUser
        PROVE  KillIsFinal /\ WaiterLeavesAtExit
    <2>1. KillIsFinal
      BY <1>0, <1>6 DEF GoToSleep, InUser, KillIsFinal
    <2>2. wq' = [wq EXCEPT ![q] = Append(wq[q], current)]
      BY <1>6 DEF GoToSleep
    <2>3. Range(Append(wq[q], current)) = Range(wq[q]) \cup {current}
      BY <1>0, AppendQueue
    <2>4. \A w \in Tid : Range(wq[w]) \subseteq Range(wq'[w])
      BY <1>0, <2>2, <2>3
    <2> QED BY <2>1, <2>4 DEF WaiterLeavesAtExit
  <1>7. ASSUME NEW q \in Queues, NEW all \in BOOLEAN, ThreadWakeup(q, all)
        PROVE  KillIsFinal /\ WaiterLeavesAtExit
    <2>1. KillIsFinal
      BY <1>7 DEF ThreadWakeup, KillIsFinal
    <2>2. \A w \in Tid : w # q
      BY QueuesAssumption
    <2>3. \A w \in Tid : wq'[w] = wq[w]
      BY <1>0, <1>7, <2>2 DEF ThreadWakeup, WakeAll, WakeOne
    <2> QED BY <2>1, <2>3 DEF WaiterLeavesAtExit
  <1>8. ASSUME NEW tid \in Tid, ThreadWait(tid)
        PROVE  KillIsFinal /\ WaiterLeavesAtExit
    <2>1. CASE GoToSleep(tid, "wait")
      BY <1>0, <1>6, <1>8, <2>1 DEF ThreadWait
    <2>2. CASE ~ GoToSleep(tid, "wait")
      <3>1. KillExitThreads /\ ctx' = ctx
        BY <1>8, <2>2 DEF ThreadWait
      <3>2. \A w \in exists' \cap Tid : wq'[w] = wq[w]
        BY <1>0, <3>1, WithoutFacts DEF KillExitThreads
      <3> QED BY <3>1, <3>2 DEF KillIsFinal, WaiterLeavesAtExit
    <2> QED BY <2>1, <2>2
  <1>9. ASSUME NEW tid \in Tid, ThreadKill(tid) PROVE KillIsFinal /\ wq' = wq
    BY <1>0, <1>9 DEF ThreadKill, KillIsFinal
  <1>10. CASE BeyondTable \/ UNCHANGED vars
    BY <1>10 DEF BeyondTable, vars, KillIsFinal
  <1> QED
    BY <1>0, <1>1, <1>2, <1>3, <1>4, <1>5, <1>6, <1>7, <1>8, <1>9, <1>10,
       IdsAreQueues
    DEF Next, Continue, InterruptHandler, Call, Ended, ThreadSleep

(* A killed thread does not run any further. *)
THEOREM KilledNeverRuns == Spec => KilledStaysKilled
  <1>1. IInv /\ [Next]_vars => [KillIsFinal]_vars
    BY StepRespects
  <1> QED BY <1>1, Invariance, PTL DEF Spec, KilledStaysKilled

(* A waiter leaves the queue of a thread only when that thread exits or is  *)
(* freed.                                                                   *)
THEOREM WaitersWaitForExit == Spec => WaitersLeaveAtExit
  <1>1. IInv /\ [Next]_vars => [WaiterLeavesAtExit]_vars
    BY StepRespects
  <1> QED BY <1>1, Invariance, PTL DEF Spec, WaitersLeaveAtExit

-----------------------------------------------------------------------------
(* The order in the queues.                                                 *)

(* From s to t no member overtakes another and newcomers come last: what    *)
(* ReadyIsFifo says of ready and ready'.                                    *)
OrderKept(s, t) ==
  \A a \in Range(s) \cap Range(t), b \in Range(t) :
     Before(s, a, b) \/ b \notin Range(s) => Before(t, a, b)

LEMMA SameOrder ==
  ASSUME NEW s
  PROVE  OrderKept(s, s)
  BY DEF OrderKept

(* Two changes after each other; the second brings nobody back. *)
LEMMA OrderComposed ==
  ASSUME NEW s, NEW t, NEW u, OrderKept(s, t), OrderKept(t, u),
         Range(s) \cap Range(u) \subseteq Range(t)
  PROVE  OrderKept(s, u)
  <1> SUFFICES ASSUME NEW a \in Range(s) \cap Range(u), NEW b \in Range(u),
                      Before(s, a, b) \/ b \notin Range(s)
               PROVE  Before(u, a, b)
    BY DEF OrderKept
  <1>1. a \in Range(t)
    OBVIOUS
  <1>2. CASE b \in Range(t)
    <2>1. Before(t, a, b)
      BY <1>1, <1>2 DEF OrderKept
    <2> QED BY <1>1, <2>1 DEF OrderKept
  <1>3. CASE b \notin Range(t)
    BY <1>1, <1>3 DEF OrderKept
  <1> QED BY <1>2, <1>3

(* Of two queues one after the other each keeps its order, and who is only  *)
(* in the second comes after those of the first.                            *)
LEMMA ConcatOrder ==
  ASSUME NEW S, NEW s \in Seq(S), NEW t \in Seq(S)
  PROVE  /\ OrderKept(s, s \o t)
         /\ \A a, b : Before(s, a, b) \/ Before(t, a, b) => Before(s \o t, a, b)
  <1> DEFINE m == Len(s)
             n == Len(t)
             u == s \o t
  <1>1. /\ m \in Nat /\ DOMAIN s = 1 .. m
        /\ n \in Nat /\ DOMAIN t = 1 .. n
        /\ DOMAIN u = 1 .. m + n
        /\ \A i \in 1 .. m + n : u[i] = IF i <= m THEN s[i] ELSE t[i - m]
    BY LenProperties, ConcatProperties
  <1> HIDE DEF m, n, u
  <1>2. /\ \A i \in 1 .. m : i \in DOMAIN u /\ u[i] = s[i]
        /\ \A i \in 1 .. n : i + m \in DOMAIN u /\ u[i + m] = t[i]
    BY <1>1
  <1>3. ASSUME NEW a, NEW b, Before(s, a, b) PROVE Before(u, a, b)
    <2>1. PICK i \in 1 .. m, j \in 1 .. m : i < j /\ s[i] = a /\ s[j] = b
      BY <1>1, <1>3 DEF Before
    <2> QED BY <1>2, <2>1 DEF Before
  <1>4. ASSUME NEW a, NEW b, Before(t, a, b) PROVE Before(u, a, b)
    <2>1. PICK i \in 1 .. n, j \in 1 .. n : i < j /\ t[i] = a /\ t[j] = b
      BY <1>1, <1>4 DEF Before
    <2>2. i + m < j + m
      BY <1>1, <2>1
    <2> QED BY <1>2, <2>1, <2>2 DEF Before
  <1>5. ASSUME NEW a \in Range(s), NEW b \in Range(u), b \notin Range(s)
        PROVE  Before(u, a, b)
    <2>1. PICK i \in 1 .. m : s[i] = a
      BY <1>1 DEF Range
    <2>2. PICK j \in 1 .. m + n : u[j] = b
      BY <1>1 DEF Range
    <2>3. j > m
      BY <1>1, <1>5, <2>2 DEF Range
    <2>4. i < j
      BY <1>1, <2>1, <2>2, <2>3
    <2> QED BY <1>1, <1>2, <2>1, <2>2, <2>4 DEF Before
  <1>6. OrderKept(s, u)
    BY <1>3, <1>5 DEF OrderKept
  <1> QED BY <1>3, <1>4, <1>6 DEF u

LEMMA AppendOrder ==
  ASSUME NEW S, NEW s \in Seq(S), NEW e \in S
  PROVE  OrderKept(s, Append(s, e))
  <1>1. <<e>> \in Seq(S) /\ Append(s, e) = s \o <<e>>
    BY AppendIsConcat
  <1> QED BY <1>1, ConcatOrder

(* Who leaves a queue leaves the others in their order. *)
LEMMA TailOrder ==
  ASSUME NEW S, NEW s \in Seq(S), s # <<>>, IsInjective(s)
  PROVE  OrderKept(s, Tail(s))
  <1> DEFINE n == Len(s)
             t == Tail(s)
  <1>1. /\ n \in Nat \ {0} /\ DOMAIN s = 1 .. n /\ Head(s) = s[1]
        /\ DOMAIN t = 1 .. n - 1
        /\ \A i \in 1 .. n - 1 : t[i] = s[i + 1]
    BY LenProperties, EmptySeq, HeadTailProperties
  <1>2. Range(t) = Range(s) \ {s[1]}
    BY <1>1, TailQueue
  <1> HIDE DEF n, t
  <1>3. ASSUME NEW a \in Range(t), NEW b, Before(s, a, b) PROVE Before(t, a, b)
    <2>1. PICK i \in 1 .. n, j \in 1 .. n : i < j /\ s[i] = a /\ s[j] = b
      BY <1>1, <1>3 DEF Before
    <2>2. i # 1
      BY <1>2, <2>1
    <2>3. /\ i - 1 \in 1 .. n - 1 /\ j - 1 \in 1 .. n - 1 /\ i - 1 < j - 1
          /\ t[i - 1] = s[i] /\ t[j - 1] = s[j]
      BY <1>1, <2>1, <2>2
    <2> QED BY <1>1, <2>1, <2>3 DEF Before
  <1> QED BY <1>2, <1>3 DEF OrderKept, t

LEMMA RemoveOrder ==
  ASSUME NEW S, NEW s \in Seq(S), NEW i \in DOMAIN s, IsInjective(s)
  PROVE  OrderKept(s, RemoveAt(s, i))
  <1> DEFINE n == Len(s)
             t == RemoveAt(s, i)
  <1>1. /\ n \in Nat /\ DOMAIN s = 1 .. n
        /\ DOMAIN t = 1 .. n - 1
        /\ \A k \in 1 .. n - 1 : t[k] = IF k < i THEN s[k] ELSE s[k + 1]
    BY LenProperties, RemoveMembers
  <1>2. Range(t) = Range(s) \ {s[i]}
    BY RemoveQueue
  <1> HIDE DEF n, t
  <1>3. ASSUME NEW a \in Range(t), NEW b \in Range(t), Before(s, a, b)
        PROVE  Before(t, a, b)
    <2>1. PICK k \in 1 .. n, l \in 1 .. n : k < l /\ s[k] = a /\ s[l] = b
      BY <1>1, <1>3 DEF Before
    <2>2. k # i /\ l # i
      BY <1>2, <2>1
    <2> DEFINE At(x) == IF x < i THEN x ELSE x - 1
    <2>3. \A x \in 1 .. n : x # i => At(x) \in 1 .. n - 1 /\ t[At(x)] = s[x]
      BY <1>1
    <2>4. At(k) < At(l)
      BY <1>1, <2>1, <2>2
    <2>5. /\ At(k) \in DOMAIN t /\ At(l) \in DOMAIN t
          /\ t[At(k)] = a /\ t[At(l)] = b
      BY <1>1, <2>1, <2>2, <2>3
    <2> QED BY <2>4, <2>5 DEF Before
  <1> QED BY <1>2, <1>3 DEF OrderKept, t

(* thread_exit lines up who it wakes behind those that were ready. *)
LEMMA ExitOrder ==
  ASSUME TypeOK, OneZombie, NoThreadTwice
  PROVE  /\ OrderKept(ready, ReadyAtExit)
         /\ \A q \in Zombies \cup {current} : \A a, b :
              Before(wq[q], a, b) => Before(ReadyAtExit, a, b)
  <1> DEFINE own == ready \o wq[current]
             reaped == FlattenSeq([i \in DOMAIN killq |-> wq[killq[i]]])
  <1>1. /\ ready \in Seq(Tid) /\ current \in Tid
        /\ \A q \in WaitQueues : wq[q] \in Seq(Tid)
        /\ Tid \subseteq WaitQueues
    BY IdsAreQueues DEF TypeOK
  <1>2. /\ own \in Seq(Tid) /\ OrderKept(ready, own)
        /\ \A a, b : Before(wq[current], a, b) => Before(own, a, b)
        /\ Range(ready) \subseteq Range(own)
    BY <1>1, ConcatOrder, ConcatQueue
  <1> HIDE DEF own
  <1>3. ReadyAtExit = own \o reaped
    BY DEF ReadyAtExit, own
  <1>4. CASE killq = <<>> /\ Zombies = {}
    <2>1. [i \in DOMAIN killq |-> wq[killq[i]]] = <<>>
      BY <1>4
    <2>2. reaped = <<>>
      BY <2>1, FlattenEmpty
    <2>3. ReadyAtExit = own
      BY <1>2, <1>3, <2>2, ConcatEmptySeq
    <2> QED BY <1>2, <1>4, <2>3
  <1>5. ASSUME NEW z \in Tid, killq = <<z>>, Zombies = {z}
        PROVE  /\ OrderKept(ready, ReadyAtExit)
               /\ \A q \in Zombies \cup {current} : \A a, b :
                    Before(wq[q], a, b) => Before(ReadyAtExit, a, b)
    <2>1. [i \in DOMAIN killq |-> wq[killq[i]]] = <<wq[z]>>
      BY <1>5
    <2>2. reaped = wq[z] /\ wq[z] \in Seq(Tid)
      BY <1>1, <2>1, FlattenOne
    <2> HIDE DEF reaped
    <2>3. /\ OrderKept(own, ReadyAtExit)
          /\ \A a, b : Before(own, a, b) \/ Before(wq[z], a, b)
                         => Before(ReadyAtExit, a, b)
      BY <1>2, <1>3, <2>2, ConcatOrder
    <2>4. OrderKept(ready, ReadyAtExit)
      BY <1>2, <2>3, OrderComposed
    <2> QED BY <1>2, <1>5, <2>3, <2>4
  <1> QED BY <1>4, <1>5, ZombieFacts

(* Whoever thread_yield dispatches, the others keep their order and the     *)
(* caller goes behind them.                                                 *)
LEMMA YieldOrder ==
  ASSUME TypeOK, Accounted, NEW want, ThreadYield(want)
  PROVE  OrderKept(ready, ready')
  <1>1. /\ ready \in Seq(Tid) /\ current \in Tid
        /\ IsInjective(ready) /\ current \notin Range(ready)
    BY DEF ThreadYield, InUser, Accounted, NoThreadTwice, TypeOK
  <1>2. ASSUME NEW next, NEW rest \in Seq(Tid), NEW saved,
               SwitchTo(next, rest, saved), OrderKept(ready, rest),
               Range(rest) = Range(ready) \ {next}, next \in Range(ready)
        PROVE  OrderKept(ready, ready')
    <2>1. ready' = Append(rest, current)
      BY <1>2 DEF SwitchTo
    <2>2. Range(ready') = Range(rest) \cup {current} /\ OrderKept(rest, ready')
      BY <1>1, <2>1, AppendQueue, AppendOrder
    <2>3. Range(ready) \cap Range(ready') \subseteq Range(rest)
      BY <1>1, <2>2
    <2> QED BY <1>2, <2>2, <2>3, OrderComposed
  <1>3. CASE YieldAlone(want) \/ YieldSelf(want) \/ YieldAbsent(want)
    BY <1>3, SameOrder DEF YieldAlone, YieldSelf, YieldAbsent
  <1>4. CASE YieldAny(want)
    <2>1. /\ Head(ready) \in Range(ready) /\ Tail(ready) \in Seq(Tid)
          /\ Range(Tail(ready)) = Range(ready) \ {Head(ready)}
          /\ OrderKept(ready, Tail(ready))
      BY <1>1, <1>4, TailQueue, TailOrder DEF YieldAny
    <2> QED BY <1>2, <1>4, <2>1 DEF YieldAny
  <1>5. CASE YieldTo(want)
    <2>1. PICK i \in DOMAIN ready :
            ready[i] = want /\ SwitchTo(want, RemoveAt(ready, i), "tid")
      BY <1>5 DEF YieldTo
    <2>2. /\ want \in Range(ready) /\ RemoveAt(ready, i) \in Seq(Tid)
          /\ Range(RemoveAt(ready, i)) = Range(ready) \ {want}
          /\ OrderKept(ready, RemoveAt(ready, i))
      BY <1>1, <2>1, RemoveQueue, RemoveOrder
    <2> QED BY <1>2, <2>1, <2>2
  <1> QED BY <1>3, <1>4, <1>5 DEF ThreadYield

(* Where the sleepers of a reaped thread are stranded, none becomes ready.  *)
LEMMA ReapOrder ==
  ASSUME TypeOK, KillExitThreads, status' = "up" => NoThreadTwice'
  PROVE  WokenInOrder
  <1> SUFFICES ASSUME status' = "up", NEW q \in WaitQueues,
                      NEW a \in Range(wq[q]), NEW b \in Range(wq[q]),
                      b \notin Range(wq'[q])
               PROVE  a \notin Range(wq'[q]) /\ a \notin Range(ready')
    BY DEF WokenInOrder
  <1>1. q \in Zombies /\ wq'[q] = <<>>
    BY WithoutFacts DEF KillExitThreads
  <1>2. a \in stranded'
    BY <1>1 DEF KillExitThreads
  <1> QED BY <1>1, <1>2, EmptyQueue DEF NoThreadTwice

(* Steps in which no one leaves a wait queue. *)
LEMMA NobodyWoken ==
  ASSUME \A q \in WaitQueues : Range(wq[q]) \subseteq Range(wq'[q])
  PROVE  WokenInOrder
  BY DEF WokenInOrder

LEMMA WakeupOrder ==
  ASSUME TypeOK, Accounted, NEW q \in Queues, NEW all \in BOOLEAN,
         ThreadWakeup(q, all)
  PROVE  OrderKept(ready, ready') /\ WokenInOrder
  <1>1. /\ q \in WaitQueues /\ wq[q] \in Seq(Tid) /\ wq[q] # <<>>
        /\ IsInjective(wq[q]) /\ ready \in Seq(Tid)
        /\ wq \in [WaitQueues -> Seq(Tid)]
    BY IdsAreQueues DEF ThreadWakeup, InUser, Accounted, NoThreadTwice, TypeOK
  <1>2. CASE WakeAll(q)
    <2>1. /\ OrderKept(ready, ready')
          /\ \A a, b : Before(wq[q], a, b) => Before(ready', a, b)
      BY <1>1, <1>2, ConcatOrder DEF WakeAll
    <2>2. /\ wq'[q] = <<>>
          /\ \A r \in WaitQueues : r # q => wq'[r] = wq[r]
      BY <1>1, <1>2 DEF WakeAll
    <2> QED BY <2>1, <2>2, EmptyQueue DEF WokenInOrder
  <1>3. CASE WakeOne(q)
    <2>1. /\ Head(wq[q]) \in Tid
          /\ Range(Tail(wq[q])) = Range(wq[q]) \ {Head(wq[q])}
          /\ Head(wq[q]) = wq[q][1] /\ 1 \in DOMAIN wq[q]
          /\ DOMAIN wq[q] = 1 .. Len(wq[q]) /\ Len(wq[q]) \in Nat
      BY <1>1, TailQueue, HeadTailProperties, LenProperties, EmptySeq
    <2>2. OrderKept(ready, ready')
      BY <1>1, <1>3, <2>1, AppendOrder DEF WakeOne
    <2>3. /\ wq'[q] = Tail(wq[q])
          /\ \A r \in WaitQueues : r # q => wq'[r] = wq[r]
      BY <1>1, <1>3 DEF WakeOne
    <2>4. ASSUME NEW a, NEW b, Before(wq[q], a, b) PROVE b # Head(wq[q])
      <3>1. PICK i \in DOMAIN wq[q], j \in DOMAIN wq[q] : i < j /\ wq[q][j] = b
        BY <2>4 DEF Before
      <3>2. j # 1
        BY <2>1, <3>1
      <3> QED BY <1>1, <2>1, <3>1, <3>2 DEF IsInjective
    <2> QED BY <2>1, <2>2, <2>3, <2>4 DEF WokenInOrder
  <1> QED BY <1>2, <1>3 DEF ThreadWakeup

(* One step keeps the order of the ready queue and of the wait queues. *)
LEMMA StepKeepsOrder ==
  ASSUME IInv, [Next]_vars
  PROVE  NoOvertaking /\ WokenInOrder
  <1> USE DEF IInv
  <1>0. /\ Tid \subseteq WaitQueues /\ current \in Tid /\ ready \in Seq(Tid)
        /\ wq \in [WaitQueues -> Seq(Tid)]
    BY IdsAreQueues DEF TypeOK
  <1>00. status' = "up" => NoThreadTwice'
    BY NextIInv DEF Accounted
  <1>a. SUFFICES OrderKept(ready, ready') /\ WokenInOrder
    BY DEF OrderKept, NoOvertaking
  <1>1. ASSUME UNCHANGED <<ready, wq>>
        PROVE  OrderKept(ready, ready') /\ WokenInOrder
    BY <1>1, SameOrder, NobodyWoken
  <1>2. CASE ThreadStub \/ ResumeYield \/ ResumeSleep \/ BeyondTable \/ UNCHANGED vars
    BY <1>1, <1>2 DEF ThreadStub, ResumeYield, ResumeSleep, BeyondTable, vars
  <1>3. ASSUME NEW tid \in Tid, ThreadKill(tid)
        PROVE  OrderKept(ready, ready') /\ WokenInOrder
    BY <1>1, <1>3 DEF ThreadKill
  <1>4. ASSUME KillExitThreads, ready' = ready
        PROVE  OrderKept(ready, ready') /\ WokenInOrder
    BY <1>00, <1>4, SameOrder, ReapOrder
  <1>5. CASE ResumeWait
    BY <1>4, <1>5 DEF ResumeWait
  <1>6. ASSUME NEW want, ThreadYield(want)
        PROVE  OrderKept(ready, ready') /\ WokenInOrder
    BY <1>00, <1>6, YieldOrder, ReapOrder DEF ThreadYield
  <1>7. CASE ThreadCreate
    <2>1. PICK id \in Tid \ exists : /\ ready' = Append(ready, id)
                                    /\ wq' = [wq EXCEPT ![id] = <<>>]
      BY <1>7 DEF ThreadCreate, NewId
    <2>2. wq' = wq
      BY <1>0, <2>1 DEF FreeIdHasNoWaiters
    <2> QED BY <1>0, <2>1, <2>2, AppendOrder, NobodyWoken
  <1>8. ASSUME NEW q \in WaitQueues, NEW saved, GoToSleep(q, saved), status = "up"
        PROVE  OrderKept(ready, ready') /\ WokenInOrder
    <2>1. OrderKept(ready, ready')
      BY <1>0, <1>8, TailOrder DEF GoToSleep, Accounted, NoThreadTwice
    <2>2. Range(Append(wq[q], current)) = Range(wq[q]) \cup {current}
      BY <1>0, AppendQueue
    <2>3. \A r \in WaitQueues : Range(wq[r]) \subseteq Range(wq'[r])
      BY <1>0, <1>8, <2>2 DEF GoToSleep
    <2> QED BY <2>1, <2>3, NobodyWoken
  <1>9. ASSUME NEW q \in Queues, NEW all \in BOOLEAN, ThreadWakeup(q, all)
        PROVE  OrderKept(ready, ready') /\ WokenInOrder
    BY <1>9, WakeupOrder
  <1>10. ASSUME NEW tid \in Tid, ThreadWait(tid)
         PROVE  OrderKept(ready, ready') /\ WokenInOrder
    BY <1>0, <1>4, <1>8, <1>10 DEF ThreadWait, InUser
  <1>11. CASE ThreadExit
    <2>1. NoThreadTwice
      BY <1>11 DEF ThreadExit, Accounted
    <2>2. CASE ExitProcess
      <3>1. ready' = ready /\ status' # "up"
        BY <2>2 DEF ExitProcess
      <3> QED BY <3>1, SameOrder DEF WokenInOrder
    <2>3. CASE ExitToNext
      <3>1. /\ ReadyAtExit \in Seq(Tid) /\ IsInjective(ReadyAtExit)
            /\ Range(ready) \subseteq Range(ReadyAtExit)
            /\ ReadyAtExit # <<>> /\ ready' = Tail(ReadyAtExit)
        BY <2>1, <2>3, ReadyAtExitFacts DEF ExitToNext
      <3>2. /\ OrderKept(ReadyAtExit, ready')
            /\ Range(ready') \subseteq Range(ReadyAtExit)
        BY <3>1, TailOrder, TailQueue
      <3>3. OrderKept(ready, ready')
        BY <2>1, <3>1, <3>2, ExitOrder, OrderComposed
      <3>4. WokenInOrder
        <4> SUFFICES ASSUME NEW q \in WaitQueues,
                            NEW a \in Range(wq[q]), NEW b \in Range(wq[q]),
                            Before(wq[q], a, b), b \notin Range(wq'[q])
                     PROVE  /\ a \notin Range(wq'[q])
                            /\ a \in Range(ready') /\ b \in Range(ready')
                                 => Before(ready', a, b)
          BY DEF WokenInOrder
        <4>1. q \in Zombies \cup {current} /\ wq'[q] = <<>>
          BY <1>11, WithoutFacts DEF ThreadExit
        <4>2. Before(ReadyAtExit, a, b)
          BY <2>1, <4>1, ExitOrder
        <4> QED BY <3>2, <4>1, <4>2, EmptyQueue DEF OrderKept
      <3> QED BY <3>3, <3>4
    <2> QED BY <1>11, <2>2, <2>3 DEF ThreadExit
  <1> QED
    BY <1>0, <1>2, <1>3, <1>5, <1>6, <1>7, <1>8, <1>9, <1>10, <1>11,
       IdsAreQueues
    DEF Next, Continue, InterruptHandler, Call, Ended, ThreadSleep, InUser

(* The ready queue is first in, first out, for any number of threads and    *)
(* whatever the program calls: no yield, wake-up, creation or exit lets a   *)
(* thread overtake another one that is ready.                               *)
THEOREM ReadyQueueIsFifo == Spec => ReadyIsFifo
  <1>1. IInv /\ [Next]_vars => [NoOvertaking]_vars
    BY StepKeepsOrder
  <1> QED BY <1>1, Invariance, PTL DEF Spec, ReadyIsFifo

(* Sleepers are woken in the order in which they went to sleep. *)
THEOREM SleepersWakeInOrder == Spec => WakeupsKeepOrder
  <1>1. IInv /\ [Next]_vars => [WokenInOrder]_vars
    BY StepKeepsOrder
  <1> QED BY <1>1, Invariance, PTL DEF Spec, WakeupsKeepOrder

-----------------------------------------------------------------------------
(* A disciplined program. *)

DisciplinedInv == IInv /\ FlagTellsResumption /\ NeverGoesWrong

(* A step of a disciplined program is a step of a program. *)
LEMMA DisciplineIsNext ==
  ASSUME TypeOK, DisciplinedNext
  PROVE  Next
  <1>1. MayName \subseteq 0 .. MaxThreads
    BY RangeOfSeq, MaxThreadsAssumption DEF MayName, TypeOK, Tid
  <1>2. 0 .. MaxThreads \subseteq THREAD_SELF - 1 .. MaxThreads + 1
    BY MaxThreadsAssumption DEF THREAD_SELF
  <1> QED BY <1>1, <1>2 DEF DisciplinedNext, Next

(* The flag is only cleared by a yield to a thread that is not ready.       *)
LEMMA DisciplinedStep ==
  ASSUME DisciplinedInv, [DisciplinedNext]_vars
  PROVE  DisciplinedInv'
  <1> USE DEF DisciplinedInv, IInv
  <1>0. /\ exists \subseteq Tid /\ current \in Tid /\ ctx \in [Tid -> Ctx]
        /\ setcontext_called \in {0, 1}
        /\ status = "up" => current \in exists
        /\ \A t \in exists : ctx[t] \in Yielded => setcontext_called = 1
    BY DEF TypeOK, Accounted, NoThreadLost, FlagTellsResumption
  <1>1. IInv'
    <2>1. [Next]_vars
      BY DisciplineIsNext
    <2> QED BY <2>1, NextIInv
  <1> SUFFICES FlagTellsResumption' /\ NeverGoesWrong'
    BY <1>1
  <1>2. ASSUME exists' \subseteq exists,
               \A t \in exists' : ctx'[t] \in Yielded => ctx[t] \in Yielded,
               setcontext_called' = setcontext_called, status' = status
        PROVE  FlagTellsResumption' /\ NeverGoesWrong'
    BY <1>0, <1>2 DEF FlagTellsResumption, NeverGoesWrong
  <1>3. "up" \in {"up", "exited"} /\ "exited" \in {"up", "exited"}
        /\ \A c \in {"run", "stub", "sleep", "wait", "exit"} : c \notin Yielded
    BY DEF Yielded
  <1>4. CASE ThreadStub \/ ResumeSleep \/ ResumeWait
    BY <1>0, <1>2, <1>3, <1>4
    DEF ThreadStub, ResumeSleep, ResumeWait, KillExitThreads
  <1>5. CASE ResumeYield
    BY <1>0, <1>2, <1>3, <1>5 DEF ResumeYield
  <1>6. CASE ThreadExit
    <2>1. /\ exists' \subseteq exists /\ setcontext_called' = setcontext_called
          /\ \A t \in Tid : ctx'[t] \in Yielded => ctx[t] \in Yielded
          /\ status' \in {"up", "exited"}
      BY <1>0, <1>3, <1>6 DEF ThreadExit, ExitProcess, ExitToNext
    <2> QED BY <1>0, <2>1 DEF FlagTellsResumption, NeverGoesWrong
  <1>7. ASSUME NEW want, ThreadYield(want),
               want \in MayName \cup {THREAD_ANY, THREAD_SELF}
        PROVE  FlagTellsResumption' /\ NeverGoesWrong'
    <2>1. ~ YieldAbsent(want)
      <3>1. THREAD_ANY \notin 0 .. MaxThreads /\ THREAD_SELF \notin 0 .. MaxThreads
        BY MaxThreadsAssumption DEF THREAD_ANY, THREAD_SELF
      <3> QED BY <1>7, <3>1 DEF YieldAbsent, MayName
    <2>2. CASE YieldAlone(want)
      BY <1>2, <1>7, <2>2 DEF ThreadYield, KillExitThreads, YieldAlone
    <2>3. CASE YieldAny(want) \/ YieldTo(want) \/ YieldSelf(want)
      <3>1. setcontext_called' = 1 /\ status' = status
        BY <2>3 DEF YieldAny, YieldTo, YieldSelf, SwitchTo
      <3> QED BY <3>1 DEF FlagTellsResumption, NeverGoesWrong
    <2> QED BY <1>7, <2>1, <2>2, <2>3 DEF ThreadYield
  <1>8. CASE ThreadCreate
    <2>1. PICK id \in Tid : /\ exists' = exists \cup {id}
                            /\ ctx' = [ctx EXCEPT ![id] = "stub"]
      BY <1>8 DEF ThreadCreate, NewId
    <2>2. setcontext_called' = setcontext_called /\ status' = status
      BY <1>8 DEF ThreadCreate
    <2>3. \A t \in exists' : ctx'[t] \in Yielded => t \in exists /\ ctx[t] \in Yielded
      BY <1>0, <1>3, <2>1
    <2> QED BY <1>0, <2>2, <2>3 DEF FlagTellsResumption, NeverGoesWrong
  <1>9. ASSUME NEW q, NEW saved \in {"sleep", "wait"}, GoToSleep(q, saved)
        PROVE  FlagTellsResumption' /\ NeverGoesWrong'
    BY <1>0, <1>2, <1>3, <1>9 DEF GoToSleep
  <1>10. ASSUME NEW q, NEW all, ThreadWakeup(q, all)
        PROVE  FlagTellsResumption' /\ NeverGoesWrong'
    BY <1>2, <1>10 DEF ThreadWakeup
  <1>11. ASSUME NEW tid \in Tid, ThreadWait(tid)
        PROVE  FlagTellsResumption' /\ NeverGoesWrong'
    BY <1>2, <1>9, <1>11 DEF ThreadWait, KillExitThreads
  <1>12. ASSUME NEW tid \in Tid, ThreadKill(tid)
        PROVE  FlagTellsResumption' /\ NeverGoesWrong'
    BY <1>0, <1>2, <1>3, <1>12 DEF ThreadKill
  <1>13. CASE UNCHANGED vars
    BY <1>13 DEF vars, FlagTellsResumption, NeverGoesWrong
  <1> QED
    BY <1>4, <1>5, <1>6, <1>7, <1>8, <1>9, <1>10, <1>11, <1>12, <1>13
    DEF DisciplinedNext, Continue, InterruptHandler, Call, Ended, ThreadSleep

(* Whatever the number of threads: as long as the program yields only to    *)
(* ready threads, every thread that yielded resumes through a set flag, and *)
(* the scheduler never dereferences NULL or loses its queues.               *)
THEOREM DisciplinedInvariance == DisciplinedSpec => []DisciplinedInv
  <1>1. Init => DisciplinedInv
    BY InitIInv DEF Init, DisciplinedInv, FlagTellsResumption, NeverGoesWrong,
                    Yielded, IInv, TypeOK
  <1> QED BY <1>1, DisciplinedStep, PTL DEF DisciplinedSpec

(* A disciplined program never sends the scheduler wrong. *)
THEOREM DisciplinedNeverGoesWrong == DisciplinedSpec => []NeverGoesWrong
  BY DisciplinedInvariance, PTL DEF DisciplinedInv

(* The global flag serves every resumption of a disciplined program. *)
THEOREM FlagServesResumption == DisciplinedSpec => []FlagTellsResumption
  BY DisciplinedInvariance, PTL DEF DisciplinedInv

=============================================================================
