-------------------------- MODULE RequestBufferProofs --------------------------
(***************************************************************************)
(* The request buffer is a bounded queue that serves each request once, for *)
(* any number of workers, any size of the ring and any number of clients.   *)
(***************************************************************************)
EXTENDS RequestBuffer, FiniteSetTheorems, SequenceTheorems, TLAPS

(* How many requests were taken from the ring, or never went through it. *)
Taken == Admitted - Occupancy

(* The requests in the ring are numbered without a gap, the newest being    *)
(* the last one that was handed over.                                        *)
Numbered ==
  /\ Taken \in Nat
  /\ \A i \in 1 .. Occupancy : Waiting[i] = Taken + i

(* What main has in its hands is the request it accepted last; it serves it  *)
(* itself exactly if there are no workers, and then the ring stays empty.    *)
MainHasLast ==
  /\ HandingOver => threads # {}
  /\ pc[Main] = "serve" => threads = {}
  /\ HandingOver \/ pc[Main] = "serve" => elem[Main] = accepted /\ accepted > 0
  /\ threads = {} => in = out

(* The requests that were taken are served, or being served by one thread.   *)
TakenOnce ==
  /\ served \subseteq 1 .. Taken
  /\ \A t \in Serving : elem[t] \in (1 .. Taken) \ served
  /\ \A t, u \in Serving : elem[t] = elem[u] => t = u
  /\ \A r \in 1 .. Taken : r \in served \/ \E t \in Serving : elem[t] = r

(* Workers that were not created, and only those unless the server exits,    *)
(* are not there.                                                            *)
WorkersStay ==
  /\ \A w \in Worker \ threads : pc[w] = "exited"
  /\ ~exiting => \A w \in threads : pc[w] # "exited"

(* The inductive invariant.  EachRequestOnce alone does not say where in the *)
(* ring a request is, so that it could come out of order or be overwritten.  *)
BufIInv ==
  BufTypeOK /\ WorkersStay /\ NoLostWakeup /\ MainHasLast /\ Numbered /\ TakenOnce

-----------------------------------------------------------------------------
(* Arithmetic of the ring. *)

(* One slot on. *)
LEMMA NextSlot ==
  ASSUME NEW n \in Nat \ {0}, NEW a \in 0 .. n - 1
  PROVE  (a + 1) % n = (IF a = n - 1 THEN 0 ELSE a + 1) /\ (a + 1) % n \in 0 .. n - 1
  OBVIOUS

(* The i-th slot from a on. *)
LEMMA SlotAt ==
  ASSUME NEW n \in Nat \ {0}, NEW a \in 0 .. n - 1, NEW i \in 1 .. n
  PROVE  /\ (a + i - 1) % n = IF a + i - 1 < n THEN a + i - 1 ELSE a + i - 1 - n
         /\ (a + i - 1) % n \in 0 .. n - 1
  OBVIOUS

(* How far it is from a to b. *)
LEMMA Distance ==
  ASSUME NEW n \in Nat \ {0}, NEW a \in 0 .. n - 1, NEW b \in 0 .. n - 1
  PROVE  (b - a + n) % n = IF a <= b THEN b - a ELSE b - a + n
  OBVIOUS

(* One slot leaves the ring at a, d slots before b: the others move up.      *)
LEMMA AfterTaking ==
  ASSUME NEW n \in Nat \ {0}, NEW a \in 0 .. n - 1, NEW b \in 0 .. n - 1, a # b,
         NEW c, c = IF a = n - 1 THEN 0 ELSE a + 1,
         NEW d, d = (IF a <= b THEN b - a ELSE b - a + n),
         NEW e, e = (IF c <= b THEN b - c ELSE b - c + n)
  PROVE  d \in 1 .. n - 1 /\ e = d - 1
  OBVIOUS

LEMMA SlotAfterTaking ==
  ASSUME NEW n \in Nat \ {0}, NEW a \in 0 .. n - 1, NEW i \in 1 .. n - 1,
         NEW c, c = IF a = n - 1 THEN 0 ELSE a + 1
  PROVE  (c + i - 1) % n = (a + (i + 1) - 1) % n
  <1>1. /\ c \in 0 .. n - 1 /\ i \in 1 .. n
        /\ (a + (i + 1) - 1) % n = IF a + (i + 1) - 1 < n THEN a + (i + 1) - 1
                                                       ELSE a + (i + 1) - 1 - n
    BY SlotAt
  <1>2. (c + i - 1) % n = IF c + i - 1 < n THEN c + i - 1 ELSE c + i - 1 - n
    BY <1>1, SlotAt
  <1> QED BY <1>1, <1>2

(* One slot is filled at b, d slots behind a. *)
LEMMA AfterPutting ==
  ASSUME NEW n \in Nat \ {0}, NEW a \in 0 .. n - 1, NEW b \in 0 .. n - 1,
         NEW c, c = IF b = n - 1 THEN 0 ELSE b + 1,
         NEW d, d = (IF a <= b THEN b - a ELSE b - a + n), d # n - 1,
         NEW e, e = (IF a <= c THEN c - a ELSE c - a + n)
  PROVE  d \in 0 .. n - 2 /\ e = d + 1
  OBVIOUS

LEMMA SlotsBefore ==
  ASSUME NEW n \in Nat \ {0}, NEW a \in 0 .. n - 1, NEW b \in 0 .. n - 1,
         NEW d, d = (IF a <= b THEN b - a ELSE b - a + n), NEW i \in 1 .. d + 1
  PROVE  /\ (a + i - 1) % n \in 0 .. n - 1
         /\ (a + i - 1) % n = b <=> i = d + 1
  <1>1. i \in 1 .. n
    OBVIOUS
  <1>2. (a + i - 1) % n = IF a + i - 1 < n THEN a + i - 1 ELSE a + i - 1 - n
    BY <1>1, SlotAt
  <1> QED BY <1>1, <1>2

-----------------------------------------------------------------------------
(* Types. *)

LEMMA SizeFacts == Size \in Nat \ {0} /\ MaxRequests = Size - 1 /\ 0 \in Request
  BY BufferAssumption DEF Size, Request

(* Waking a thread, and moving another one out of the mutex. *)
LEMMA SignalType ==
  ASSUME BufTypeOK, NEW t \in Thread, NEW place, NEW waiters,
         waiters \in {OnEmpty, OnFull, {}},
         place \in IF t = Main THEN {"accept"} ELSE {"serve"},
         pc[t] = "test", mutex' = Free, MoveAndSignal(t, place, waiters)
  PROVE  /\ pc' \in [Thread -> MainPlace \cup WorkerPlace]
         /\ pc'[Main] \in MainPlace /\ \A w \in Worker : pc'[w] \in WorkerPlace
         /\ \A u \in Thread : pc'[u] \in {"test", "check"} <=> mutex' = u
  <1>1. Main \notin Worker /\ Free \notin Thread /\ t \in Worker \cup {Main}
    BY BufferAssumption DEF Thread
  <1>2. \A w \in waiters : w \in Thread /\ pc[w] = "wait"
    BY DEF OnEmpty, OnFull, Thread
  <1> QED
    BY <1>1, <1>2 DEF MoveAndSignal, BufTypeOK, MainPlace, WorkerPlace, Thread

(* One thread goes to another place, and the mutex with it. *)
LEMMA MoveType ==
  ASSUME BufTypeOK, NEW t \in Thread, NEW place,
         place \in IF t = Main THEN MainPlace ELSE WorkerPlace,
         pc' = [pc EXCEPT ![t] = place],
         \/ /\ mutex' = Free /\ pc[t] \in {"test", "check"}
            /\ place \notin {"test", "check"}
         \/ mutex = Free /\ mutex' = t /\ place \in {"test", "check"}
         \/ /\ mutex' = mutex
            /\ pc[t] \in {"test", "check"} <=> place \in {"test", "check"}
  PROVE  /\ pc' \in [Thread -> MainPlace \cup WorkerPlace]
         /\ pc'[Main] \in MainPlace /\ \A w \in Worker : pc'[w] \in WorkerPlace
         /\ \A u \in Thread : pc'[u] \in {"test", "check"} <=> mutex' = u
  <1>1. Main \in Thread /\ Main \notin Worker /\ Free \notin Thread
    BY BufferAssumption DEF Thread
  <1> QED BY <1>1 DEF BufTypeOK, Thread

LEMMA BufTypeStep ==
  ASSUME BufTypeOK, [BufNext]_bufVars
  PROVE  BufTypeOK'
  <1> DEFINE Rest == /\ threads' \subseteq Worker
                     /\ bufferq' \in [0 .. MaxRequests -> Request]
                     /\ in' \in 0 .. MaxRequests /\ out' \in 0 .. MaxRequests
                     /\ exiting' \in BOOLEAN
                     /\ elem' \in [Thread -> Request]
                     /\ accepted' \in Request
                     /\ served' \subseteq Request
             Places == /\ pc' \in [Thread -> MainPlace \cup WorkerPlace]
                       /\ pc'[Main] \in MainPlace
                       /\ \A w \in Worker : pc'[w] \in WorkerPlace
                       /\ \A u \in Thread : pc'[u] \in {"test", "check"} <=> mutex' = u
  <1> SUFFICES Rest /\ Places
    BY DEF BufTypeOK
  <1>0. /\ Main \in Thread /\ Main \notin Worker /\ Worker \subseteq Thread
        /\ \A t \in Thread : t = Main \/ t \in Worker
    BY BufferAssumption DEF Thread
  <1>1. ASSUME NEW t \in Thread, Lock(t) PROVE Rest /\ Places
    BY <1>0, <1>1, MoveType DEF Lock, BufTypeOK, MainPlace, WorkerPlace
  <1>2. ASSUME NEW w \in Worker, Top(w) \/ LeaveOnExit(w) \/ TestAgain(w)
        PROVE  Rest /\ Places
    BY <1>0, <1>2, MoveType DEF Top, LeaveOnExit, TestAgain, BufTypeOK, WorkerPlace
  <1>3. ASSUME NEW t \in Thread, pc[t] = "test", CondWait(t) PROVE Rest /\ Places
    BY <1>0, <1>3, MoveType DEF CondWait, BufTypeOK, MainPlace, WorkerPlace
  <1>4. ASSUME NEW w \in Worker, pc[w] = "test", Take(w) PROVE Rest /\ Places
    <2>1. (out + 1) % Size \in 0 .. MaxRequests
      BY NextSlot, SizeFacts DEF BufTypeOK
    <2>2. Rest
      BY <1>0, <1>4, <2>1 DEF Take, BufTypeOK
    <2> QED BY <1>0, <1>4, <2>2, SignalType DEF Take
  <1>5. ASSUME NEW t \in Thread, Serve(t) PROVE Rest /\ Places
    <2>1. Rest
      BY <1>5 DEF Serve, BufTypeOK
    <2>2. CASE t = Main
      BY <1>0, <1>5, <2>1, <2>2, MoveType DEF Serve, MainPlace
    <2>3. CASE t \in Worker
      BY <1>0, <1>5, <2>1, <2>3, MoveType DEF Serve, WorkerPlace
    <2> QED BY <1>0, <2>2, <2>3
  <1>6. CASE Accept
    <2>1. accepted' \in Request
      BY <1>6, BufferAssumption DEF Accept, BufTypeOK, Request
    <2>2. Rest
      BY <1>6, <2>1 DEF Accept, BufTypeOK
    <2> QED BY <1>0, <1>6, <2>2, MoveType DEF Accept, MainPlace
  <1>7. ASSUME pc[Main] = "test", Put PROVE Rest /\ Places
    <2>1. (in + 1) % Size \in 0 .. MaxRequests
      BY NextSlot, SizeFacts DEF BufTypeOK
    <2>2. Rest
      BY <1>0, <1>7, <2>1 DEF Put, BufTypeOK
    <2> QED BY <1>0, <1>7, <2>2, SignalType DEF Put
  <1>8. CASE ExitRequested \/ SetExiting \/ Join
    BY <1>0, <1>8, MoveType DEF ExitRequested, SetExiting, Join, BufTypeOK, MainPlace
  <1>9. CASE Broadcast
    BY <1>0, <1>9 DEF Broadcast, OnEmpty, BufTypeOK, MainPlace, WorkerPlace
  <1>10. ASSUME NEW t \in Thread, SpuriousWakeup(t) PROVE Rest /\ Places
    BY <1>0, <1>10, MoveType DEF SpuriousWakeup, BufTypeOK, MainPlace, WorkerPlace
  <1>11. CASE UNCHANGED bufVars
    BY <1>11 DEF bufVars, BufTypeOK
  <1> QED
    BY <1>0, <1>1, <1>2, <1>3, <1>4, <1>5, <1>6, <1>7, <1>8, <1>9, <1>10, <1>11
    DEF BufNext, WorkerStep, ServerStep, WorkerTest, MainTest

-----------------------------------------------------------------------------
(* The order of the ring. *)

(* The number of requests in the ring, and the slots they are in.           *)
RingView ==
  /\ Occupancy = IF out <= in THEN in - out ELSE in - out + Size
  /\ Occupancy \in 0 .. MaxRequests
  /\ IsEmpty <=> Occupancy = 0
  /\ Waiting \in Seq(Request) /\ Len(Waiting) = Occupancy
  /\ \A i \in 1 .. Occupancy : Waiting[i] = bufferq[(out + i - 1) % Size]

LEMMA RingFacts == BufTypeOK => RingView
  <1> SUFFICES ASSUME BufTypeOK PROVE RingView
    OBVIOUS
  <1>1. /\ in \in 0 .. Size - 1 /\ out \in 0 .. Size - 1 /\ Size \in Nat \ {0}
        /\ bufferq \in [0 .. Size - 1 -> Request]
    BY SizeFacts DEF BufTypeOK
  <1>2. Occupancy = IF out <= in THEN in - out ELSE in - out + Size
    BY <1>1, Distance DEF Occupancy
  <1>3. Occupancy \in 0 .. MaxRequests /\ (IsEmpty <=> Occupancy = 0)
    BY <1>1, <1>2, SizeFacts DEF IsEmpty
  <1>4. ASSUME NEW i \in 1 .. Size
        PROVE  /\ (out + i - 1) % Size = IF out + i - 1 < Size THEN out + i - 1
                                                           ELSE out + i - 1 - Size
               /\ (out + i - 1) % Size \in 0 .. Size - 1
    BY <1>1, SlotAt
  <1>5. \A i \in 1 .. Occupancy : bufferq[(out + i - 1) % Size] \in Request
    BY <1>1, <1>3, <1>4, SizeFacts
  <1>6. Waiting \in [1 .. Occupancy -> Request]
    BY <1>5 DEF Waiting
  <1>7. Waiting \in Seq(Request) /\ Len(Waiting) = Occupancy
    BY <1>3, <1>6, IsASeq, LenProperties
  <1> QED BY <1>2, <1>3, <1>4, <1>7 DEF RingView, Waiting

LEMMA RingFactsNext == BufTypeOK' => RingView'
  BY RingFacts, PTL

LEMMA RingStays ==
  ASSUME UNCHANGED <<bufferq, in, out>>
  PROVE  Occupancy' = Occupancy /\ Waiting' = Waiting
  BY DEF Occupancy, Waiting

(* out moves on: the oldest request leaves the ring. *)
LEMMA RingTake ==
  ASSUME BufTypeOK, BufTypeOK', ~IsEmpty,
         out' = (out + 1) % Size, UNCHANGED <<bufferq, in>>
  PROVE  /\ Waiting # <<>> /\ Head(Waiting) = bufferq[out]
         /\ Occupancy' = Occupancy - 1
         /\ Waiting' = Tail(Waiting)
  <1>1. /\ in \in 0 .. Size - 1 /\ out \in 0 .. Size - 1 /\ Size \in Nat \ {0}
        /\ MaxRequests = Size - 1
    BY SizeFacts DEF BufTypeOK
  <1>2. RingView /\ RingView'
    BY RingFacts, RingFactsNext
  <1>3. out' = IF out = Size - 1 THEN 0 ELSE out + 1
    BY <1>1, NextSlot
  <1>e. /\ Occupancy = IF out <= in THEN in - out ELSE in - out + Size
        /\ Occupancy' = IF out' <= in THEN in - out' ELSE in - out' + Size
    BY <1>2 DEF RingView, Size
  <1>4. Occupancy \in 1 .. Size - 1 /\ Occupancy' = Occupancy - 1
    <2>1. in # out
      BY DEF IsEmpty
    <2> QED BY <1>1, <1>3, <1>e, <2>1, AfterTaking
  <1>5. Waiting # <<>> /\ Head(Waiting) = bufferq[out]
    <2>1. (out + 1 - 1) % Size = out
      BY <1>1
    <2>3. Waiting[1] = bufferq[(out + 1 - 1) % Size]
      <3>1. 1 \in 1 .. Occupancy
        BY <1>4
      <3> QED BY <1>2, <3>1 DEF RingView
    <2>2. Waiting # <<>>
      BY <1>2, <1>4, EmptySeq DEF RingView
    <2> QED BY <1>2, <2>1, <2>2, <2>3, HeadTailProperties DEF RingView
  <1>6. /\ Tail(Waiting) \in Seq(Request) /\ Len(Tail(Waiting)) = Occupancy'
        /\ \A i \in 1 .. Occupancy' : Tail(Waiting)[i] = Waiting[i + 1]
    BY <1>2, <1>4, <1>5, HeadTailProperties DEF RingView
  <1>7. ASSUME NEW i \in 1 .. Occupancy'
        PROVE  Waiting'[i] = Tail(Waiting)[i]
    <2>1. i \in 1 .. Size /\ i + 1 \in 1 .. Size /\ i + 1 \in 1 .. Occupancy
      BY <1>1, <1>4
    <2>2. (out' + i - 1) % Size = (out + (i + 1) - 1) % Size
      <3>1. i \in 1 .. Size - 1
        BY <1>1, <1>4
      <3> QED BY <1>1, <1>3, <3>1, SlotAfterTaking
    <2>3. Waiting'[i] = bufferq[(out' + i - 1) % Size]
      BY <1>2 DEF RingView, Size
    <2>4. Waiting[i + 1] = bufferq[(out + (i + 1) - 1) % Size]
      BY <1>2, <2>1 DEF RingView
    <2> QED BY <1>6, <2>2, <2>3, <2>4
  <1>8. Waiting' = Tail(Waiting)
    BY <1>2, <1>6, <1>7, SeqEqual DEF RingView
  <1> QED BY <1>4, <1>5, <1>8

(* A request is put into the slot in, which is none of those in use. *)
LEMMA RingPut ==
  ASSUME BufTypeOK, BufTypeOK', ~IsFull, NEW r \in Request,
         bufferq' = [bufferq EXCEPT ![in] = r],
         in' = (in + 1) % Size, UNCHANGED out
  PROVE  /\ Len(Waiting) < MaxRequests
         /\ Occupancy' = Occupancy + 1
         /\ Waiting' = Append(Waiting, r)
  <1>1. /\ in \in 0 .. Size - 1 /\ out \in 0 .. Size - 1 /\ Size \in Nat \ {0}
        /\ MaxRequests = Size - 1 /\ bufferq \in [0 .. Size - 1 -> Request]
    BY SizeFacts DEF BufTypeOK
  <1>2. RingView /\ RingView'
    BY RingFacts, RingFactsNext
  <1>3. in' = IF in = Size - 1 THEN 0 ELSE in + 1
    BY <1>1, NextSlot
  <1>e. /\ Occupancy = IF out <= in THEN in - out ELSE in - out + Size
        /\ Occupancy' = IF out <= in' THEN in' - out ELSE in' - out + Size
    BY <1>2 DEF RingView, Size
  <1>4. Occupancy \in 0 .. Size - 2 /\ Occupancy' = Occupancy + 1
    <2>1. Occupancy # Size - 1
      BY <1>1 DEF IsFull
    <2> QED BY <1>1, <1>3, <1>e, <2>1, AfterPutting
  <1>5. /\ Append(Waiting, r) \in Seq(Request)
        /\ Len(Append(Waiting, r)) = Occupancy'
        /\ \A i \in 1 .. Occupancy : Append(Waiting, r)[i] = Waiting[i]
        /\ Append(Waiting, r)[Occupancy + 1] = r
    BY <1>2, <1>4, AppendProperties DEF RingView
  <1>6. ASSUME NEW i \in 1 .. Occupancy
        PROVE  Waiting'[i] = Append(Waiting, r)[i]
    <2>1. i \in 1 .. Occupancy' /\ i \in 1 .. Occupancy + 1 /\ i # Occupancy + 1
      BY <1>1, <1>4
    <2>2. (out + i - 1) % Size \in 0 .. Size - 1 /\ (out + i - 1) % Size # in
      BY <1>1, <1>e, <2>1, SlotsBefore
    <2>3. Waiting'[i] = bufferq'[(out + i - 1) % Size]
      BY <1>2, <2>1 DEF RingView, Size
    <2> QED BY <1>1, <1>2, <1>5, <2>2, <2>3 DEF RingView
  <1>7. Waiting'[Occupancy'] = r
    <2>1. Occupancy' \in 1 .. Occupancy' /\ Occupancy' \in 1 .. Occupancy + 1
      BY <1>1, <1>4
    <2>2. (out + Occupancy' - 1) % Size = in
      BY <1>1, <1>4, <1>e, <2>1, SlotsBefore
    <2>3. Waiting'[Occupancy'] = bufferq'[(out + Occupancy' - 1) % Size]
      BY <1>2, <2>1 DEF RingView, Size
    <2> QED BY <1>1, <2>2, <2>3
  <1>8. \A i \in 1 .. Occupancy' : Waiting'[i] = Append(Waiting, r)[i]
    BY <1>4, <1>5, <1>6, <1>7
  <1>9. Waiting' = Append(Waiting, r)
    BY <1>2, <1>5, <1>8, SeqEqual DEF RingView
  <1>10. Len(Waiting) < MaxRequests
    <2>1. Len(Waiting) = Occupancy
      BY <1>2 DEF RingView
    <2> QED BY <1>1, <1>4, <2>1
  <1> QED BY <1>4, <1>9, <1>10

-----------------------------------------------------------------------------
(* What a step does to the requests. *)

RingSame == Waiting' = Waiting /\ Occupancy' = Occupancy

KeepRequests(S) == \A t \in S : elem'[t] = elem[t]

Still ==
  /\ RingSame /\ Admitted' = Admitted
  /\ Serving' = Serving /\ KeepRequests(Serving) /\ served' = served

Arrived ==
  /\ Len(Waiting) < MaxRequests
  /\ Waiting' = Append(Waiting, Admitted + 1) /\ Occupancy' = Occupancy + 1
  /\ Admitted' = Admitted + 1
  /\ Serving' = Serving /\ KeepRequests(Serving) /\ served' = served

ArrivedAndTaken ==
  /\ Occupancy = 0 /\ Waiting = <<>> /\ Serving = {}
  /\ RingSame /\ Admitted' = Admitted + 1
  /\ Serving' = {Main} /\ elem'[Main] = Admitted + 1 /\ served' = served

TakenBy(t) ==
  /\ Waiting # <<>> /\ Occupancy \in Nat \ {0}
  /\ Waiting' = Tail(Waiting) /\ Occupancy' = Occupancy - 1
  /\ Admitted' = Admitted
  /\ t \notin Serving /\ Serving' = Serving \cup {t} /\ KeepRequests(Serving)
  /\ elem'[t] = Head(Waiting) /\ Head(Waiting) = Waiting[1]
  /\ served' = served

ServedBy(t) ==
  /\ RingSame /\ Admitted' = Admitted
  /\ t \in Serving /\ Serving' = Serving \ {t} /\ KeepRequests(Serving)
  /\ served' = served \cup {elem[t]}

Effect ==
  \/ Still \/ Arrived \/ ArrivedAndTaken
  \/ \E t \in Thread : TakenBy(t) \/ ServedBy(t)

LEMMA AdmittedFacts ==
  ASSUME BufTypeOK, MainHasLast
  PROVE  /\ accepted \in Nat /\ Admitted \in Nat
         /\ HandingOver => elem[Main] = Admitted + 1 /\ Admitted + 1 \in Request
  BY BufferAssumption DEF BufTypeOK, MainHasLast, Admitted, Request

(* Steps that touch neither the requests nor the ring. *)
LEMMA StillStep ==
  ASSUME UNCHANGED <<bufferq, in, out, accepted, served, elem>>,
         (HandingOver' <=> HandingOver), Serving' = Serving
  PROVE  Still
  BY RingStays DEF Still, RingSame, Admitted, KeepRequests

(* A thread goes from a place to another one with mutex' as it may be. *)
LEMMA PlaceStep ==
  ASSUME BufTypeOK, NEW t \in Thread, NEW place,
         pc' = [pc EXCEPT ![t] = place]
  PROVE  /\ pc[t] # "serve" /\ place # "serve" => Serving' = Serving
         /\ pc[t] # "serve" /\ place = "serve" => Serving' = Serving \cup {t}
         /\ pc[t] = "serve" /\ place # "serve" => Serving' = Serving \ {t}
         /\ t # Main => (HandingOver' <=> HandingOver)
         /\ t = Main => (HandingOver' <=> place \in {"lock", "test", "wait", "relock"})
  <1>1. Main \in Thread /\ \A u \in Thread : pc'[u] = IF u = t THEN place ELSE pc[u]
    BY DEF BufTypeOK, Thread
  <1> QED BY <1>1 DEF Serving, HandingOver

LEMMA SignalStep ==
  ASSUME BufTypeOK, NEW t \in Thread, NEW place, NEW waiters,
         waiters \in {OnEmpty, OnFull}, pc[t] = "test",
         MoveAndSignal(t, place, waiters)
  PROVE  /\ place # "serve" => Serving' = Serving
         /\ place = "serve" => Serving' = Serving \cup {t}
         /\ t # Main => (HandingOver' <=> HandingOver)
         /\ t = Main => (HandingOver' <=> place \in {"lock", "test", "wait", "relock"})
         /\ pc'[t] = place
         /\ \A u \in Thread \ {t} :
              \/ pc'[u] = pc[u]
              \/ pc[u] = "wait" /\ pc'[u] = "relock" /\ u \in waiters
         /\ waiters # {} => \E u \in waiters : u # t /\ pc'[u] = "relock"
  <1>0. pc \in [Thread -> MainPlace \cup WorkerPlace]
    BY DEF BufTypeOK
  <1>1. Main \in Thread /\ \A w \in waiters : w \in Thread /\ pc[w] = "wait"
    BY DEF OnEmpty, OnFull, Thread
  <1>2. /\ pc'[t] = place
        /\ \A u \in Thread \ {t} :
              \/ pc'[u] = pc[u]
              \/ pc[u] = "wait" /\ pc'[u] = "relock" /\ u \in waiters
        /\ waiters # {} => \E u \in waiters : u # t /\ pc'[u] = "relock"
    <2>1. CASE waiters = {}
      <3>1. pc' = [pc EXCEPT ![t] = place]
        BY <2>1 DEF MoveAndSignal
      <3>2. pc'[t] = place /\ \A u \in Thread \ {t} : pc'[u] = pc[u]
        BY <1>0, <3>1
      <3> QED BY <2>1, <3>2
    <2>2. ASSUME NEW w \in waiters, pc' = [pc EXCEPT ![t] = place, ![w] = "relock"]
          PROVE  /\ pc'[t] = place
                 /\ \A u \in Thread \ {t} :
                      \/ pc'[u] = pc[u]
                      \/ pc[u] = "wait" /\ pc'[u] = "relock" /\ u \in waiters
                 /\ \E u \in waiters : u # t /\ pc'[u] = "relock"
      <3>1. w \in Thread /\ pc[w] = "wait" /\ w # t
        BY <1>1
      <3>2. /\ pc'[t] = place /\ pc'[w] = "relock"
            /\ \A u \in Thread \ {t, w} : pc'[u] = pc[u]
        BY <1>0, <2>2, <3>1
      <3> QED BY <3>1, <3>2
    <2>3. CASE waiters # {}
      <3>1. PICK w \in waiters : pc' = [pc EXCEPT ![t] = place, ![w] = "relock"]
        BY <2>3 DEF MoveAndSignal
      <3> QED BY <2>2, <2>3, <3>1
    <2> QED BY <2>1, <2>3
  <1>3. Serving' = IF place = "serve" THEN Serving \cup {t} ELSE Serving
    BY <1>2 DEF Serving
  <1>4. t # Main => (HandingOver' <=> HandingOver)
    BY <1>1, <1>2 DEF HandingOver
  <1>5. t = Main => (HandingOver' <=> place \in {"lock", "test", "wait", "relock"})
    BY <1>2 DEF HandingOver
  <1> QED BY <1>2, <1>3, <1>4, <1>5

(* Steps in which one thread changes its place and nothing else matters. *)
LEMMA PlaceIsStill ==
  ASSUME BufTypeOK, NEW t \in Thread, NEW place,
         pc' = [pc EXCEPT ![t] = place],
         UNCHANGED <<bufferq, in, out, accepted, served, elem>>,
         pc[t] # "serve", place # "serve",
         t = Main => (HandingOver <=> place \in {"lock", "test", "wait", "relock"})
  PROVE  Still
  <1>1. Serving' = Serving /\ (HandingOver' <=> HandingOver)
    <2>1. t = Main => (HandingOver' <=> HandingOver)
      BY PlaceStep
    <2> QED BY <2>1, PlaceStep
  <1> QED BY <1>1, StillStep

LEMMA BufEffect ==
  ASSUME BufTypeOK, BufTypeOK', WorkersStay, MainHasLast, BufNext
  PROVE  Effect
  <1>0. /\ Main \in Thread /\ Main \notin Worker /\ Worker \subseteq Thread
        /\ \A t \in Thread : t = Main \/ t \in Worker
        /\ elem \in [Thread -> Request]
    BY BufferAssumption DEF Thread, BufTypeOK
  <1>1. ASSUME NEW t \in Thread, Lock(t) PROVE Still
    <2>1. t = Main => HandingOver
      BY <1>1 DEF Lock, HandingOver
    <2> DEFINE place == IF pc[t] = "relock" /\ t # Main THEN "check" ELSE "test"
    <2>2. /\ pc[t] # "serve" /\ place # "serve" /\ pc' = [pc EXCEPT ![t] = place]
          /\ t = Main => place \in {"lock", "test", "wait", "relock"}
      BY <1>1 DEF Lock, BufTypeOK
    <2>3. UNCHANGED <<bufferq, in, out, accepted, served, elem>>
      BY <1>1 DEF Lock
    <2> HIDE DEF place
    <2> QED BY <2>1, <2>2, <2>3, PlaceIsStill
  <1>2. ASSUME NEW w \in Worker, Top(w) \/ LeaveOnExit(w) \/ TestAgain(w)
        PROVE  Still
    BY <1>0, <1>2, PlaceIsStill DEF Top, LeaveOnExit, TestAgain
  <1>3. ASSUME NEW t \in Thread, pc[t] = "test", CondWait(t) PROVE Still
    BY <1>3, PlaceIsStill DEF CondWait, HandingOver
  <1>4. ASSUME NEW w \in Worker, pc[w] = "test", ~IsEmpty, Take(w) PROVE TakenBy(w)
    <2>1. /\ Waiting # <<>> /\ Head(Waiting) = bufferq[out]
          /\ Occupancy' = Occupancy - 1 /\ Waiting' = Tail(Waiting)
      BY <1>4, RingTake DEF Take
    <2>2. Occupancy \in Nat \ {0}
      BY <1>4, RingFacts, BufferAssumption DEF RingView
    <2>3. Serving' = Serving \cup {w} /\ (HandingOver' <=> HandingOver)
      BY <1>0, <1>4, SignalStep DEF Take
    <2>4. Admitted' = Admitted /\ served' = served /\ w \notin Serving
      BY <1>4, <2>3 DEF Take, Admitted, Serving
    <2>5. KeepRequests(Serving) /\ elem'[w] = bufferq[out]
      BY <1>0, <1>4, <2>4 DEF Take, KeepRequests, Serving
    <2>6. Head(Waiting) = Waiting[1]
      BY <2>1, RingFacts, HeadTailProperties DEF RingView
    <2> QED BY <2>1, <2>2, <2>3, <2>4, <2>5, <2>6 DEF TakenBy
  <1>5. ASSUME NEW t \in Thread, Serve(t) PROVE ServedBy(t)
    <2> DEFINE place == IF t = Main THEN "accept" ELSE "top"
    <2>1. /\ pc[t] = "serve" /\ pc' = [pc EXCEPT ![t] = place] /\ place # "serve"
          /\ served' = served \cup {elem[t]}
          /\ UNCHANGED <<bufferq, in, out, elem, accepted>>
      BY <1>5 DEF Serve
    <2>2. Serving' = Serving \ {t} /\ (HandingOver' <=> HandingOver)
      <3>1. t = Main => ~HandingOver
        BY <2>1 DEF HandingOver
      <3>2. place \notin {"lock", "test", "wait", "relock"}
        OBVIOUS
      <3> HIDE DEF place
      <3> QED BY <2>1, <3>1, <3>2, PlaceStep
    <2> QED BY <2>1, <2>2, RingStays
            DEF ServedBy, RingSame, Admitted, KeepRequests, Serving
  <1>6. CASE Accept
    <2>1. /\ ~HandingOver /\ Main \notin Serving /\ accepted \in Nat
          /\ Admitted = accepted
      BY <1>6, AdmittedFacts DEF Accept, HandingOver, Serving, Admitted
    <2>2. /\ RingSame /\ KeepRequests(Serving) /\ served' = served
          /\ accepted' = accepted + 1 /\ elem'[Main] = accepted + 1
      BY <1>0, <1>6, <2>1, RingStays DEF Accept, RingSame, KeepRequests, Serving
    <2>3. CASE threads = {}
      <3>1. ~HandingOver' /\ Serving' = Serving \cup {Main}
        <4>1. pc[Main] = "accept" /\ pc' = [pc EXCEPT ![Main] = "serve"]
          BY <1>6, <2>3 DEF Accept
        <4> QED BY <1>0, <4>1, PlaceStep
      <3>2. Serving = {}
        BY <1>0, <2>1, <2>3 DEF WorkersStay, Serving
      <3>3. Occupancy = 0 /\ Waiting = <<>>
        BY <2>3, RingFacts, EmptySeq DEF MainHasLast, RingView, IsEmpty
      <3> QED BY <2>1, <2>2, <3>1, <3>2, <3>3 DEF ArrivedAndTaken, Effect, Admitted
    <2>4. CASE threads # {}
      <3>1. HandingOver' /\ Serving' = Serving
        <4>1. pc[Main] = "accept" /\ pc' = [pc EXCEPT ![Main] = "lock"]
          BY <1>6, <2>4 DEF Accept
        <4> QED BY <1>0, <4>1, PlaceStep
      <3>2. Admitted' = Admitted
        BY <2>1, <2>2, <3>1 DEF Admitted
      <3> QED BY <2>2, <3>1, <3>2 DEF Still, Effect
    <2> QED BY <2>3, <2>4
  <1>7. ASSUME pc[Main] = "test", ~IsFull, Put PROVE Arrived
    <2>1. /\ HandingOver /\ elem[Main] = Admitted + 1
          /\ elem[Main] \in Request /\ accepted = Admitted + 1
      BY <1>0, <1>7, AdmittedFacts DEF HandingOver, MainHasLast
    <2>2. /\ Len(Waiting) < MaxRequests /\ Occupancy' = Occupancy + 1
          /\ Waiting' = Append(Waiting, Admitted + 1)
      BY <1>7, <2>1, RingPut DEF Put
    <2>3. Serving' = Serving /\ ~HandingOver'
      BY <1>0, <1>7, SignalStep DEF Put
    <2>4. /\ Admitted' = Admitted + 1 /\ KeepRequests(Serving)
          /\ served' = served
      BY <1>7, <2>1, <2>3 DEF Put, Admitted, KeepRequests
    <2> QED BY <2>2, <2>3, <2>4 DEF Arrived
  <1>8. CASE ExitRequested \/ SetExiting \/ Join
    <2>1. /\ pc[Main] \in {"accept", "exit", "join"}
          /\ \E place \in {"exit", "broadcast", "done"} : pc' = [pc EXCEPT ![Main] = place]
          /\ UNCHANGED <<bufferq, in, out, accepted, served, elem>>
      BY <1>8 DEF ExitRequested, SetExiting, Join
    <2>2. ~HandingOver /\ pc[Main] # "serve"
      BY <2>1 DEF HandingOver
    <2>3. PICK place \in {"exit", "broadcast", "done"} : pc' = [pc EXCEPT ![Main] = place]
      BY <2>1
    <2>4. place # "serve" /\ place \notin {"lock", "test", "wait", "relock"}
      OBVIOUS
    <2>5. Still
      BY <1>0, <2>1, <2>2, <2>3, <2>4, PlaceIsStill
    <2> QED BY <2>5 DEF Effect
  <1>9. CASE Broadcast
    <2>1. \A t \in Thread : pc'[t] = IF t = Main THEN "join"
                                     ELSE IF t \in OnEmpty THEN "relock" ELSE pc[t]
      BY <1>9 DEF Broadcast
    <2>2. Serving' = Serving /\ (HandingOver' <=> HandingOver)
      BY <1>0, <1>9, <2>1 DEF Broadcast, Serving, HandingOver, OnEmpty
    <2> QED BY <1>9, <2>2, StillStep DEF Broadcast, Effect
  <1>10. ASSUME NEW t \in Thread, SpuriousWakeup(t) PROVE Still
    BY <1>10, PlaceIsStill DEF SpuriousWakeup, HandingOver
  <1> QED
    BY <1>0, <1>1, <1>2, <1>3, <1>4, <1>5, <1>6, <1>7, <1>8, <1>9, <1>10
    DEF Effect, BufNext, WorkerStep, ServerStep, WorkerTest, MainTest

-----------------------------------------------------------------------------
(* The inductive invariant is kept. *)

LEMMA OrderStep ==
  ASSUME BufTypeOK, BufTypeOK', MainHasLast, Numbered, TakenOnce, Effect
  PROVE  Numbered' /\ TakenOnce'
  <1>1. /\ Admitted \in Nat /\ Occupancy \in Nat /\ Taken \in Nat
        /\ Taken = Admitted - Occupancy
        /\ Waiting \in Seq(Request) /\ Len(Waiting) = Occupancy
    BY AdmittedFacts, RingFacts, BufferAssumption DEF RingView, Numbered, Taken
  <1>2. ASSUME Still PROVE Numbered' /\ TakenOnce'
    <2>1. Taken' = Taken
      BY <1>2 DEF Still, RingSame, Taken
    <2>2. Numbered'
      BY <1>2, <2>1 DEF Still, RingSame, Numbered
    <2>3. TakenOnce'
      BY <1>2, <2>1 DEF Still, KeepRequests, TakenOnce
    <2> QED BY <2>2, <2>3
  <1>3. ASSUME Arrived PROVE Numbered' /\ TakenOnce'
    <2>1. Taken' = Taken
      BY <1>1, <1>3 DEF Arrived, Taken
    <2>2. \A i \in 1 .. Occupancy' : Waiting'[i] = Taken + i
      <3>1. Waiting' = Append(Waiting, Admitted + 1) /\ Occupancy' = Occupancy + 1
        BY <1>3 DEF Arrived
      <3> QED BY <1>1, <3>1 DEF Numbered
    <2>3. Numbered'
      BY <1>1, <2>1, <2>2 DEF Numbered
    <2>4. TakenOnce'
      BY <1>3, <2>1 DEF Arrived, KeepRequests, TakenOnce
    <2> QED BY <2>3, <2>4
  <1>4. ASSUME ArrivedAndTaken PROVE Numbered' /\ TakenOnce'
    <2>1. /\ Taken' = Taken + 1 /\ Occupancy' = 0 /\ Serving = {}
          /\ Serving' = {Main} /\ elem'[Main] = Taken + 1 /\ served' = served
      BY <1>1, <1>4 DEF ArrivedAndTaken, RingSame, Taken
    <2>2. Numbered'
      BY <1>1, <2>1 DEF Numbered
    <2>3. TakenOnce'
      BY <1>1, <2>1 DEF TakenOnce
    <2> QED BY <2>2, <2>3
  <1>5. ASSUME NEW t \in Thread, TakenBy(t) PROVE Numbered' /\ TakenOnce'
    <2>1. /\ Taken' = Taken + 1 /\ Occupancy' = Occupancy - 1 /\ Occupancy \in Nat \ {0}
          /\ t \notin Serving /\ Serving' = Serving \cup {t} /\ KeepRequests(Serving)
          /\ Waiting' = Tail(Waiting) /\ Waiting # <<>> /\ served' = served
          /\ elem'[t] = Waiting[1]
      BY <1>1, <1>5 DEF TakenBy, Taken
    <2>2. \A i \in 1 .. Occupancy - 1 : Waiting'[i] = Waiting[i + 1]
      BY <1>1, <2>1, HeadTailProperties
    <2>3. elem'[t] = Taken + 1
      BY <1>1, <2>1 DEF Numbered
    <2>4. Numbered'
      <3>1. ASSUME NEW i \in 1 .. Occupancy - 1 PROVE Waiting'[i] = Taken' + i
        <4>1. i + 1 \in 1 .. Occupancy
          BY <2>1
        <4> QED BY <1>1, <2>1, <2>2, <4>1 DEF Numbered
      <3> QED BY <1>1, <2>1, <3>1 DEF Numbered
    <2>5. TakenOnce'
      <3>1. 1 .. Taken' = 1 .. Taken \cup {Taken + 1} /\ Taken + 1 \notin 1 .. Taken
        BY <1>1, <2>1
      <3>2. \A u \in Serving : elem'[u] = elem[u]
        BY <2>1 DEF KeepRequests
      <3> QED BY <2>1, <2>3, <3>1, <3>2 DEF TakenOnce
    <2> QED BY <2>4, <2>5
  <1>6. ASSUME NEW t \in Thread, ServedBy(t) PROVE Numbered' /\ TakenOnce'
    <2>1. Taken' = Taken
      BY <1>6 DEF ServedBy, RingSame, Taken
    <2>2. Numbered'
      BY <1>6, <2>1 DEF ServedBy, RingSame, Numbered
    <2>3. TakenOnce'
      BY <1>6, <2>1 DEF ServedBy, KeepRequests, TakenOnce
    <2> QED BY <2>2, <2>3
  <1> QED BY <1>2, <1>3, <1>4, <1>5, <1>6 DEF Effect

(* Threads that are created and have not exited stay awake, or are woken. *)
LEMMA AwakeStep ==
  ASSUME BufTypeOK, WorkersStay, NoLostWakeup, BufNext, MainHasLast
  PROVE  WorkersStay' /\ NoLostWakeup'
  <1>0. /\ Main \in Thread /\ Main \notin Worker /\ Worker \subseteq Thread
        /\ \A t \in Thread : t = Main \/ t \in Worker
        /\ threads \subseteq Worker /\ pc \in [Thread -> MainPlace \cup WorkerPlace]
    BY BufferAssumption DEF Thread, BufTypeOK
  <1>1. ASSUME UNCHANGED <<threads, in, out>>, exiting => exiting',
               \A t \in Thread :
                 \/ pc'[t] = pc[t]
                 \/ pc[t] # "exited" /\ (exiting \/ pc'[t] \notin {"wait", "exited"})
        PROVE  WorkersStay' /\ NoLostWakeup'
    BY <1>0, <1>1 DEF WorkersStay, NoLostWakeup, IsEmpty, IsFull, Occupancy
  <1>2. ASSUME NEW t \in Thread, NEW place, pc' = [pc EXCEPT ![t] = place],
               pc[t] # "exited", exiting \/ place \notin {"wait", "exited"},
               UNCHANGED <<threads, in, out>>, exiting => exiting'
        PROVE  WorkersStay' /\ NoLostWakeup'
    BY <1>0, <1>1, <1>2
  <1>3. ASSUME NEW w \in Worker, pc[w] = "test", IsEmpty, CondWait(w)
        PROVE  WorkersStay' /\ NoLostWakeup'
    <2>1. \A t \in Thread : pc'[t] = IF t = w THEN "wait" ELSE pc[t]
      BY <1>0, <1>3 DEF CondWait
    <2> QED BY <1>0, <1>3, <2>1
            DEF CondWait, WorkersStay, NoLostWakeup, IsEmpty, IsFull, Occupancy
  <1>4. ASSUME pc[Main] = "test", IsFull, CondWait(Main)
        PROVE  WorkersStay' /\ NoLostWakeup'
    <2>1. \A t \in Thread : pc'[t] = IF t = Main THEN "wait" ELSE pc[t]
      BY <1>0, <1>4 DEF CondWait
    <2> QED BY <1>0, <1>4, <2>1
            DEF CondWait, WorkersStay, NoLostWakeup, IsEmpty, IsFull, Occupancy
  <1>5. ASSUME NEW w \in Worker, pc[w] = "test", Take(w)
        PROVE  WorkersStay' /\ NoLostWakeup'
    <2>1. /\ pc'[w] = "serve"
          /\ \A u \in Thread \ {w} :
               \/ pc'[u] = pc[u]
               \/ pc[u] = "wait" /\ pc'[u] = "relock" /\ u \in OnFull
          /\ OnFull # {} => \E u \in OnFull : u # w /\ pc'[u] = "relock"
      BY <1>0, <1>5, SignalStep DEF Take
    <2>2. w \in threads
      BY <1>5 DEF WorkersStay
    <2>3. pc'[Main] # "wait"
      BY <1>0, <2>1 DEF OnFull
    <2>4. threads' = threads /\ exiting' = exiting
      BY <1>5 DEF Take
    <2> QED BY <1>0, <2>1, <2>2, <2>3, <2>4 DEF WorkersStay, NoLostWakeup
  <1>6. ASSUME pc[Main] = "test", Put
        PROVE  WorkersStay' /\ NoLostWakeup'
    <2>1. /\ pc'[Main] = "accept"
          /\ \A u \in Thread \ {Main} :
               \/ pc'[u] = pc[u]
               \/ pc[u] = "wait" /\ pc'[u] = "relock" /\ u \in OnEmpty
          /\ OnEmpty # {} => \E u \in OnEmpty : u # Main /\ pc'[u] = "relock"
      BY <1>0, <1>6, SignalStep DEF Put
    <2>2. threads # {}
      BY <1>6 DEF MainHasLast, HandingOver
    <2>3. threads' = threads /\ exiting' = exiting
      BY <1>6 DEF Put
    <2>4. WorkersStay'
      BY <1>0, <2>1, <2>3 DEF WorkersStay
    <2>5. ASSUME ~exiting PROVE \E w \in threads : pc'[w] \notin {"wait", "exited"}
      <3>1. CASE OnEmpty = {}
        <4>1. PICK w \in threads : TRUE
          BY <2>2
        <4>2. pc[w] \notin {"wait", "exited"} /\ w \in Thread \ {Main}
          BY <1>0, <2>5, <3>1, <4>1 DEF WorkersStay, OnEmpty
        <4> QED BY <2>1, <3>1, <4>2
      <3>2. CASE OnEmpty # {}
        <4>1. PICK w \in OnEmpty : pc'[w] = "relock"
          BY <2>1, <3>2
        <4>2. w \in threads
          BY DEF OnEmpty, WorkersStay
        <4> QED BY <4>1, <4>2
      <3> QED BY <3>1, <3>2
    <2> QED BY <2>1, <2>3, <2>4, <2>5 DEF NoLostWakeup
  <1>7. ASSUME NEW t \in Thread, Lock(t) \/ Serve(t) \/ SpuriousWakeup(t)
        PROVE  WorkersStay' /\ NoLostWakeup'
    <2>1. /\ \E place \in {"test", "check", "accept", "top", "relock"} :
               pc' = [pc EXCEPT ![t] = place]
          /\ pc[t] # "exited" /\ UNCHANGED <<threads, in, out, exiting>>
      BY <1>7 DEF Lock, Serve, SpuriousWakeup
    <2>2. PICK place \in {"test", "check", "accept", "top", "relock"} :
            pc' = [pc EXCEPT ![t] = place]
      BY <2>1
    <2> QED BY <1>2, <2>1, <2>2
  <1>8. ASSUME NEW w \in Worker, Top(w) \/ LeaveOnExit(w) \/ TestAgain(w)
        PROVE  WorkersStay' /\ NoLostWakeup'
    BY <1>0, <1>2, <1>8 DEF Top, LeaveOnExit, TestAgain
  <1>9. CASE Accept \/ ExitRequested \/ SetExiting \/ Join
    <2>1. /\ \E place \in {"lock", "serve", "exit", "broadcast", "done"} :
               pc' = [pc EXCEPT ![Main] = place]
          /\ pc[Main] # "exited" /\ UNCHANGED <<threads, in, out>>
          /\ exiting => exiting'
      BY <1>9 DEF Accept, ExitRequested, SetExiting, Join
    <2>2. PICK place \in {"lock", "serve", "exit", "broadcast", "done"} :
            pc' = [pc EXCEPT ![Main] = place]
      BY <2>1
    <2> QED BY <1>0, <1>2, <2>1, <2>2
  <1>10. CASE Broadcast
    BY <1>0, <1>1, <1>10 DEF Broadcast, OnEmpty
  <1> QED
    BY <1>0, <1>3, <1>4, <1>5, <1>6, <1>7, <1>8, <1>9, <1>10
    DEF BufNext, WorkerStep, ServerStep, WorkerTest, MainTest

LEMMA MainStep ==
  ASSUME BufTypeOK, WorkersStay, MainHasLast, BufNext
  PROVE  MainHasLast'
  <1>0. /\ Main \in Thread /\ Main \notin Worker /\ Worker \subseteq Thread
        /\ \A t \in Thread : t = Main \/ t \in Worker
        /\ threads \subseteq Worker /\ pc \in [Thread -> MainPlace \cup WorkerPlace]
        /\ elem \in [Thread -> Request] /\ accepted \in Nat
    BY BufferAssumption, AdmittedFacts DEF Thread, BufTypeOK
  <1>1. ASSUME UNCHANGED <<threads, accepted>>, elem'[Main] = elem[Main],
               HandingOver' => HandingOver,
               pc'[Main] = "serve" => pc[Main] = "serve",
               threads = {} => UNCHANGED <<in, out>>
        PROVE  MainHasLast'
    BY <1>1 DEF MainHasLast
  <1>2. ASSUME NEW w \in Worker,
               \/ Lock(w) \/ Top(w) \/ LeaveOnExit(w) \/ TestAgain(w) \/ Serve(w)
               \/ SpuriousWakeup(w) \/ CondWait(w)
        PROVE  MainHasLast'
    <2>1. /\ \E place : pc' = [pc EXCEPT ![w] = place]
          /\ UNCHANGED <<threads, in, out, elem, accepted>>
      BY <1>2 DEF Lock, Top, LeaveOnExit, TestAgain, Serve, SpuriousWakeup, CondWait
    <2>2. pc'[Main] = pc[Main]
      BY <1>0, <2>1
    <2> QED BY <1>1, <2>1, <2>2 DEF HandingOver
  <1>3. ASSUME NEW w \in Worker, pc[w] = "test", Take(w)
        PROVE  MainHasLast'
    <2>1. threads # {}
      BY <1>3 DEF WorkersStay
    <2>2. /\ pc'[Main] = pc[Main] \/ (pc[Main] = "wait" /\ pc'[Main] = "relock")
          /\ elem'[Main] = elem[Main] /\ UNCHANGED <<threads, accepted>>
      BY <1>0, <1>3, SignalStep DEF Take
    <2> QED BY <1>1, <2>1, <2>2 DEF HandingOver
  <1>4. CASE Lock(Main) \/ SpuriousWakeup(Main) \/ (pc[Main] = "test" /\ CondWait(Main))
    <2>1. /\ HandingOver /\ pc'[Main] # "serve" /\ elem' = elem
          /\ UNCHANGED <<threads, in, out, accepted>>
      BY <1>0, <1>4 DEF Lock, SpuriousWakeup, CondWait, HandingOver
    <2> QED BY <1>1, <2>1
  <1>5. CASE Serve(Main) \/ ExitRequested \/ SetExiting \/ Broadcast \/ Join
    <2>1. /\ ~HandingOver' /\ pc'[Main] # "serve" /\ elem' = elem
          /\ UNCHANGED <<threads, in, out, accepted>>
      BY <1>0, <1>5
      DEF Serve, ExitRequested, SetExiting, Broadcast, Join, HandingOver
    <2> QED BY <1>1, <2>1
  <1>6. ASSUME pc[Main] = "test", Put PROVE MainHasLast'
    <2>1. pc'[Main] = "accept" /\ threads # {} /\ UNCHANGED threads
      BY <1>0, <1>6, SignalStep DEF Put, MainHasLast, HandingOver
    <2> QED BY <2>1 DEF MainHasLast, HandingOver
  <1>7. CASE Accept
    <2>1. /\ pc'[Main] = IF threads = {} THEN "serve" ELSE "lock"
          /\ elem'[Main] = accepted' /\ accepted' = accepted + 1
          /\ UNCHANGED <<threads, in, out>>
      BY <1>0, <1>7 DEF Accept
    <2> QED BY <1>0, <2>1 DEF MainHasLast, HandingOver
  <1> QED
    BY <1>0, <1>2, <1>3, <1>4, <1>5, <1>6, <1>7
    DEF BufNext, WorkerStep, ServerStep, WorkerTest, MainTest

-----------------------------------------------------------------------------

LEMMA BufInitial == BufInit => BufIInv
  <1> SUFFICES ASSUME BufInit PROVE BufIInv
    OBVIOUS
  <1>0. /\ \A t \in Thread : pc[t] = IF t = Main THEN "accept"
                                     ELSE IF t \in threads THEN "top" ELSE "exited"
        /\ Main \in Thread /\ Main \notin Worker /\ Worker \subseteq Thread
        /\ Free \notin Thread /\ threads \subseteq Worker
    BY BufferAssumption DEF BufInit, Thread
  <1>1. BufTypeOK
    <2>1. /\ pc \in [Thread -> MainPlace \cup WorkerPlace]
          /\ pc[Main] \in MainPlace /\ \A w \in Worker : pc[w] \in WorkerPlace
      BY <1>0 DEF BufInit, MainPlace, WorkerPlace
    <2>2. \A t \in Thread : pc[t] \in {"test", "check"} <=> mutex = t
      BY <1>0 DEF BufInit
    <2>3. /\ 0 \in Request /\ 0 \in 0 .. MaxRequests
          /\ bufferq \in [0 .. MaxRequests -> Request] /\ elem \in [Thread -> Request]
      BY BufferAssumption DEF BufInit, Request
    <2> QED BY <1>0, <2>1, <2>2, <2>3 DEF BufInit, BufTypeOK
  <1>2. /\ ~HandingOver /\ Serving = {} /\ pc[Main] = "accept"
        /\ \A w \in threads : pc[w] = "top"
    BY <1>0 DEF HandingOver, Serving
  <1>3. WorkersStay /\ MainHasLast
    BY <1>0, <1>2 DEF BufInit, WorkersStay, MainHasLast
  <1>4. IsEmpty /\ Occupancy = 0 /\ Admitted = 0
    BY <1>1, <1>2, RingFacts DEF BufInit, IsEmpty, RingView, Admitted
  <1>5. NoLostWakeup
    BY <1>2, <1>4 DEF NoLostWakeup
  <1>6. Numbered /\ TakenOnce
    BY <1>2, <1>4 DEF BufInit, Numbered, TakenOnce, Taken
  <1> QED BY <1>1, <1>3, <1>5, <1>6 DEF BufIInv

LEMMA BufStep == BufIInv /\ [BufNext]_bufVars => BufIInv'
  <1> SUFFICES ASSUME BufIInv, [BufNext]_bufVars PROVE BufIInv'
    OBVIOUS
  <1>1. BufTypeOK'
    BY BufTypeStep DEF BufIInv
  <1>2. CASE BufNext
    BY <1>1, <1>2, BufEffect, OrderStep, AwakeStep, MainStep DEF BufIInv
  <1>3. CASE UNCHANGED bufVars
    <2>1. WorkersStay' /\ NoLostWakeup'
      BY <1>3 DEF BufIInv, bufVars, WorkersStay, NoLostWakeup, IsEmpty, IsFull, Occupancy
    <2>2. MainHasLast'
      BY <1>3 DEF BufIInv, bufVars, MainHasLast, HandingOver
    <2>3. Still
      BY <1>3, StillStep DEF bufVars, HandingOver, Serving
    <2> QED BY <1>1, <2>1, <2>2, <2>3, OrderStep DEF BufIInv, Effect
  <1> QED BY <1>2, <1>3

(* The inductive invariant of the request buffer. *)
THEOREM BufInvariance == BufSpec => []BufIInv
  BY BufInitial, BufStep, PTL DEF BufSpec

(* in and out stay inside the ring, and the mutex is held by the one thread  *)
(* that is at a place that needs it.                                         *)
THEOREM BufTypeCorrectness == BufSpec => []BufTypeOK
  <1>1. BufIInv => BufTypeOK
    BY DEF BufIInv
  <1> QED BY <1>1, BufInvariance, PTL

(* While the server runs, requests in the ring have a worker awake to take   *)
(* them, and main waits only on a full ring (server_thread.c 196-207, 333-345). *)
THEOREM NoWakeupLost == BufSpec => []NoLostWakeup
  <1>1. BufIInv => NoLostWakeup
    BY DEF BufIInv
  <1> QED BY <1>1, BufInvariance, PTL

(* Where a request is: it was taken, or it is in the ring, or main has it.   *)
LEMMA OnePlace ==
  ASSUME BufIInv, NEW r \in 1 .. accepted
  PROVE  (IF HandingOver /\ elem[Main] = r THEN 1 ELSE 0)
         + Cardinality({i \in 1 .. Occupancy : Waiting[i] = r})
         + Cardinality({t \in Serving : elem[t] = r})
         + (IF r \in served THEN 1 ELSE 0) = 1
  <1> DEFINE InRing == {i \in 1 .. Occupancy : Waiting[i] = r}
             With == {t \in Serving : elem[t] = r}
  <1>1. /\ accepted \in Nat /\ Admitted \in Nat /\ Occupancy \in Nat /\ Taken \in Nat
        /\ Taken = Admitted - Occupancy
        /\ HandingOver => elem[Main] = accepted /\ Admitted = accepted - 1
        /\ ~HandingOver => Admitted = accepted
    BY AdmittedFacts, RingFacts, BufferAssumption
    DEF BufIInv, MainHasLast, RingView, Numbered, Taken, Admitted
  <1>2. Cardinality({}) = 0
    BY FS_EmptySet
  <1>3. CASE r \in 1 .. Taken
    <2>1. ~(HandingOver /\ elem[Main] = r) /\ InRing = {}
      BY <1>1, <1>3 DEF BufIInv, Numbered
    <2>2. CASE r \in served
      <3>1. With = {}
        BY <2>2 DEF BufIInv, TakenOnce
      <3>2. Cardinality(InRing) = 0 /\ Cardinality(With) = 0
        BY <1>2, <2>1, <3>1
      <3> QED BY <2>1, <2>2, <3>2
    <2>3. CASE r \notin served
      <3>1. PICK t \in Serving : elem[t] = r
        BY <1>3, <2>3 DEF BufIInv, TakenOnce
      <3>2. With = {t}
        BY <3>1 DEF BufIInv, TakenOnce
      <3>3. Cardinality({t}) = 1
        BY FS_Singleton
      <3>4. Cardinality(InRing) = 0 /\ Cardinality(With) = 1
        BY <1>2, <2>1, <3>2, <3>3
      <3> QED BY <2>1, <2>3, <3>4
    <2> QED BY <2>2, <2>3
  <1>4. CASE r \notin 1 .. Taken
    <2>1. r \notin served /\ With = {}
      BY <1>4 DEF BufIInv, TakenOnce
    <2>2. CASE r \in 1 .. Admitted
      <3>1. ~(HandingOver /\ elem[Main] = r)
        BY <1>1, <2>2
      <3>2. InRing = {r - Taken}
        BY <1>1, <1>4, <2>2 DEF BufIInv, Numbered
      <3>3. Cardinality({r - Taken}) = 1
        BY FS_Singleton
      <3>4. Cardinality(InRing) = 1 /\ Cardinality(With) = 0
        BY <1>2, <2>1, <3>2, <3>3
      <3> QED BY <2>1, <3>1, <3>4
    <2>3. CASE r \notin 1 .. Admitted
      <3>1. HandingOver /\ elem[Main] = r /\ InRing = {}
        BY <1>1, <2>3 DEF BufIInv, Numbered
      <3> QED BY <1>2, <2>1, <3>1
    <2> QED BY <2>2, <2>3
  <1> QED BY <1>3, <1>4

(* Every request that was accepted is in exactly one place. *)
THEOREM RequestsOnce == BufSpec => []EachRequestOnce
  <1>1. BufIInv => EachRequestOnce
    BY OnePlace DEF EachRequestOnce
  <1> QED BY <1>1, BufInvariance, PTL

-----------------------------------------------------------------------------
(* The request buffer implements RequestQueue. *)

LEMMA QueueStarts == BufInit => Queue!QueueInit
  <1> SUFFICES ASSUME BufInit PROVE Queue!QueueInit
    OBVIOUS
  <1>1. BufTypeOK
    BY BufInitial DEF BufIInv
  <1>2. Admitted = 0 /\ Serving = {}
    BY BufferAssumption DEF BufInit, HandingOver, Admitted, Serving, Thread
  <1>3. Waiting = <<>>
    BY <1>1, RingFacts, EmptySeq DEF BufInit, IsEmpty, RingView
  <1> QED BY <1>2, <1>3 DEF BufInit, Queue!QueueInit

LEMMA QueueSteps ==
  BufIInv /\ [BufNext]_bufVars => [Queue!QueueNext]_(Queue!queueVars)
  <1> SUFFICES ASSUME BufIInv, [BufNext]_bufVars
               PROVE  Queue!QueueNext \/ UNCHANGED Queue!queueVars
    OBVIOUS
  <1> DEFINE Requests == {elem[t] : t \in Serving}
  <1>1. Effect
    <2>1. CASE BufNext
      BY <2>1, BufTypeStep, BufEffect DEF BufIInv
    <2>2. CASE UNCHANGED bufVars
      BY <2>2, StillStep DEF bufVars, HandingOver, Serving, Effect
    <2> QED BY <2>1, <2>2
  <1>2. CASE Still
    <2>1. Requests' = Requests
      BY <1>2 DEF Still, KeepRequests
    <2> QED BY <1>2, <2>1 DEF Still, RingSame, Queue!queueVars
  <1>3. CASE Arrived
    <2>1. Requests' = Requests
      BY <1>3 DEF Arrived, KeepRequests
    <2> QED BY <1>3, <2>1 DEF Arrived, Queue!QueueNext, Queue!Arrive
  <1>4. CASE ArrivedAndTaken
    <2>1. Requests = {} /\ Requests' = {Admitted'}
      BY <1>4 DEF ArrivedAndTaken
    <2> QED BY <1>4, <2>1
            DEF ArrivedAndTaken, RingSame, Queue!QueueNext, Queue!ArriveAndTake
  <1>5. ASSUME NEW t \in Thread, TakenBy(t) PROVE Queue!QueueNext
    <2>1. Requests' = Requests \cup {Head(Waiting)}
      BY <1>5 DEF TakenBy, KeepRequests
    <2> QED BY <1>5, <2>1 DEF TakenBy, Queue!QueueNext, Queue!Take
  <1>6. ASSUME NEW t \in Thread, ServedBy(t) PROVE Queue!QueueNext
    <2>1. Requests' = Requests \ {elem[t]}
      BY <1>6 DEF ServedBy, KeepRequests, BufIInv, TakenOnce
    <2>2. elem[t] \in Requests
      BY <1>6 DEF ServedBy
    <2> QED BY <1>6, <2>1, <2>2 DEF ServedBy, RingSame, Queue!QueueNext, Queue!Finish
  <1> QED BY <1>1, <1>2, <1>3, <1>4, <1>5, <1>6 DEF Effect

(* The ring of max_requests + 1 slots, the mutex and the condition variables *)
(* are a queue of max_requests requests that come out in the order in which  *)
(* they went in and are served once each.                                    *)
THEOREM Implementation == BufSpec => BoundedFifo
  BY QueueStarts, QueueSteps, BufInvariance, PTL
  DEF BufSpec, BoundedFifo, Queue!QueueSpec

=============================================================================
