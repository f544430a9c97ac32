----------------------------- MODULE RequestQueue -----------------------------
(***************************************************************************)
(* What the web server promises of the requests it accepts, whatever its    *)
(* threads do: they are numbered in the order in which the main thread       *)
(* hands them over, at most Capacity of them wait, they are taken in that    *)
(* order, and each is served once, by whoever took it.                       *)
(***************************************************************************)
EXTENDS Naturals, Sequences

CONSTANT Capacity

VARIABLES arrived,   \* how many requests were handed over
          waiting,   \* those that nobody has taken, oldest first
          serving,   \* those being served
          served     \* those served

queueVars == <<arrived, waiting, serving, served>>

QueueInit == arrived = 0 /\ waiting = <<>> /\ serving = {} /\ served = {}

Arrive ==
  /\ Len(waiting) < Capacity
  /\ arrived' = arrived + 1
  /\ waiting' = Append(waiting, arrived')
  /\ UNCHANGED <<serving, served>>

(* A server without worker threads serves a request as it arrives. *)
ArriveAndTake ==
  /\ waiting = <<>> /\ serving = {}
  /\ arrived' = arrived + 1
  /\ serving' = {arrived'}
  /\ UNCHANGED <<waiting, served>>

Take ==
  /\ waiting # <<>>
  /\ waiting' = Tail(waiting)
  /\ serving' = serving \cup {Head(waiting)}
  /\ UNCHANGED <<arrived, served>>

Finish ==
  \E r \in serving :
    /\ serving' = serving \ {r}
    /\ served' = served \cup {r}
    /\ UNCHANGED <<arrived, waiting>>

QueueNext == Arrive \/ ArriveAndTake \/ Take \/ Finish

QueueSpec == QueueInit /\ [][QueueNext]_queueVars

=============================================================================
