---- MODULE MCWarmup ----
(* The programs of warmup/ in one run: each behaviour is one of wc or of cpr. *)
EXTENDS WordCount, CopyTree

CONSTANTS a, b, c

VARIABLE program

(* One word begins with another one. *)
MCLonger == [w \in Words |-> IF w = a THEN {b} ELSE {}]

MCNodes == {"top", "a", "b", "c"}
MCParent == "a" :> "top" @@ "b" :> "top" @@ "c" :> "b"
MCContent == [n \in MCNodes |-> IF n = "a" THEN <<1, 2, 3>> ELSE <<4>>]

WcIdle ==
  /\ text = <<>> /\ hash = <<>> /\ phase = "done" /\ at = 0 /\ str = Space
  /\ first = Space /\ size = 0 /\ items = <<>> /\ printed = <<>>

CprIdle ==
  /\ kind = <<>> /\ dst = [n \in Nodes |-> Absent] /\ frames = <<>> /\ node = Root
  /\ call = "none" /\ pos = 0 /\ buf = <<>> /\ missed = FALSE /\ status = "idle"

WarmupInit ==
  \/ program = "wc" /\ WcInit /\ CprIdle
  \/ program = "cpr" /\ CprInit /\ WcIdle

WarmupNext ==
  \/ WcNext /\ UNCHANGED <<cprVars, program>>
  \/ CprNext /\ UNCHANGED <<wcVars, program>>

WarmupSpec == WarmupInit /\ [][WarmupNext]_<<wcVars, cprVars, program>>
====
