------------------------------ MODULE WarmupProofs ------------------------------
(***************************************************************************)
(* The exercises: a copy that misses nothing is whole, for any tree, and    *)
(* what wc prints is counted right, for any text and any hash function.     *)
(***************************************************************************)
EXTENDS WordCount, CopyTree, QueueLemmas

-----------------------------------------------------------------------------
(* The copy. *)

Entries == [kind : {"none", "file", "dir"}, mode : {"none", "default", "source"},
            content : Seq(Nat)]
Frames == [dir : Nodes, left : SUBSET Nodes]

CprTypes ==
  /\ kind \in [Nodes -> {"file", "dir", "other"}]
  /\ dst \in [Nodes -> Entries]
  /\ frames \in Seq(Frames)
  /\ node \in Nodes
  /\ call \in {"opendir", "mkdir", "readdir", "stat", "open", "creat", "read", "write",
               "close", "chmod"}
  /\ pos \in Nat /\ buf \in Seq(Nat) /\ missed \in BOOLEAN
  /\ status \in {"running", "ok", "failed"}

(* Only directories have children, and what was made has a parent that was. *)
TreeKept ==
  /\ kind[Root] = "dir" /\ \A n \in Nodes \ {Root} : kind[Parent[n]] = "dir"
  /\ \A n \in Nodes \ {Root} : dst[n] # Absent => dst[Parent[n]] # Absent

(* The open directories lie in one another, and have been made; what is left *)
(* in one has not.                                                           *)
FrameOK(i) ==
  /\ dst[frames[i].dir].kind = "dir" /\ dst[frames[i].dir].mode = "default"
  /\ kind[frames[i].dir] = "dir"
  /\ frames[i].left \subseteq Children(frames[i].dir)
  /\ \A n \in frames[i].left : dst[n] = Absent

FramesOK ==
  /\ \A i \in 1 .. Len(frames) : FrameOK(i)
  /\ Len(frames) > 0 => frames[1].dir = Root
  /\ \A i \in 1 .. Len(frames) : i < Len(frames) =>
       frames[i + 1].dir \in Children(frames[i].dir) \ frames[i].left
  /\ \A i, j \in 1 .. Len(frames) : frames[i].dir = frames[j].dir => i = j

(* The node at hand is an entry of the innermost of them. *)
AtHand ==
  IF Len(frames) = 0
    THEN node = Root /\ call \in {"opendir", "mkdir"}
    ELSE call # "readdir" =>
           /\ node \in Children(frames[Len(frames)].dir) \ frames[Len(frames)].left
           /\ \A i \in 1 .. Len(frames) : frames[i].dir # node

(* The calls fit the kind of the node, and the file is copied as far as it   *)
(* was read.                                                                 *)
CallOK ==
  /\ call \in {"stat", "opendir", "mkdir", "open", "creat"} => dst[node] = Absent
  /\ call \in {"opendir", "mkdir"} => kind[node] = "dir"
  /\ call \in {"open", "creat", "read", "write", "close"} => kind[node] = "file"
  /\ call \in {"read", "write", "close"} =>
       dst[node].kind = "file" /\ dst[node].mode = "default"
  /\ call \in {"read", "write"} => pos <= Len(Content[node])
  /\ call = "chmod" => dst[node].kind = (IF kind[node] = "other" THEN "none" ELSE kind[node])
  /\ call = "chmod" /\ kind[node] = "other" => dst[node] = Absent

ContentOK ==
  /\ call = "read" => dst[node].content = SubSeq(Content[node], 1, pos)
  /\ call = "write" => dst[node].content \o buf = SubSeq(Content[node], 1, pos)
  /\ call \in {"close", "chmod"} /\ kind[node] = "file" => dst[node].content = Content[node]

(* The children of a directory have been copied. *)
Whole(d) == \A n \in Children(d) : Copied(n)

(* So those that the open directories have given are, but the one at hand. *)
GivenAreCopied ==
  /\ \A i \in 1 .. Len(frames) :
       \A n \in Children(frames[i].dir) \ frames[i].left :
         \/ Copied(n)
         \/ i < Len(frames) /\ n = frames[i + 1].dir
         \/ i = Len(frames) /\ call # "readdir" /\ n = node
  /\ call = "chmod" /\ kind[node] = "dir" => Whole(node)

(* A mode is set last. *)
ModesLast ==
  \A n \in Nodes : dst[n].mode = "source" => n # Root /\ (~ missed => Copied(n) /\ Whole(n))

CprInv ==
  /\ CprTypes /\ TreeKept /\ ModesLast
  /\ status = "running" => FramesOK /\ AtHand /\ CallOK
  /\ status = "running" /\ ~ missed => ContentOK /\ GivenAreCopied
  /\ status = "ok" /\ ~ missed => Copied(Root) /\ Whole(Root)

LEMMA CprStarts ==
  ASSUME CprInit
  PROVE  CprInv
  <1> USE DEF CprInit
  <1>1. Len(frames) = 0 /\ <<>> \in Seq(Nat) /\ <<>> \in Seq(Frames)
    BY EmptySeq
  <1>2. CprTypes
    BY <1>1, TreeAssumption DEF CprTypes, Entries, Absent
  <1>3. TreeKept
    BY TreeAssumption DEF TreeKept
  <1>4. ModesLast
    BY DEF ModesLast, Absent
  <1>5. FramesOK /\ AtHand /\ CallOK
    BY <1>1, TreeAssumption DEF FramesOK, AtHand, CallOK
  <1>6. ContentOK /\ GivenAreCopied
    BY <1>1 DEF ContentOK, GivenAreCopied
  <1> QED BY <1>2, <1>3, <1>4, <1>5, <1>6 DEF CprInv

(* The node at hand is not an open directory, nor left in one, nor below a   *)
(* node that has its mode.                                                   *)
LEMMA AtHandApart ==
  ASSUME CprInv, status = "running", call # "readdir"
  PROVE  /\ \A i \in 1 .. Len(frames) : frames[i].dir # node /\ node \notin frames[i].left
         /\ \A m \in Nodes : dst[m].mode = "source" => node \notin Children(m)
         /\ node # Root => dst[Parent[node]] # Absent
         /\ node \notin Children(node)
         /\ call \notin {"opendir", "mkdir"} => node # Root
  <1> DEFINE k == Len(frames)
  <1>1. k \in Nat
    BY LenProperties DEF CprInv, CprTypes
  <1>2. /\ FramesOK /\ AtHand
        /\ \A i \in 1 .. k : frames[i].dir \in Nodes /\ frames[i] \in Frames
        /\ Parent \in [Nodes \ {Root} -> Nodes] /\ Root \in Nodes /\ node \in Nodes
    <2>1. frames \in Seq(Frames)
      BY DEF CprInv, CprTypes
    <2>2. \A i \in 1 .. k : frames[i] \in Frames
      BY <2>1, ElementOfSeq
    <2> QED BY <2>2, TreeAssumption DEF CprInv, CprTypes, Frames
  <1> HIDE DEF k
  <1>3. CASE k = 0
    BY <1>2, <1>3 DEF AtHand, Children, k
  <1>4. CASE k # 0
    <2>1. /\ k \in 1 .. k /\ node \in Nodes \ {Root} /\ Parent[node] = frames[k].dir
          /\ node \notin frames[k].left
          /\ \A i \in 1 .. k : frames[i].dir # node
      BY <1>1, <1>2, <1>4 DEF AtHand, Children, k
    <2>2. ASSUME NEW i \in 1 .. k PROVE node \notin frames[i].left
      <3> SUFFICES ASSUME node \in frames[i].left PROVE i = k
        BY <2>1
      <3>1. frames[i].dir = frames[k].dir
        BY <1>2, <2>1 DEF FramesOK, FrameOK, Children, k
      <3> QED BY <1>2, <2>1, <3>1 DEF FramesOK, k
    <2>3. dst[frames[k].dir].kind = "dir" /\ dst[frames[k].dir].mode = "default"
      BY <1>2, <2>1 DEF FramesOK, FrameOK, k
    <2>4. dst[frames[k].dir] # Absent
      BY <2>3 DEF Absent
    <2> QED BY <2>1, <2>2, <2>3, <2>4 DEF Children, k
  <1> QED BY <1>3, <1>4

(* So a change of its copy leaves all of these as they are. *)
LEMMA CopyChanges ==
  ASSUME CprInv, status = "running", call # "readdir",
         NEW e \in Entries, e # Absent, dst' = [dst EXCEPT ![node] = e],
         kind' = kind, missed => missed'
  PROVE  /\ dst' \in [Nodes -> Entries] /\ dst'[node] = e
         /\ \A m \in Nodes \ {node} : dst'[m] = dst[m] /\ Copied(m)' = Copied(m)
         /\ TreeKept'
         /\ e.mode # "source" => ModesLast'
  <1>1. /\ dst \in [Nodes -> Entries] /\ node \in Nodes
        /\ TreeKept /\ ModesLast /\ Root \in Nodes /\ Parent \in [Nodes \ {Root} -> Nodes]
    BY TreeAssumption DEF CprInv, CprTypes
  <1>2. dst' \in [Nodes -> Entries] /\ dst'[node] = e
    BY <1>1
  <1>3. ASSUME NEW m \in Nodes \ {node} PROVE dst'[m] = dst[m] /\ Copied(m)' = Copied(m)
    <2>1. dst'[m] = dst[m]
      BY <1>1
    <2> QED BY <2>1 DEF Copied
  <1>4. TreeKept'
    <2> SUFFICES ASSUME NEW n \in Nodes \ {Root}, dst'[n] # Absent
                 PROVE  dst'[Parent[n]] # Absent
      BY <1>1 DEF TreeKept
    <2>1. Parent[n] \in Nodes
      BY <1>1
    <2>2. dst[Parent[n]] # Absent
      <3>1. CASE n = node
        BY <3>1, AtHandApart
      <3>2. CASE n # node
        BY <1>1, <1>3, <3>2 DEF TreeKept
      <3> QED BY <3>1, <3>2
    <2> QED BY <1>2, <1>3, <2>1, <2>2
  <1>5. ASSUME e.mode # "source" PROVE ModesLast'
    <2> SUFFICES ASSUME NEW n \in Nodes, dst'[n].mode = "source"
                 PROVE  n # Root /\ (~ missed' => Copied(n)' /\ Whole(n)')
      BY DEF ModesLast
    <2>1. n # node
      BY <1>2, <1>5
    <2>2. dst[n].mode = "source" /\ Copied(n)' = Copied(n)
      BY <1>3, <2>1
    <2>3. node \notin Children(n)
      BY <2>2, AtHandApart
    <2>4. Whole(n) => Whole(n)'
      BY <1>3, <2>3 DEF Whole, Children
    <2> QED BY <1>1, <2>2, <2>4 DEF ModesLast
  <1> QED BY <1>2, <1>3, <1>4, <1>5

(* A call on the node at hand, with none of the open directories changed:   *)
(* what is to be shown of the new state is what the next call relies on.    *)
LEMMA CallOnNode ==
  ASSUME CprInv, CprTypes', TreeKept', ModesLast',
         status = "running", status' = "running", call # "readdir",
         UNCHANGED <<kind, frames, node>>, missed => missed',
         \A m \in Nodes \ {node} : dst'[m] = dst[m],
         Len(frames) = 0 => call' \in {"opendir", "mkdir"},
         CallOK', ~ missed' => ContentOK',
         ~ missed' /\ call' = "readdir" => Copied(node)',
         ~ missed' /\ call' = "chmod" /\ kind[node] = "dir" => Whole(node)'
  PROVE  CprInv'
  <1> DEFINE k == Len(frames)
  <1>1. /\ frames' = frames /\ node' = node /\ kind' = kind /\ k \in Nat
        /\ FramesOK /\ AtHand /\ (~ missed' => GivenAreCopied)
        /\ \A i \in 1 .. k : frames[i].dir \in Nodes
    <2>1. frames \in Seq(Frames)
      BY DEF CprInv, CprTypes
    <2>2. \A i \in 1 .. k : frames[i] \in Frames
      BY <2>1, ElementOfSeq
    <2> QED BY <2>1, <2>2, LenProperties DEF CprInv, Frames
  <1>2. \A i \in 1 .. k : frames[i].dir # node /\ node \notin frames[i].left
    BY AtHandApart
  <1>3. \A m \in Nodes \ {node} : Copied(m)' = Copied(m)
    BY <1>1 DEF Copied
  <1> HIDE DEF k
  <1>4. FramesOK'
    <2>1. ASSUME NEW i \in 1 .. k PROVE FrameOK(i)'
      BY <1>1, <1>2 DEF FramesOK, FrameOK, Children, k
    <2> QED BY <1>1, <2>1 DEF FramesOK, k
  <1>5. AtHand'
    BY <1>1 DEF AtHand
  <1>6. ASSUME ~ missed' PROVE GivenAreCopied'
    <2>1. ASSUME NEW i \in 1 .. k, NEW n \in Children(frames[i].dir) \ frames[i].left
          PROVE  \/ Copied(n)'
                 \/ i < k /\ n = frames[i + 1].dir
                 \/ i = k /\ call' # "readdir" /\ n = node
      <3>1. CASE n # node
        BY <1>1, <1>3, <1>6, <2>1, <3>1 DEF GivenAreCopied, Children, k
      <3>2. CASE n = node /\ call' = "readdir"
        BY <1>6, <3>2
      <3>3. CASE n = node /\ call' # "readdir"
        <4>1. k \in 1 .. k /\ Parent[node] = frames[k].dir /\ Parent[node] = frames[i].dir
          BY <1>1, <2>1, <3>3 DEF AtHand, Children, k
        <4>2. i = k
          BY <1>1, <2>1, <4>1 DEF FramesOK, k
        <4> QED BY <3>3, <4>2
      <3> QED BY <3>1, <3>2, <3>3
    <2> QED BY <1>1, <1>6, <2>1 DEF GivenAreCopied, k
  <1> QED BY <1>4, <1>5, <1>6 DEF CprInv

(* What the types and the parts of the invariant say while a program runs.  *)
LEMMA WhileRunning ==
  ASSUME CprInv, status = "running"
  PROVE  /\ CprTypes /\ TreeKept /\ ModesLast /\ FramesOK /\ AtHand /\ CallOK
         /\ ~ missed => ContentOK /\ GivenAreCopied
         /\ dst \in [Nodes -> Entries] /\ dst[node] \in Entries /\ node \in Nodes
         /\ Len(frames) = 0 => call \in {"opendir", "mkdir"}
  BY DEF CprInv, CprTypes, AtHand

(* What was read of a file and what is read next are the longer beginning.  *)
LEMMA ContentParts ==
  ASSUME node \in Nodes
  PROVE  LET c == Content[node] IN
         /\ c \in Seq(Nat) /\ Len(c) \in Nat
         /\ SubSeq(c, 1, 0) = <<>> /\ SubSeq(c, 1, Len(c)) = c
         /\ \A p \in 0 .. Len(c), n \in 0 .. Len(c) : p <= n =>
              /\ SubSeq(c, p + 1, n) \in Seq(Nat)
              /\ SubSeq(c, 1, p) \o SubSeq(c, p + 1, n) = SubSeq(c, 1, n)
  <1> DEFINE c == Content[node]
  <1>1. c \in Seq(Nat)
    BY TreeAssumption
  <1> HIDE DEF c
  <1>2. Len(c) \in Nat /\ SubSeq(c, 1, Len(c)) = c
    BY <1>1, LenProperties, SubSeqFull
  <1>3. SubSeq(c, 1, 0) = <<>>
    BY <1>1, SubSeqEmpty
  <1>4. ASSUME NEW p \in 0 .. Len(c), NEW n \in 0 .. Len(c), p <= n
        PROVE  /\ SubSeq(c, p + 1, n) \in Seq(Nat)
               /\ SubSeq(c, 1, p) \o SubSeq(c, p + 1, n) = SubSeq(c, 1, n)
    <2>1. ASSUME NEW i \in p + 1 .. n PROVE c[i] \in Nat
      BY <1>1, <1>2, <1>4, <2>1, ElementOfSeq
    <2>2. SubSeq(c, p + 1, n) \in Seq(Nat)
      BY <1>1, <1>2, <1>4, <2>1, SubSeqProperties
    <2>3. SubSeq(c, 1, p) \o SubSeq(c, p + 1, n) = SubSeq(c, 1, n)
      <3>1. 1 \in 1 .. Len(c) + 1 /\ p \in 1 - 1 .. Len(c) /\ n \in p .. Len(c)
        BY <1>2, <1>4
      <3> QED BY <1>1, <3>1, ConcatAdjacentSubSeq
    <2> QED BY <2>2, <2>3
  <1> QED BY <1>1, <1>2, <1>3, <1>4 DEF c

LEMMA FailsKeeps ==
  ASSUME CprInv, Fails
  PROVE  CprInv'
  BY DEF Fails, place, CprInv, CprTypes, TreeKept, ModesLast, Copied, Whole

LEMMA OpenDirKeeps ==
  ASSUME CprInv, OpenDir
  PROVE  CprInv'
  <1>1. status = "running" /\ call = "opendir" /\ call' = "mkdir"
        /\ UNCHANGED <<kind, dst, frames, node, pos, buf, missed, status>>
    BY DEF OpenDir, Calls
  <1>2. CprTypes' /\ TreeKept' /\ ModesLast'
    BY <1>1 DEF CprInv, CprTypes, TreeKept, ModesLast, Copied, Whole
  <1>3. CallOK' /\ ContentOK'
    BY <1>1, WhileRunning DEF CallOK, ContentOK
  <1> QED BY <1>1, <1>2, <1>3, CallOnNode

LEMMA StatKeeps ==
  ASSUME CprInv, Stat
  PROVE  CprInv'
  <1>1. status = "running" /\ call = "stat"
        /\ UNCHANGED <<kind, dst, frames, node, pos, buf, missed, status>>
    BY DEF Stat, Calls
  <1>2. \/ kind[node] = "file" /\ call' = "open"
        \/ kind[node] = "dir" /\ call' = "opendir"
        \/ kind[node] = "other" /\ call' = "chmod"
    BY <1>1, WhileRunning DEF Stat, CprTypes
  <1>3. CprTypes' /\ TreeKept' /\ ModesLast'
    BY <1>1, <1>2 DEF CprInv, CprTypes, TreeKept, ModesLast, Copied, Whole
  <1>4. CallOK' /\ ContentOK'
    BY <1>1, <1>2, WhileRunning DEF CallOK, ContentOK, Absent
  <1> QED BY <1>1, <1>2, <1>3, <1>4, WhileRunning, CallOnNode

LEMMA OpenFileKeeps ==
  ASSUME CprInv, OpenFile
  PROVE  CprInv'
  <1>1. status = "running" /\ call = "open" /\ call' = "creat"
        /\ UNCHANGED <<kind, dst, frames, node, pos, buf, missed, status>>
    BY DEF OpenFile, Calls
  <1>2. CprTypes' /\ TreeKept' /\ ModesLast'
    BY <1>1 DEF CprInv, CprTypes, TreeKept, ModesLast, Copied, Whole
  <1>3. CallOK' /\ ContentOK'
    BY <1>1, WhileRunning DEF CallOK, ContentOK
  <1> QED BY <1>1, <1>2, <1>3, WhileRunning, CallOnNode

LEMMA CreateFileKeeps ==
  ASSUME CprInv, CreateFile
  PROVE  CprInv'
  <1>1. status = "running" /\ call = "creat" /\ call' = "read" /\ pos' = 0
        /\ dst' = [dst EXCEPT ![node] = New("file")]
        /\ UNCHANGED <<kind, frames, node, buf, missed, status>>
    BY DEF CreateFile, Calls
  <1>2. New("file") \in Entries /\ New("file") # Absent /\ New("file").mode # "source"
    BY EmptySeq DEF New, Entries, Absent
  <1>3. /\ dst' \in [Nodes -> Entries] /\ dst'[node] = New("file") /\ TreeKept' /\ ModesLast'
        /\ \A m \in Nodes \ {node} : dst'[m] = dst[m]
    BY <1>1, <1>2, CopyChanges
  <1>4. CprTypes'
    BY <1>1, <1>3 DEF CprInv, CprTypes
  <1>5. Len(Content[node]) \in Nat /\ SubSeq(Content[node], 1, 0) = <<>>
    BY <1>1, WhileRunning, ContentParts
  <1>6. CallOK' /\ ContentOK'
    BY <1>1, <1>3, <1>5, WhileRunning DEF CallOK, ContentOK, New
  <1> QED BY <1>1, <1>3, <1>4, <1>6, WhileRunning, CallOnNode

LEMMA ReadFileKeeps ==
  ASSUME CprInv, ReadFile
  PROVE  CprInv'
  <1> DEFINE c == Content[node]
  <1>1. /\ status = "running" /\ call = "read"
        /\ UNCHANGED <<kind, dst, frames, node, missed, status>>
        /\ IF pos = Len(c)
             THEN call' = "close" /\ UNCHANGED <<pos, buf>>
             ELSE \E n \in pos + 1 .. Len(c) :
                    buf' = SubSeq(c, pos + 1, n) /\ pos' = n /\ call' = "write"
    BY DEF ReadFile, Calls
  <1>2. /\ CprTypes /\ CallOK /\ node \in Nodes /\ pos \in Nat /\ pos <= Len(c)
        /\ Len(c) \in Nat /\ SubSeq(c, 1, Len(c)) = c
        /\ \A p \in 0 .. Len(c), n \in 0 .. Len(c) : p <= n =>
             /\ SubSeq(c, p + 1, n) \in Seq(Nat)
             /\ SubSeq(c, 1, p) \o SubSeq(c, p + 1, n) = SubSeq(c, 1, n)
    BY <1>1, WhileRunning, ContentParts DEF CprTypes, CallOK
  <1>3. ~ missed => dst[node].content = SubSeq(c, 1, pos)
    BY <1>1, WhileRunning DEF ContentOK
  <1> HIDE DEF c
  <1>4. /\ pos' \in Nat /\ buf' \in Seq(Nat) /\ call' \in {"close", "write"}
        /\ pos' <= Len(c)
        /\ ~ missed /\ call' = "write" => dst[node].content \o buf' = SubSeq(c, 1, pos')
        /\ ~ missed /\ call' = "close" => dst[node].content = c
    <2>1. CASE pos = Len(c)
      BY <1>1, <1>2, <1>3, <2>1 DEF CprTypes
    <2>2. CASE pos # Len(c)
      <3>1. PICK n \in pos + 1 .. Len(c) :
              buf' = SubSeq(c, pos + 1, n) /\ pos' = n /\ call' = "write"
        BY <1>1, <2>2
      <3>2. pos \in 0 .. Len(c) /\ n \in 0 .. Len(c) /\ pos <= n
        BY <1>2
      <3>3. /\ SubSeq(c, pos + 1, n) \in Seq(Nat)
            /\ SubSeq(c, 1, pos) \o SubSeq(c, pos + 1, n) = SubSeq(c, 1, n)
        BY <1>2, <3>2
      <3>4. ~ missed => dst[node].content \o buf' = SubSeq(c, 1, pos')
        BY <1>3, <3>1, <3>3
      <3>5. buf' \in Seq(Nat) /\ call' = "write"
        BY <3>1, <3>3
      <3>6. pos' \in Nat /\ pos' <= Len(c)
        BY <1>2, <3>1, <3>2
      <3> QED BY <3>4, <3>5, <3>6
    <2> QED BY <2>1, <2>2
  <1>5. CprTypes' /\ TreeKept' /\ ModesLast'
    BY <1>1, <1>4 DEF CprInv, CprTypes, TreeKept, ModesLast, Copied, Whole
  <1>6. CallOK'
    BY <1>1, <1>2, <1>4 DEF CallOK, c
  <1>7. ~ missed' => ContentOK'
    BY <1>1, <1>4 DEF ContentOK, c
  <1> QED BY <1>1, <1>4, <1>5, <1>6, <1>7, WhileRunning, CallOnNode

LEMMA WriteFileKeeps ==
  ASSUME CprInv, WriteFile
  PROVE  CprInv'
  <1>1. PICK n \in 0 .. Len(buf) :
          /\ dst' = [dst EXCEPT ![node].content = @ \o SubSeq(buf, 1, n)]
          /\ missed' = (missed \/ n < Len(buf))
    BY DEF WriteFile
  <1>2. /\ status = "running" /\ call = "write" /\ call' = "read"
        /\ UNCHANGED <<kind, frames, node, pos, buf, status>>
    BY DEF WriteFile, Calls
  <1>3. /\ CprTypes /\ CallOK /\ node \in Nodes /\ buf \in Seq(Nat) /\ Len(buf) \in Nat
        /\ dst \in [Nodes -> Entries] /\ dst[node] \in Entries
        /\ dst[node].kind = "file" /\ dst[node].mode = "default"
        /\ dst[node].content \in Seq(Nat)
        /\ ~ missed => dst[node].content \o buf = SubSeq(Content[node], 1, pos)
    BY <1>2, WhileRunning, LenProperties DEF CprTypes, CallOK, ContentOK, Entries
  <1> DEFINE more == SubSeq(buf, 1, n)
             e == [dst[node] EXCEPT !.content = @ \o more]
  <1>4. more \in Seq(Nat) /\ (~ (n < Len(buf)) => more = buf)
    <2>1. \A i \in 1 .. n : buf[i] \in Nat
      BY <1>3, ElementOfSeq
    <2>2. more \in Seq(Nat)
      BY <2>1, SubSeqProperties
    <2>3. ASSUME ~ (n < Len(buf)) PROVE more = buf
      <3>1. n = Len(buf)
        BY <1>3, <2>3
      <3> QED BY <1>3, <3>1, SubSeqFull
    <2> QED BY <2>2, <2>3
  <1> HIDE DEF more
  <1>5. dst[node].content \o more \in Seq(Nat)
    BY <1>3, <1>4, ConcatProperties
  <1>6. /\ e \in Entries /\ e.kind = "file" /\ e.mode = "default"
        /\ e.content = dst[node].content \o more
    BY <1>3, <1>5 DEF Entries
  <1>7. dst' = [dst EXCEPT ![node] = e]
    BY <1>1, <1>3 DEF more
  <1> HIDE DEF e
  <1>8. e # Absent /\ e.mode # "source"
    BY <1>6 DEF Absent
  <1>9. missed => missed'
    BY <1>1
  <1>10. /\ dst' \in [Nodes -> Entries] /\ dst'[node] = e /\ TreeKept' /\ ModesLast'
         /\ \A m \in Nodes \ {node} : dst'[m] = dst[m]
    BY <1>2, <1>6, <1>7, <1>8, <1>9, CopyChanges
  <1>11. missed' \in BOOLEAN
    BY <1>1, <1>3 DEF CprTypes
  <1>12. CprTypes'
    BY <1>2, <1>3, <1>10, <1>11 DEF CprTypes
  <1>13. CallOK'
    BY <1>2, <1>3, <1>6, <1>10 DEF CallOK
  <1>14. ASSUME ~ missed' PROVE ContentOK'
    BY <1>1, <1>2, <1>3, <1>4, <1>6, <1>10, <1>14 DEF ContentOK
  <1> QED BY <1>2, <1>9, <1>10, <1>12, <1>13, <1>14, WhileRunning, CallOnNode

LEMMA CloseFileKeeps ==
  ASSUME CprInv, CloseFile
  PROVE  CprInv'
  <1>1. /\ status = "running" /\ call = "close" /\ call' = "chmod"
        /\ UNCHANGED <<kind, frames, node, pos, buf, status>>
        /\ \/ UNCHANGED <<dst, missed>>
           \/ dst' = [dst EXCEPT ![node].content = <<>>] /\ missed' = TRUE
    BY DEF CloseFile, Calls
  <1>2. /\ CprTypes /\ CallOK /\ TreeKept /\ ModesLast /\ node \in Nodes
        /\ kind[node] = "file"
        /\ dst \in [Nodes -> Entries] /\ dst[node] \in Entries
        /\ dst[node].kind = "file" /\ dst[node].mode = "default"
        /\ ~ missed => dst[node].content = Content[node]
    BY <1>1, WhileRunning DEF CallOK, ContentOK
  <1>3. /\ CprTypes' /\ TreeKept' /\ ModesLast' /\ (missed => missed')
        /\ dst'[node].kind = "file"
        /\ \A m \in Nodes \ {node} : dst'[m] = dst[m]
        /\ ~ missed' => dst'[node].content = Content[node]
    <2>1. CASE UNCHANGED <<dst, missed>>
      BY <1>1, <1>2, <2>1 DEF CprTypes, TreeKept, ModesLast, Copied, Whole
    <2>2. CASE dst' = [dst EXCEPT ![node].content = <<>>] /\ missed' = TRUE
      <3> DEFINE e == [dst[node] EXCEPT !.content = <<>>]
      <3>1. e \in Entries /\ e.kind = "file" /\ e.mode = "default"
        BY <1>2, EmptySeq DEF Entries
      <3>2. dst' = [dst EXCEPT ![node] = e]
        BY <1>2, <2>2
      <3> HIDE DEF e
      <3>3. e # Absent /\ e.mode # "source"
        BY <3>1 DEF Absent
      <3>4. /\ dst' \in [Nodes -> Entries] /\ dst'[node] = e /\ TreeKept' /\ ModesLast'
            /\ \A m \in Nodes \ {node} : dst'[m] = dst[m]
        BY <1>1, <2>2, <3>1, <3>2, <3>3, CopyChanges
      <3> QED BY <1>1, <1>2, <2>2, <3>1, <3>4 DEF CprTypes
    <2> QED BY <1>1, <2>1, <2>2
  <1>4. CallOK'
    BY <1>1, <1>2, <1>3 DEF CallOK
  <1>5. ~ missed' => ContentOK'
    BY <1>1, <1>3 DEF ContentOK
  <1>6. kind[node] # "dir"
    BY <1>2
  <1> QED BY <1>1, <1>3, <1>4, <1>5, <1>6, WhileRunning, CallOnNode

LEMMA ChangeModeKeeps ==
  ASSUME CprInv, ChangeMode
  PROVE  CprInv'
  <1>1. /\ status = "running" /\ call = "chmod" /\ call' = "readdir" /\ dst[node] # Absent
        /\ dst' = [dst EXCEPT ![node].mode = "source"]
        /\ UNCHANGED <<kind, frames, node, pos, buf, missed, status>>
    BY DEF ChangeMode, Calls
  <1>2. /\ CprTypes /\ CallOK /\ TreeKept /\ ModesLast /\ node \in Nodes
        /\ dst \in [Nodes -> Entries] /\ dst[node] \in Entries
        /\ kind[node] \in {"file", "dir"} /\ dst[node].kind = kind[node]
        /\ node # Root
    BY <1>1, WhileRunning, AtHandApart DEF CallOK, CprTypes
  <1>3. ~ missed => /\ kind[node] = "file" => dst[node].content = Content[node]
                    /\ kind[node] = "dir" => Whole(node)
    BY <1>1, WhileRunning DEF ContentOK, GivenAreCopied
  <1> DEFINE e == [dst[node] EXCEPT !.mode = "source"]
  <1>4. /\ e \in Entries /\ e.kind = kind[node] /\ e.mode = "source"
        /\ e.content = dst[node].content
    BY <1>2 DEF Entries
  <1>5. dst' = [dst EXCEPT ![node] = e]
    BY <1>1, <1>2
  <1> HIDE DEF e
  <1>6. e # Absent
    BY <1>4 DEF Absent
  <1>7. /\ dst' \in [Nodes -> Entries] /\ dst'[node] = e /\ TreeKept'
        /\ \A m \in Nodes \ {node} : dst'[m] = dst[m] /\ Copied(m)' = Copied(m)
    BY <1>1, <1>4, <1>5, <1>6, CopyChanges
  <1>8. CprTypes'
    BY <1>1, <1>2, <1>7 DEF CprTypes
  <1>9. ~ missed => Copied(node)'
    BY <1>1, <1>3, <1>4, <1>7 DEF Copied
  <1>10. ASSUME ~ missed PROVE Whole(node)'
    <2>1. CASE kind[node] = "dir"
      <3>1. Whole(node) /\ node \notin Children(node)
        BY <1>1, <1>3, <1>10, <2>1, AtHandApart
      <3> QED BY <1>1, <1>7, <3>1 DEF Whole, Children
    <2>2. CASE kind[node] = "file"
      <3>1. Children(node) = {}
        BY <1>2, <2>2 DEF TreeKept, Children
      <3> QED BY <1>1, <3>1 DEF Whole
    <2> QED BY <1>2, <2>1, <2>2
  <1>11. ModesLast'
    <2> SUFFICES ASSUME NEW n \in Nodes, dst'[n].mode = "source"
                 PROVE  n # Root /\ (~ missed' => Copied(n)' /\ Whole(n)')
      BY DEF ModesLast
    <2>1. CASE n = node
      BY <1>1, <1>2, <1>9, <1>10, <2>1
    <2>2. CASE n # node
      <3>1. dst[n].mode = "source" /\ Copied(n)' = Copied(n)
        BY <1>7, <2>2
      <3>2. node \notin Children(n)
        BY <1>1, <3>1, AtHandApart
      <3>3. Whole(n) => Whole(n)'
        BY <1>7, <3>2 DEF Whole, Children
      <3> QED BY <1>1, <1>2, <3>1, <3>3 DEF ModesLast
    <2> QED BY <2>1, <2>2
  <1>12. CallOK' /\ ContentOK'
    BY <1>1 DEF CallOK, ContentOK
  <1> QED BY <1>1, <1>7, <1>8, <1>9, <1>11, <1>12, WhileRunning, CallOnNode

LEMMA MakeDirKeeps ==
  ASSUME CprInv, MakeDir
  PROVE  CprInv'
  <1> DEFINE k == Len(frames)
             f == [dir |-> node, left |-> Children(node)]
  <1>1. /\ status = "running" /\ call = "mkdir" /\ call' = "readdir"
        /\ dst' = [dst EXCEPT ![node] = New("dir")]
        /\ frames' = Append(frames, f)
        /\ UNCHANGED <<kind, node, pos, buf, missed, status>>
    BY DEF MakeDir, Calls
  <1>2. /\ CprTypes /\ CallOK /\ TreeKept /\ FramesOK /\ AtHand /\ node \in Nodes
        /\ dst[node] = Absent /\ kind[node] = "dir" /\ (~ missed => GivenAreCopied)
        /\ frames \in Seq(Frames) /\ k \in Nat
    BY <1>1, WhileRunning, LenProperties DEF CallOK, CprTypes
  <1>3. New("dir") \in Entries /\ New("dir") # Absent /\ New("dir").mode # "source"
    BY EmptySeq DEF New, Entries, Absent
  <1>4. /\ dst' \in [Nodes -> Entries] /\ dst'[node] = New("dir") /\ TreeKept' /\ ModesLast'
        /\ \A m \in Nodes \ {node} : dst'[m] = dst[m] /\ Copied(m)' = Copied(m)
    BY <1>1, <1>3, CopyChanges
  <1>5. f \in Frames /\ f.dir = node /\ f.left = Children(node)
    BY <1>2 DEF Frames, Children
  <1> HIDE DEF k, f
  <1>6. /\ frames' \in Seq(Frames) /\ Len(frames') = k + 1
        /\ frames'[k + 1] = f /\ \A i \in 1 .. k : frames'[i] = frames[i]
    BY <1>1, <1>2, <1>5, AppendProperties DEF k
  <1>7. CprTypes'
    BY <1>1, <1>2, <1>4, <1>6 DEF CprTypes
  <1>8. \A i \in 1 .. k : frames[i].dir \in Nodes /\ frames[i].dir # node
                          /\ node \notin frames[i].left
    <2>1. \A i \in 1 .. k : frames[i] \in Frames
      BY <1>2, ElementOfSeq DEF k
    <2> QED BY <1>1, <2>1, AtHandApart DEF Frames, k
  <1>9. node \notin Children(node) /\ \A n \in Children(node) : dst[n] = Absent
    BY <1>1, <1>2, AtHandApart DEF TreeKept, Children
  <1>10. \A i \in 1 .. k + 1 : FrameOK(i)'
    <2>1. ASSUME NEW i \in 1 .. k PROVE FrameOK(i)'
      BY <1>1, <1>2, <1>4, <1>6, <1>8, <2>1 DEF FramesOK, FrameOK, Children, k
    <2>2. ASSUME NEW i \in 1 .. k + 1, i = k + 1 PROVE FrameOK(i)'
      BY <2>2, <1>1, <1>2, <1>4, <1>5, <1>6, <1>9 DEF FrameOK, Children, New
    <2> QED BY <1>2, <2>1, <2>2
  <1>11. frames'[1].dir = Root
    BY <1>2, <1>5, <1>6 DEF FramesOK, AtHand, k
  <1>12. ASSUME NEW i \in 1 .. k
         PROVE  frames'[i + 1].dir \in Children(frames'[i].dir) \ frames'[i].left
    <2>1. CASE i < k
      BY <1>2, <1>6, <2>1 DEF FramesOK, k
    <2>2. CASE i = k
      BY <1>1, <1>2, <1>5, <1>6, <2>2 DEF AtHand, k
    <2> QED BY <1>2, <2>1, <2>2
  <1>13. ASSUME NEW i \in 1 .. k + 1, NEW j \in 1 .. k + 1, frames'[i].dir = frames'[j].dir
         PROVE  i = j
    BY <1>2, <1>5, <1>6, <1>8, <1>13 DEF FramesOK, k
  <1>14. FramesOK'
    BY <1>2, <1>6, <1>10, <1>11, <1>12, <1>13 DEF FramesOK
  <1>15. AtHand' /\ CallOK' /\ ContentOK'
    BY <1>1, <1>2, <1>6 DEF AtHand, CallOK, ContentOK
  <1>16. ASSUME ~ missed' PROVE GivenAreCopied'
    <2>1. ASSUME NEW i \in 1 .. k + 1, NEW n \in Children(frames'[i].dir) \ frames'[i].left
          PROVE  Copied(n)' \/ (i < k + 1 /\ n = frames'[i + 1].dir)
      <3>1. CASE i = k + 1
        BY <1>5, <1>6, <2>1, <3>1
      <3>2. CASE i \in 1 .. k /\ n = node
        <4>1. k \in 1 .. k /\ Parent[node] = frames[k].dir /\ Parent[node] = frames[i].dir
          BY <1>1, <1>2, <1>6, <2>1, <3>2 DEF AtHand, Children, k
        <4>2. i = k
          BY <1>2, <3>2, <4>1 DEF FramesOK, k
        <4> QED BY <1>2, <1>5, <1>6, <3>2, <4>2
      <3>3. CASE i \in 1 .. k /\ n # node
        <4>1. n \in Children(frames[i].dir) \ frames[i].left /\ n \in Nodes
          BY <1>6, <2>1, <3>3 DEF Children
        <4>2. Copied(n) \/ (i < k /\ n = frames[i + 1].dir)
          BY <1>1, <1>2, <1>16, <3>3, <4>1 DEF GivenAreCopied, k
        <4> QED BY <1>2, <1>4, <1>6, <3>3, <4>1, <4>2
      <3> QED BY <1>2, <3>1, <3>2, <3>3
    <2> QED BY <1>1, <1>6, <2>1 DEF GivenAreCopied
  <1> QED BY <1>1, <1>4, <1>7, <1>14, <1>15, <1>16 DEF CprInv

LEMMA ReadDirKeeps ==
  ASSUME CprInv, ReadDir
  PROVE  CprInv'
  <1> DEFINE k == Len(frames)
  <1>1. PICK n \in frames[k].left :
          /\ frames' = [frames EXCEPT ![k].left = @ \ {n}]
          /\ node' = n /\ call' = "stat"
    BY DEF ReadDir, Last
  <1>2. /\ status = "running" /\ call = "readdir"
        /\ UNCHANGED <<kind, dst, pos, buf, missed, status>>
    BY DEF ReadDir, Calls
  <1>3. /\ CprTypes /\ TreeKept /\ ModesLast /\ FramesOK /\ (~ missed => GivenAreCopied)
        /\ frames \in Seq(Frames) /\ k \in Nat /\ k \in 1 .. k
    BY <1>2, WhileRunning, LenProperties DEF CprTypes
  <1>4. \A i \in 1 .. k : frames[i] \in Frames
    BY <1>3, ElementOfSeq
  <1> HIDE DEF k
  <1>5. /\ n \in Nodes /\ dst[n] = Absent /\ n \in Children(frames[k].dir)
    BY <1>1, <1>3 DEF FramesOK, FrameOK, Children, k
  <1> DEFINE f == [frames[k] EXCEPT !.left = @ \ {n}]
  <1>6. f \in Frames /\ f.dir = frames[k].dir /\ f.left = frames[k].left \ {n}
    BY <1>3, <1>4 DEF Frames
  <1>7. frames' = [frames EXCEPT ![k] = f]
    BY <1>1, <1>3, <1>4
  <1> HIDE DEF f
  <1>8. /\ frames' \in Seq(Frames) /\ Len(frames') = k
        /\ frames'[k] = f /\ \A i \in 1 .. k : i # k => frames'[i] = frames[i]
    BY <1>3, <1>6, <1>7, ExceptSeq DEF k
  <1>9. \A i \in 1 .. k : /\ frames'[i].dir = frames[i].dir
                          /\ frames'[i].left \subseteq frames[i].left
    BY <1>6, <1>8
  <1>10. CprTypes' /\ TreeKept' /\ ModesLast'
    BY <1>1, <1>2, <1>3, <1>5, <1>8 DEF CprTypes, TreeKept, ModesLast, Copied, Whole
  <1>11. FramesOK'
    <2>1. ASSUME NEW i \in 1 .. k PROVE FrameOK(i)'
      BY <1>2, <1>3, <1>9 DEF FramesOK, FrameOK, k
    <2>2. \A i \in 1 .. k : i < k =>
            frames'[i + 1].dir \in Children(frames'[i].dir) \ frames'[i].left
      <3> TAKE i \in 1 .. k
      <3> HAVE i < k
      <3>1. i + 1 \in 1 .. k
        BY <1>3
      <3>2. frames[i + 1].dir \in Children(frames[i].dir) \ frames[i].left
        BY <1>3 DEF FramesOK, k
      <3> QED BY <1>9, <3>1, <3>2
    <2> QED BY <1>3, <1>8, <1>9, <2>1, <2>2 DEF FramesOK, k
  <1>12. AtHand'
    <2>1. \A i \in 1 .. k : frames'[i].dir # n
      BY <1>3, <1>5, <1>9 DEF FramesOK, FrameOK, Absent, k
    <2> QED BY <1>1, <1>3, <1>5, <1>6, <1>8, <2>1 DEF AtHand
  <1>13. CallOK' /\ ContentOK'
    BY <1>1, <1>2, <1>5 DEF CallOK, ContentOK
  <1>14. ASSUME ~ missed' PROVE GivenAreCopied'
    <2>1. ASSUME NEW i \in 1 .. k, NEW m \in Children(frames'[i].dir) \ frames'[i].left
          PROVE  \/ Copied(m)'
                 \/ i < k /\ m = frames'[i + 1].dir
                 \/ i = k /\ m = n
      <3> SUFFICES ASSUME ~ (i = k /\ m = n)
                   PROVE  Copied(m)' \/ (i < k /\ m = frames'[i + 1].dir)
        OBVIOUS
      <3>1. m \in Children(frames[i].dir) \ frames[i].left
        BY <1>6, <1>8, <1>9, <2>1
      <3>2. Copied(m) \/ (i < k /\ m = frames[i + 1].dir)
        BY <1>2, <1>3, <1>14, <3>1 DEF GivenAreCopied, k
      <3>3. Copied(m)' = Copied(m)
        BY <1>2 DEF Copied
      <3>4. i < k => i + 1 \in 1 .. k
        BY <1>3
      <3> QED BY <1>9, <3>2, <3>3, <3>4
    <2> QED BY <1>1, <1>8, <2>1 DEF GivenAreCopied
  <1> QED BY <1>2, <1>10, <1>11, <1>12, <1>13, <1>14 DEF CprInv

LEMMA CloseDirKeeps ==
  ASSUME CprInv, CloseDir
  PROVE  CprInv'
  <1> DEFINE k == Len(frames)
  <1>1. /\ status = "running" /\ call = "readdir"
        /\ missed' = (missed \/ frames[k].left # {})
        /\ frames' = Front(frames)
        /\ IF k = 1
             THEN status' = "ok" /\ UNCHANGED <<node, call>>
             ELSE node' = frames[k].dir /\ call' = "chmod" /\ UNCHANGED status
        /\ UNCHANGED <<kind, dst, pos, buf>>
    BY DEF CloseDir, Calls, Last
  <1>2. /\ CprTypes /\ TreeKept /\ ModesLast /\ FramesOK /\ (~ missed => GivenAreCopied)
        /\ frames \in Seq(Frames) /\ k \in Nat /\ k \in 1 .. k
    BY <1>1, WhileRunning, LenProperties DEF CprTypes
  <1>3. \A i \in 1 .. k : frames[i].dir \in Nodes
    <2>1. \A i \in 1 .. k : frames[i] \in Frames
      BY <1>2, ElementOfSeq
    <2> QED BY <2>1 DEF Frames
  <1> HIDE DEF k
  <1>4. /\ frames' \in Seq(Frames) /\ Len(frames') = k - 1
        /\ \A i \in 1 .. k - 1 : frames'[i] = frames[i]
    <2>1. \A i \in 1 .. k - 1 : frames[i] \in Frames
      BY <1>2, ElementOfSeq DEF k
    <2>2. /\ SubSeq(frames, 1, k - 1) \in Seq(Frames)
          /\ Len(SubSeq(frames, 1, k - 1)) = k - 1
          /\ \A i \in 1 .. k - 1 : SubSeq(frames, 1, k - 1)[i] = frames[i]
      BY <1>2, <2>1, SubSeqProperties
    <2> QED BY <1>1, <2>2 DEF Front, k
  <1>5. TreeKept' /\ ModesLast' /\ missed' \in BOOLEAN
    BY <1>1, <1>2 DEF CprTypes, TreeKept, ModesLast, Copied, Whole
  <1>6. ~ missed' => Whole(frames[k].dir) /\ frames[k].left = {} /\ ~ missed
    <2> SUFFICES ASSUME ~ missed', NEW n \in Children(frames[k].dir) PROVE Copied(n)
      BY <1>1, <1>2 DEF Whole, CprTypes
    <2>1. n \in Children(frames[k].dir) \ frames[k].left
      BY <1>1
    <2>2. k \in 1 .. k /\ ~ (k < k)
      BY <1>2
    <2>3. GivenAreCopied /\ call = "readdir"
      <3>1. ~ missed
        BY <1>1
      <3> QED BY <1>1, <1>2, <3>1
    <2> QED BY <2>1, <2>2, <2>3 DEF GivenAreCopied, k
  <1>7. /\ dst[frames[k].dir].kind = "dir" /\ dst[frames[k].dir].mode = "default"
        /\ kind[frames[k].dir] = "dir"
    BY <1>2 DEF FramesOK, FrameOK, k
  <1>8. CASE k = 1
    <2>1. frames[k].dir = Root /\ status' = "ok" /\ UNCHANGED <<node, call>>
      BY <1>1, <1>2, <1>8 DEF FramesOK, k
    <2>2. CprTypes'
      BY <1>1, <1>2, <1>4, <1>5, <2>1 DEF CprTypes
    <2>3. ~ missed' => Copied(Root)' /\ Whole(Root)'
      BY <1>1, <1>6, <1>7, <2>1 DEF Copied, Whole
    <2> QED BY <1>5, <2>1, <2>2, <2>3 DEF CprInv
  <1>9. CASE k # 1
    <2>1. node' = frames[k].dir /\ call' = "chmod" /\ UNCHANGED status
      BY <1>1, <1>9
    <2>2. k - 1 \in 1 .. k - 1 /\ \A i \in 1 .. k - 1 : i \in 1 .. k
      BY <1>2, <1>9
    <2>3. CprTypes'
      BY <1>1, <1>2, <1>3, <1>4, <1>5, <2>1 DEF CprTypes
    <2>4. FramesOK'
      <3>1. ASSUME NEW i \in 1 .. k - 1 PROVE FrameOK(i)'
        BY <1>1, <1>2, <1>4, <2>2 DEF FramesOK, FrameOK, k
      <3>2. \A i \in 1 .. k - 1 : i < k - 1 =>
              frames'[i + 1].dir \in Children(frames'[i].dir) \ frames'[i].left
        BY <1>2, <1>4, <2>2 DEF FramesOK, k
      <3>3. frames'[1].dir = Root
        BY <1>2, <1>4, <2>2 DEF FramesOK, k
      <3>4. \A i, j \in 1 .. k - 1 : frames'[i].dir = frames'[j].dir => i = j
        BY <1>2, <1>4, <2>2 DEF FramesOK, k
      <3> QED BY <1>4, <3>1, <3>2, <3>3, <3>4 DEF FramesOK
    <2>5. AtHand'
      <3>1. frames[k - 1 + 1].dir \in Children(frames[k - 1].dir) \ frames[k - 1].left
        BY <1>2, <2>2 DEF FramesOK, k
      <3>2. \A i \in 1 .. k - 1 : frames[i].dir # frames[k].dir
        BY <1>2, <2>2 DEF FramesOK, k
      <3> QED BY <1>2, <1>4, <2>1, <2>2, <3>1, <3>2 DEF AtHand
    <2>6. CallOK' /\ ContentOK'
      BY <1>1, <1>7, <2>1 DEF CallOK, ContentOK, Absent
    <2>7. ASSUME ~ missed' PROVE GivenAreCopied'
      <3>1. ASSUME NEW i \in 1 .. k - 1, NEW n \in Children(frames'[i].dir) \ frames'[i].left
            PROVE  \/ Copied(n)'
                   \/ i < k - 1 /\ n = frames'[i + 1].dir
                   \/ i = k - 1 /\ n = frames[k].dir
        <4>1. n \in Children(frames[i].dir) \ frames[i].left
          BY <1>4, <3>1
        <4>2. Copied(n) \/ n = frames[i + 1].dir
          BY <1>1, <1>6, <1>2, <2>2, <2>7, <4>1 DEF GivenAreCopied, k
        <4>3. Copied(n)' = Copied(n)
          BY <1>1 DEF Copied
        <4>4. i < k - 1 => i + 1 \in 1 .. k - 1
          BY <1>2
        <4>5. ~ (i < k - 1) => i = k - 1 /\ i + 1 = k
          BY <1>2
        <4> QED BY <1>4, <4>2, <4>3, <4>4, <4>5
      <3>2. Whole(node)'
        BY <1>1, <1>6, <2>1, <2>7 DEF Whole, Copied
      <3> QED BY <1>4, <2>1, <3>1, <3>2 DEF GivenAreCopied
    <2> QED BY <1>5, <1>1, <2>1, <2>3, <2>4, <2>5, <2>6, <2>7 DEF CprInv
  <1> QED BY <1>8, <1>9

LEMMA CprInvStep ==
  ASSUME CprInv, [CprNext]_cprVars
  PROVE  CprInv'
  <1>1. CASE UNCHANGED cprVars
    <2>1. UNCHANGED <<kind, dst, frames, node, call, pos, buf, missed, status>>
      BY <1>1 DEF cprVars, place
    <2>2. CprTypes' /\ TreeKept' /\ ModesLast'
      BY <2>1 DEF CprInv, CprTypes, TreeKept, ModesLast, Copied, Whole
    <2>3. /\ FramesOK => FramesOK'
          /\ AtHand => AtHand'
          /\ CallOK => CallOK'
          /\ ContentOK => ContentOK'
      BY <2>1 DEF FramesOK, FrameOK, AtHand, CallOK, ContentOK
    <2>4. /\ GivenAreCopied => GivenAreCopied'
          /\ Copied(Root) /\ Whole(Root) => Copied(Root)' /\ Whole(Root)'
      BY <2>1 DEF GivenAreCopied, Copied, Whole
    <2> QED BY <2>1, <2>2, <2>3, <2>4 DEF CprInv
  <1> QED BY <1>1, FailsKeeps, OpenDirKeeps, MakeDirKeeps, ReadDirKeeps, CloseDirKeeps,
             StatKeeps, OpenFileKeeps, CreateFileKeeps, ReadFileKeeps, WriteFileKeeps,
             CloseFileKeeps, ChangeModeKeeps DEF CprNext

(* The invariant of the recursive copy: the open directories lie in one      *)
(* another, what they have given is copied, but for the node at hand, and a *)
(* node gets its mode after what is below it (cpr.c, copy_dir, copy_file).  *)
THEOREM CprInvariance == CprSpec => []CprInv
  <1>1. CprInit => CprInv
    BY CprStarts
  <1>2. CprInv /\ [CprNext]_cprVars => CprInv'
    BY CprInvStep
  <1> QED BY <1>1, <1>2, PTL DEF CprSpec

(* What is below a node is in any set that has the node, and the children of *)
(* its own.                                                                  *)
LEMMA UnderClosed ==
  ASSUME NEW d \in Nodes, NEW S \in SUBSET Nodes, d \in S,
         \A n \in S : Children(n) \subseteq S
  PROVE  Under(d) \subseteq S
  BY DEF Under

(* Whatever the tree and the order its entries come in: if no unchecked call *)
(* failed, exit status 0 means a whole copy, and a directory gets its mode   *)
(* only after everything below it is in place (cpr.c, copy_dir, chmod last).  *)
THEOREM CopiesAreFaithful == CprSpec => []FaithfulCopy
  <1>1. CprInv => FaithfulCopy
    <2> SUFFICES ASSUME CprInv, ~ missed PROVE FaithfulCopy
      BY DEF FaithfulCopy
    <2> DEFINE Done == {m \in Nodes : Copied(m) /\ (m # Root => dst[m].mode = "source")}
    <2>1. \A m \in Nodes \ {Root} : dst[m].mode = "source" => m \in Done /\ Whole(m)
      BY DEF CprInv, ModesLast
    <2>2. \A m \in Nodes : Whole(m) => Children(m) \subseteq Done
      BY DEF Whole, Children, Copied
    <2>3. ASSUME NEW n \in Nodes, dst[n].mode = "source", NEW m \in Under(n)
          PROVE  Copied(m)
      <3>1. n # Root
        BY <2>3 DEF CprInv, ModesLast
      <3>2. n \in Done \ {Root} /\ \A k \in Done \ {Root} : Children(k) \subseteq Done \ {Root}
        BY <2>1, <2>2, <2>3, <3>1 DEF Children
      <3>3. Under(n) \subseteq Done \ {Root}
        BY <3>2, UnderClosed
      <3> QED BY <2>3, <3>3
    <2>4. ASSUME status = "ok", NEW n \in Nodes PROVE Copied(n)
      <3>1. Root \in Done /\ Whole(Root)
        BY <2>4, TreeAssumption DEF CprInv
      <3>2. \A k \in Done : Children(k) \subseteq Done
        BY <2>1, <2>2, <3>1
      <3>3. Under(Root) \subseteq Done
        BY <3>1, <3>2, UnderClosed, TreeAssumption
      <3> QED BY <2>4, <3>3, TreeAssumption
    <2> QED BY <2>3, <2>4 DEF FaithfulCopy
  <1> QED BY <1>1, CprInvariance, PTL

-----------------------------------------------------------------------------
(* The count of the words. *)

Found == Words \cup {Junk}   \* what str may hold at a space, if not nothing

Slots == {NULL} \cup [word : Found, occurrence : Nat \ {0}]

WcTypes ==
  /\ text \in Texts
  /\ hash \in [Found -> 0 .. MaxHash]
  /\ phase \in {"scan", "output", "destroy", "done"}
  /\ at \in Nat
  /\ str \in Found \cup {Space} /\ first \in Found \cup {Space}
  /\ size \in Nat /\ (Len(text) > 0 => size > 0)
  /\ items \in [0 .. size - 1 -> Slots]
  /\ printed \in Seq(Slots)

(* The slot of a word is the only one, and those it tried before are taken. *)
HasSlot(w, i) ==
  /\ i \in hash_key(w) .. size - 1 /\ items[i].word = w
  /\ \A j \in 0 .. size - 1 : items[j].word = w => j = i
  /\ \A j \in hash_key(w) .. i - 1 : items[j] # NULL

(* What the table has after n insertions of the word. *)
CountedAs(w, n) ==
  /\ n >= 0
  /\ \/ n > 0 /\ \E i \in 0 .. size - 1 : HasSlot(w, i) /\ items[i].occurrence = n
     \/ /\ \A i \in 0 .. size - 1 : items[i].word # w
        /\ n > 0 => \A i \in hash_key(w) .. size - 1 : items[i] # NULL

Counted(w, n) == CountedAs(w, Inserted(w, n))

(* What a space at n finds in str, Space if it is empty. *)
ReadAt(n) == IF n = 1 \/ (n = 2 /\ text[1] # Space) THEN first ELSE text[n - 1]

(* What was printed comes from the slots before at. *)
FromSlots ==
  \A i \in 1 .. Len(printed) : \E k \in 0 .. size - 1 : k < at /\ printed[i] = items[k]

(* A word is printed once, and with its number. *)
PrintedOK ==
  \A i \in 1 .. Len(printed) :
    /\ \A j \in 1 .. Len(printed) : printed[j].word = printed[i].word => j = i
    /\ printed[i].occurrence = Inserted(printed[i].word, Len(text) + 1)
    /\ printed[i].word \in Found

WcInv ==
  /\ WcTypes
  /\ phase = "scan" => /\ at \in 1 .. Len(text) + 1 /\ str = ReadAt(at)
                       /\ printed = <<>>
                       /\ \A w \in Found : Counted(w, at)
  /\ phase = "output" => /\ \A w \in Found : Counted(w, Len(text) + 1)
                         /\ FromSlots
  /\ PrintedOK

LEMMA TextTypes ==
  ASSUME text \in Texts
  PROVE  /\ Len(text) \in Nat /\ text \in Seq(Words \cup {Space})
         /\ \A i \in 1 .. Len(text) : text[i] \in Words \cup {Space}
         /\ \A i \in 1 .. Len(text) - 1 : text[i] = Space \/ text[i + 1] = Space
         /\ text # <<>> <=> Len(text) > 0
  <1>1. PICK m \in 0 .. MaxText : text \in [1 .. m -> Words \cup {Space}]
    BY DEF Texts, BoundedSeq, SeqOf
  <1>2. text \in Seq(Words \cup {Space}) /\ Len(text) = m /\ m \in Nat
    BY <1>1, WordAssumption, SeqDef, LenProperties
  <1>3. text # <<>> <=> Len(text) > 0
    BY <1>2, EmptySeq
  <1> QED BY <1>1, <1>2, <1>3 DEF Texts

(* A text with an item has a word to count. *)
LEMMA SomeWordCounted ==
  ASSUME text \in Texts
  PROVE  CountWords(text) \in Nat /\ (Len(text) > 0 => CountWords(text) > 0)
  <1> DEFINE S == {i \in 1 .. Len(text) : i = Len(text) \/ (text[i] = Space /\ text[i + 1] # Space)}
  <1>1. Len(text) \in Nat
    BY TextTypes
  <1>2. IsFiniteSet(S) /\ Cardinality(S) \in Nat
    <2>1. IsFiniteSet(1 .. Len(text))
      BY <1>1, FS_Interval
    <2>2. IsFiniteSet(S)
      BY <2>1, FS_Subset
    <2> QED BY <2>2, FS_CardinalityType
  <1>3. ASSUME Len(text) > 0 PROVE Cardinality(S) # 0
    <2>1. Len(text) \in S
      BY <1>1, <1>3
    <2> QED BY <1>2, <2>1, FS_EmptySet
  <1>4. CountWords(text) = Cardinality(S)
    BY DEF CountWords
  <1> HIDE DEF S
  <1> QED BY <1>2, <1>3, <1>4

(* A space counts what it finds in str, and a word counts nothing. *)
LEMMA InsertedStep ==
  ASSUME text \in Texts, NEW w \in Found, NEW n \in 1 .. Len(text)
  PROVE  /\ Inserted(w, n) \in Nat /\ Inserted(w, 1) = 0
         /\ text[n] = Space /\ ReadAt(n) = w => Inserted(w, n + 1) = Inserted(w, n) + 1
         /\ text[n] = Space /\ ReadAt(n) # w => Inserted(w, n + 1) = Inserted(w, n)
         /\ text[n] # Space => Inserted(w, n + 1) = Inserted(w, n)
  <1> DEFINE S(k) == {i \in 2 .. k - 2 : text[i] = w}
             F(k) == IF first = w /\ (k > 2 \/ (k = 2 /\ text[1] = Space)) THEN 1 ELSE 0
  <1>1. /\ n \in Nat /\ n >= 1 /\ w # Space /\ 1 \in 1 .. Len(text)
        /\ n > 1 => n - 1 \in 1 .. Len(text) - 1
        /\ \A i \in 1 .. Len(text) - 1 : text[i] = Space \/ text[i + 1] = Space
    BY TextTypes, WordAssumption DEF Found
  <1>2. ASSUME NEW k \in Nat PROVE IsFiniteSet(S(k)) /\ Cardinality(S(k)) \in Nat
    <2>1. IsFiniteSet(2 .. k - 2)
      BY FS_Interval
    <2>2. IsFiniteSet(S(k))
      BY <2>1, FS_Subset
    <2> QED BY <2>2, FS_CardinalityType
  <1>3. ASSUME NEW k \in Nat, k < 4 PROVE Cardinality(S(k)) = 0
    <2>1. S(k) = {}
      BY <1>3
    <2> QED BY <2>1, FS_EmptySet
  <1>4. ASSUME n > 2, text[n - 1] = w PROVE Cardinality(S(n + 1)) = Cardinality(S(n)) + 1
    <2>1. S(n + 1) = S(n) \cup {n - 1} /\ n - 1 \notin S(n)
      BY <1>1, <1>4
    <2> HIDE DEF S
    <2> QED BY <1>1, <1>2, <2>1, FS_AddElement
  <1>5. ASSUME n > 2, text[n - 1] # w PROVE S(n + 1) = S(n)
    <2>1. S(n) \subseteq S(n + 1)
      BY <1>1
    <2>2. ASSUME NEW i \in S(n + 1) PROVE i \in S(n)
      BY <1>1, <1>5
    <2> QED BY <2>1, <2>2
  <1>6. ASSUME NEW k \in Nat PROVE Inserted(w, k) = Cardinality(S(k)) + F(k)
    BY DEF Inserted
  <1>7. \A k \in Nat : F(k) \in {0, 1}
    OBVIOUS
  <1>8. F(1) = 0 /\ F(n) \in {0, 1} /\ F(n + 1) \in {0, 1}
    BY <1>1
  <1>9. n > 2 => F(n + 1) = F(n)
    BY <1>1
  <1>10. /\ n = 1 => F(n) = 0 /\ F(n + 1) = (IF first = w /\ text[n] = Space THEN 1 ELSE 0)
         /\ n = 2 => /\ F(n) = (IF first = w /\ text[1] = Space THEN 1 ELSE 0)
                     /\ F(n + 1) = (IF first = w THEN 1 ELSE 0)
    OBVIOUS
  <1>11. /\ n = 1 => ReadAt(n) = first
         /\ n = 2 => ReadAt(n) = (IF text[1] # Space THEN first ELSE text[1])
         /\ n > 2 => ReadAt(n) = text[n - 1]
    BY <1>1 DEF ReadAt
  <1>12. n > 1 /\ text[n] # Space => text[n - 1] = Space
    BY <1>1
  <1> HIDE DEF S, F
  <1>13. /\ Inserted(w, n) = Cardinality(S(n)) + F(n)
         /\ Inserted(w, n + 1) = Cardinality(S(n + 1)) + F(n + 1)
         /\ Cardinality(S(n)) \in Nat /\ Cardinality(S(n + 1)) \in Nat
         /\ Inserted(w, 1) = Cardinality(S(1)) + F(1) /\ Cardinality(S(1)) = 0
    <2>1. n + 1 \in Nat /\ 1 \in Nat /\ 1 < 4
      BY <1>1
    <2> QED BY <1>1, <1>2, <1>3, <1>6, <2>1
  <1>14. n < 3 => Cardinality(S(n)) = 0 /\ Cardinality(S(n + 1)) = 0
    <2>1. n + 1 \in Nat /\ (n < 3 => n < 4 /\ n + 1 < 4)
      BY <1>1
    <2> QED BY <1>1, <1>3, <2>1
  <1>15. Inserted(w, 1) = 0 /\ (n < 3 => Inserted(w, n) = F(n) /\ Inserted(w, n + 1) = F(n + 1))
    <2>1. PICK f \in Nat, g \in Nat, h \in Nat : f = F(n) /\ g = F(n + 1) /\ h = F(1)
      BY <1>8
    <2>2. Inserted(w, 1) = 0 + h /\ h = 0
      BY <1>8, <1>13, <2>1
    <2>3. ASSUME n < 3 PROVE Inserted(w, n) = 0 + f /\ Inserted(w, n + 1) = 0 + g
      BY <1>13, <1>14, <2>1, <2>3
    <2> QED BY <2>1, <2>2, <2>3
  <1>16. CASE n < 3
    <2>1. PICK f \in {0, 1}, g \in {0, 1} :
            f = F(n) /\ g = F(n + 1) /\ Inserted(w, n) = f /\ Inserted(w, n + 1) = g
      BY <1>8, <1>15, <1>16
    <2>2. CASE n = 1
      <3>1. f = 0 /\ g = (IF first = w /\ text[n] = Space THEN 1 ELSE 0) /\ ReadAt(n) = first
        BY <1>10, <1>11, <2>1, <2>2
      <3> QED BY <1>15, <2>1, <3>1
    <2>3. CASE n = 2
      <3>1. /\ f = (IF first = w /\ text[1] = Space THEN 1 ELSE 0)
            /\ g = (IF first = w THEN 1 ELSE 0)
            /\ ReadAt(n) = (IF text[1] # Space THEN first ELSE text[1])
            /\ text[n] # Space => text[1] = Space
        BY <1>10, <1>11, <1>12, <2>1, <2>3
      <3> QED BY <1>1, <1>15, <2>1, <3>1
    <2> QED BY <1>1, <1>16, <2>2, <2>3
  <1>17. CASE n > 2
    BY <1>1, <1>4, <1>5, <1>8, <1>9, <1>11, <1>12, <1>13, <1>17
  <1> QED BY <1>1, <1>16, <1>17

(* The slot of a word is one of the table. *)
LEMMA HashInTable ==
  ASSUME WcTypes, size > 0, NEW w \in Found
  PROVE  hash_key(w) \in Nat /\ hash_key(w) < size
  <1>1. hash[w] \in Nat /\ size \in Nat \ {0}
    BY WordAssumption DEF WcTypes, Found
  <1> QED BY <1>1 DEF hash_key

(* The first slot that fits is taken, if there is one. *)
LEMMA InsertWord ==
  ASSUME WcTypes, size > 0, NEW v \in Found, insert_word(v)
  PROVE  \/ /\ items' = items
            /\ \A i \in hash_key(v) .. size - 1 : items[i] # NULL /\ items[i].word # v
         \/ \E s \in hash_key(v) .. size - 1 :
              /\ items[s] = NULL \/ items[s].word = v
              /\ \A j \in hash_key(v) .. s - 1 : items[j] # NULL /\ items[j].word # v
              /\ items' = [items EXCEPT ![s] = [word |-> v, occurrence |-> @.occurrence + 1]]
  <1> DEFINE h == hash_key(v)
             fits == {i \in h .. size - 1 : items[i] = NULL \/ items[i].word = v}
             slot == CHOOSE i \in fits : \A j \in fits : i <= j
  <1>1. h \in Nat /\ size \in Nat
    BY HashInTable DEF WcTypes
  <1>2. IF fits = {}
          THEN UNCHANGED items
          ELSE items' = [items EXCEPT ![slot] = [word |-> v, occurrence |-> @.occurrence + 1]]
    BY DEF insert_word
  <1>3. CASE fits = {}
    BY <1>2, <1>3
  <1>4. CASE fits # {}
    <2>1. fits \subseteq Nat
      BY <1>1
    <2>2. \E i \in fits : \A j \in fits : i <= j
      BY <1>4, <2>1, LeastMember
    <2>3. slot \in fits /\ \A j \in fits : slot <= j
      BY <2>2
    <2> HIDE DEF slot
    <2>4. \A j \in h .. slot - 1 : j \notin fits /\ j \in h .. size - 1
      BY <1>1, <2>3
    <2>5. \A j \in h .. slot - 1 : items[j] # NULL /\ items[j].word # v
      BY <2>4
    <2>6. slot \in h .. size - 1 /\ (items[slot] = NULL \/ items[slot].word = v)
      BY <2>3
    <2>7. items' = [items EXCEPT ![slot] = [word |-> v, occurrence |-> @.occurrence + 1]]
      BY <1>2, <1>4
    <2> HIDE DEF h
    <2> QED BY <2>5, <2>6, <2>7 DEF h
  <1> QED BY <1>3, <1>4

(* What an insertion does to the slots, and to those of the other words.     *)
LEMMA SlotsAfter ==
  ASSUME WcTypes, size > 0, NEW v \in Found, NEW s \in hash_key(v) .. size - 1,
         items[s] = NULL \/ items[s].word = v,
         items' = [items EXCEPT ![s] = [word |-> v, occurrence |-> @.occurrence + 1]]
  PROVE  /\ s \in 0 .. size - 1 /\ items' \in [0 .. size - 1 -> Slots]
         /\ items'[s].word = v /\ items'[s].occurrence = items[s].occurrence + 1
         /\ items'[s] # NULL
         /\ \A i \in 0 .. size - 1 : i # s => items'[i] = items[i]
  <1>1. s \in 0 .. size - 1 /\ items \in [0 .. size - 1 -> Slots]
    BY HashInTable DEF WcTypes
  <1>2. items[s] \in Slots /\ items[s].occurrence \in Nat
    BY <1>1 DEF Slots, NULL
  <1> DEFINE e == [word |-> v, occurrence |-> items[s].occurrence + 1]
  <1>3. e \in Slots /\ e # NULL /\ e.word = v /\ e.occurrence = items[s].occurrence + 1
    <2>1. items[s].occurrence + 1 \in Nat \ {0}
      BY <1>2
    <2>2. v # Space
      BY WordAssumption DEF Found
    <2> QED BY <2>1, <2>2 DEF Slots, NULL
  <1>4. items' = [items EXCEPT ![s] = e]
    BY <1>1
  <1> HIDE DEF e
  <1> QED BY <1>1, <1>3, <1>4

(* An insertion counts its word ... *)
LEMMA InsertCounts ==
  ASSUME WcTypes, size > 0, NEW v \in Found, insert_word(v), UNCHANGED <<hash, size>>,
         NEW n \in Nat, CountedAs(v, n)
  PROVE  items' \in [0 .. size - 1 -> Slots] /\ CountedAs(v, n + 1)'
  <1> DEFINE h == hash_key(v)
  <1>1. /\ h \in Nat /\ h < size /\ size \in Nat /\ h' = h /\ v # Space
        /\ items \in [0 .. size - 1 -> Slots]
    BY HashInTable, WordAssumption DEF WcTypes, hash_key, Found
  <1>2. CASE /\ items' = items
             /\ \A i \in h .. size - 1 : items[i] # NULL /\ items[i].word # v
    <2>1. \A i \in 0 .. size - 1 : items[i].word # v
      BY <1>2 DEF CountedAs, HasSlot
    <2> QED BY <1>1, <1>2, <2>1 DEF CountedAs
  <1>3. ASSUME NEW s \in h .. size - 1,
               items[s] = NULL \/ items[s].word = v,
               \A j \in h .. s - 1 : items[j] # NULL /\ items[j].word # v,
               items' = [items EXCEPT ![s] = [word |-> v, occurrence |-> @.occurrence + 1]]
        PROVE  items' \in [0 .. size - 1 -> Slots] /\ CountedAs(v, n + 1)'
    <2>1. /\ s \in 0 .. size - 1 /\ items' \in [0 .. size - 1 -> Slots]
          /\ items'[s].word = v /\ items'[s].occurrence = items[s].occurrence + 1
          /\ items'[s] # NULL
          /\ \A i \in 0 .. size - 1 : i # s => items'[i] = items[i]
      BY <1>3, SlotsAfter
    <2> HIDE DEF h
    <2>2. items[s].occurrence = n /\ \A j \in 0 .. size - 1 : items[j].word = v => j = s
      <3>1. CASE \E i \in 0 .. size - 1 : HasSlot(v, i) /\ items[i].occurrence = n
        <4>1. PICK i \in 0 .. size - 1 : HasSlot(v, i) /\ items[i].occurrence = n
          BY <3>1
        <4>2. /\ i \in h .. size - 1 /\ items[i].word = v
              /\ \A j \in 0 .. size - 1 : items[j].word = v => j = i
              /\ \A j \in h .. i - 1 : items[j] # NULL
          BY <4>1 DEF HasSlot, h
        <4>3. ~ (s < i)
          <5> SUFFICES ASSUME s < i PROVE FALSE
            OBVIOUS
          <5>1. s \in h .. i - 1
            BY <1>1
          <5>2. items[s].word = v
            BY <1>3, <4>2, <5>1
          <5> QED BY <2>1, <4>2, <5>2
        <4>4. ~ (i < s)
          BY <1>1, <1>3, <4>2
        <4>5. i = s
          BY <1>1, <4>3, <4>4
        <4> QED BY <4>1, <4>2, <4>5
      <3>2. CASE /\ \A i \in 0 .. size - 1 : items[i].word # v
                 /\ n > 0 => \A i \in h .. size - 1 : items[i] # NULL
        <4>1. items[s] = NULL /\ n = 0
          BY <1>3, <2>1, <3>2
        <4> QED BY <3>2, <4>1 DEF NULL
      <3> QED BY <3>1, <3>2 DEF CountedAs, h
    <2>3. /\ \A j \in 0 .. size - 1 : items'[j].word = v => j = s
          /\ \A j \in h .. s - 1 : items'[j] # NULL
      <3>1. \A j \in h .. s - 1 : j \in 0 .. size - 1 /\ j # s
        BY <1>1
      <3> QED BY <1>3, <2>1, <2>2, <3>1
    <2>4. HasSlot(v, s)'
      <3> SUFFICES ASSUME NEW i \in 0 .. size - 1, i = s PROVE HasSlot(v, i)'
        BY <1>1, <2>1
      <3> QED BY <1>1, <1>3, <2>1, <2>3 DEF HasSlot, h
    <2>5. items'[s].occurrence = n + 1 /\ n + 1 > 0 /\ n + 1 >= 0
      BY <2>1, <2>2
    <2> QED BY <2>1, <2>4, <2>5 DEF CountedAs
  <1> QED BY <1>1, <1>2, <1>3, InsertWord

(* ... and no other. *)
LEMMA InsertKeeps ==
  ASSUME WcTypes, size > 0, NEW v \in Found, insert_word(v),
         UNCHANGED <<hash, size>>,
         NEW w \in Found, w # v, NEW n \in Nat, CountedAs(w, n)
  PROVE  CountedAs(w, n)'
  <1> DEFINE h == hash_key(w)
  <1>1. /\ h \in Nat /\ h < size /\ size \in Nat /\ h' = h /\ size' = size /\ w # Space
    BY HashInTable, WordAssumption DEF WcTypes, hash_key, Found
  <1>2. CASE items' = items
    BY <1>1, <1>2 DEF CountedAs, HasSlot
  <1>3. ASSUME NEW s \in hash_key(v) .. size - 1,
               items[s] = NULL \/ items[s].word = v,
               items' = [items EXCEPT ![s] = [word |-> v, occurrence |-> @.occurrence + 1]]
        PROVE  CountedAs(w, n)'
    <2>1. /\ s \in 0 .. size - 1 /\ items'[s].word = v /\ items'[s] # NULL
          /\ \A i \in 0 .. size - 1 : i # s => items'[i] = items[i]
      BY <1>3, SlotsAfter
    <2>2. items[s].word # w
      BY <1>1, <1>3 DEF NULL
    <2>3. \A i \in 0 .. size - 1 : /\ items'[i].word = w <=> items[i].word = w
                                   /\ items'[i].word = w => items'[i] = items[i]
                                   /\ items[i] # NULL => items'[i] # NULL
      BY <2>1, <2>2
    <2> HIDE DEF h
    <2>4. ASSUME NEW i \in 0 .. size - 1, HasSlot(w, i)
          PROVE  HasSlot(w, i)' /\ items'[i].occurrence = items[i].occurrence
      <3>1. \A j \in h .. i - 1 : j \in 0 .. size - 1
        BY <1>1
      <3>2. /\ i \in h .. size - 1 /\ items[i].word = w
            /\ \A j \in 0 .. size - 1 : items[j].word = w => j = i
            /\ \A j \in h .. i - 1 : items[j] # NULL
        BY <2>4 DEF HasSlot, h
      <3>3. /\ i \in h .. size - 1 /\ items'[i].word = w /\ items'[i] = items[i]
            /\ \A j \in 0 .. size - 1 : items'[j].word = w => j = i
            /\ \A j \in h .. i - 1 : items'[j] # NULL
        BY <2>3, <3>1, <3>2
      <3> QED BY <1>1, <3>3 DEF HasSlot, h
    <2>5. (\A i \in h .. size - 1 : items[i] # NULL) => \A i \in h .. size - 1 : items'[i] # NULL
      <3>1. \A i \in h .. size - 1 : i \in 0 .. size - 1
        BY <1>1
      <3> QED BY <2>3, <3>1
    <2>6. CASE n > 0 /\ \E i \in 0 .. size - 1 : HasSlot(w, i) /\ items[i].occurrence = n
      BY <1>1, <2>4, <2>6 DEF CountedAs
    <2>7. CASE /\ \A i \in 0 .. size - 1 : items[i].word # w
               /\ n > 0 => \A i \in h .. size - 1 : items[i] # NULL
      <3>1. /\ \A i \in 0 .. size - 1 : items'[i].word # w
            /\ n > 0 => \A i \in h .. size - 1 : items'[i] # NULL
        BY <2>3, <2>5, <2>7
      <3> QED BY <1>1, <3>1 DEF CountedAs, h
    <2> QED BY <2>6, <2>7 DEF CountedAs, h
  <1> QED BY <1>2, <1>3, InsertWord

(* Where the space is, the count of what str holds goes up, and no other.   *)
LEMMA SpaceCounts ==
  ASSUME WcTypes, at \in 1 .. Len(text) + 1, str = ReadAt(at),
         \A w \in Found : Counted(w, at), ScanSpace
  PROVE  items' \in [0 .. size - 1 -> Slots] /\ \A w \in Found : Counted(w, at)'
  <1>1. /\ at \in 1 .. Len(text) /\ at \in Nat /\ text[at] = Space /\ size > 0 /\ at' = at + 1
        /\ UNCHANGED <<text, hash, first, size>>
        /\ items \in [0 .. size - 1 -> Slots] /\ text \in Texts
        /\ str \in Found \cup {Space} /\ Space \notin Found
    BY TextTypes, WordAssumption DEF ScanSpace, WcTypes, Found
  <1>2. IF str # Space THEN insert_word(str) ELSE UNCHANGED items
    BY DEF ScanSpace
  <1>3. ASSUME NEW w \in Found
        PROVE  /\ Inserted(w, at) \in Nat /\ CountedAs(w, Inserted(w, at))
               /\ w = str => Inserted(w, at + 1) = Inserted(w, at) + 1
               /\ w # str => Inserted(w, at + 1) = Inserted(w, at)
               /\ Inserted(w, at)' = Inserted(w, at + 1)
    <2>1. Inserted(w, at)' = Inserted(w, at + 1)
      BY <1>1 DEF Inserted
    <2> QED BY <1>1, <2>1, InsertedStep DEF Counted
  <1>4. ASSUME NEW w \in Found, NEW n \in Nat, n = Inserted(w, at + 1), CountedAs(w, n)'
        PROVE  Counted(w, at)'
    <2>1. n = Inserted(w, at)'
      BY <1>3, <1>4
    <2> QED BY <1>4, <2>1 DEF Counted, CountedAs
  <1>5. ASSUME str = Space
        PROVE  items' \in [0 .. size - 1 -> Slots] /\ \A w \in Found : Counted(w, at)'
    <2>1. items' = items
      BY <1>2, <1>5
    <2>2. ASSUME NEW w \in Found PROVE Counted(w, at)'
      <3>1. PICK n \in Nat : n = Inserted(w, at) /\ CountedAs(w, n)
        BY <1>3
      <3>2. CountedAs(w, n)'
        BY <1>1, <2>1, <3>1 DEF CountedAs, HasSlot, hash_key
      <3> QED BY <1>1, <1>3, <1>4, <1>5, <3>1, <3>2
    <2> QED BY <1>1, <2>1, <2>2
  <1>6. ASSUME str \in Found
        PROVE  items' \in [0 .. size - 1 -> Slots] /\ \A w \in Found : Counted(w, at)'
    <2>1. insert_word(str)
      BY <1>1, <1>2, <1>6
    <2>2. ASSUME NEW w \in Found, w = str
          PROVE  items' \in [0 .. size - 1 -> Slots] /\ Counted(w, at)'
      <3>1. PICK n \in Nat : n = Inserted(w, at) /\ CountedAs(w, n)
        BY <1>3
      <3>2. items' \in [0 .. size - 1 -> Slots] /\ CountedAs(w, n + 1)'
        BY <1>1, <2>1, <2>2, <3>1, InsertCounts
      <3>3. n + 1 \in Nat /\ n + 1 = Inserted(w, at + 1)
        BY <1>3, <2>2, <3>1
      <3> QED BY <1>4, <3>2, <3>3
    <2>3. ASSUME NEW w \in Found, w # str PROVE Counted(w, at)'
      <3>1. PICK n \in Nat : n = Inserted(w, at) /\ CountedAs(w, n)
        BY <1>3
      <3>2. CountedAs(w, n)'
        BY <1>1, <1>6, <2>1, <2>3, <3>1, InsertKeeps
      <3> QED BY <1>3, <1>4, <2>3, <3>1, <3>2
    <2> QED BY <1>6, <2>2, <2>3
  <1> QED BY <1>1, <1>5, <1>6

LEMMA WcStarts ==
  ASSUME WcInit
  PROVE  WcInv
  <1> USE DEF WcInit
  <1>1. <<>> \in Seq(Slots) /\ Len(printed) = 0
    BY EmptySeq
  <1>2. NULL \in Slots /\ Len(text) \in Nat
    BY TextTypes DEF Slots
  <1>3. WcTypes
    <2>1. first \in Found \cup {Space}
      BY TextTypes, WordAssumption DEF FirstReads, Found
    <2> QED BY <1>1, <1>2, <2>1, SomeWordCounted DEF WcTypes, Found
  <1>4. ASSUME NEW w \in Found PROVE Counted(w, at)
    <2>1. Inserted(w, at) = 0
      <3>1. {i \in 2 .. -1 : text[i] = w} = {} /\ 1 - 2 = -1
        OBVIOUS
      <3>2. Cardinality({i \in 2 .. 1 - 2 : text[i] = w}) = 0
        BY <3>1, FS_EmptySet
      <3>3. ~ (1 > 2 \/ (1 = 2 /\ text[1] = Space))
        OBVIOUS
      <3> QED BY <3>2, <3>3 DEF Inserted
    <2>2. \A i \in 0 .. size - 1 : items[i].word # w
      BY WordAssumption DEF NULL, Found
    <2>3. CountedAs(w, 0)
      BY <2>2 DEF CountedAs
    <2> QED BY <2>1, <2>3 DEF Counted
  <1>5. at \in 1 .. Len(text) + 1 /\ str = ReadAt(at)
    BY <1>2 DEF ReadAt
  <1>6. PrintedOK
    BY <1>1 DEF PrintedOK
  <1> QED BY <1>3, <1>4, <1>5, <1>6 DEF WcInv

LEMMA ScanWordKeeps ==
  ASSUME WcInv, ScanWord
  PROVE  WcInv'
  <1>1. /\ phase = "scan" /\ at <= Len(text) /\ text[at] # Space /\ at' = at + 1
        /\ str' = IF at = 1 THEN first ELSE text[at]
        /\ UNCHANGED <<text, hash, phase, first, size, items, printed>>
    BY DEF ScanWord
  <1>2. /\ WcTypes /\ at \in 1 .. Len(text) + 1 /\ str = ReadAt(at) /\ printed = <<>>
        /\ PrintedOK
        /\ \A w \in Found : Counted(w, at)
    BY <1>1 DEF WcInv
  <1>3. /\ Len(text) \in Nat /\ at \in 1 .. Len(text) /\ at \in Nat
        /\ \A i \in 1 .. Len(text) : text[i] \in Words \cup {Space}
        /\ \A i \in 1 .. Len(text) - 1 : text[i] = Space \/ text[i + 1] = Space
    BY <1>1, <1>2, TextTypes DEF WcTypes
  <1>4. at > 1 => text[at - 1] = Space
    BY <1>1, <1>3
  <1>6. at' > 1 /\ at' - 1 = at /\ at' \in 1 .. Len(text) + 1 /\ at' \in Nat
    BY <1>1, <1>3
  <1>7. str' = ReadAt(at)'
    <2>1. ReadAt(at)' = IF at' = 1 \/ (at' = 2 /\ text[1] # Space) THEN first ELSE text[at' - 1]
      BY <1>1 DEF ReadAt
    <2> QED BY <1>1, <1>3, <1>6, <2>1
  <1>8. WcTypes'
    <2>1. str' \in Found \cup {Space}
      BY <1>1, <1>2, <1>3 DEF WcTypes, Found
    <2> QED BY <1>1, <1>2, <1>3, <1>6, <2>1 DEF WcTypes
  <1>9. ASSUME NEW w \in Found PROVE Counted(w, at)'
    <2>1. Inserted(w, at + 1) = Inserted(w, at) /\ Inserted(w, at) \in Nat
      BY <1>1, <1>2, <1>3, InsertedStep DEF WcTypes
    <2>2. Inserted(w, at)' = Inserted(w, at + 1)
      BY <1>1 DEF Inserted
    <2>3. PICK n \in Nat : n = Inserted(w, at) /\ CountedAs(w, n)
      BY <1>2, <2>1 DEF Counted
    <2>4. CountedAs(w, n)'
      BY <1>1, <2>3 DEF CountedAs, HasSlot, hash_key
    <2>5. n = Inserted(w, at)'
      BY <2>1, <2>2, <2>3
    <2> QED BY <2>4, <2>5 DEF Counted, CountedAs
  <1>10. PrintedOK'
    BY <1>1, <1>2 DEF PrintedOK, Inserted
  <1> QED BY <1>1, <1>2, <1>6, <1>7, <1>8, <1>9, <1>10 DEF WcInv

LEMMA ScanSpaceKeeps ==
  ASSUME WcInv, ScanSpace
  PROVE  WcInv'
  <1>1. /\ phase = "scan" /\ at <= Len(text) /\ text[at] = Space /\ at' = at + 1
        /\ str' = Space
        /\ UNCHANGED <<text, hash, phase, first, size, printed>>
    BY DEF ScanSpace
  <1>2. /\ WcTypes /\ at \in 1 .. Len(text) + 1 /\ str = ReadAt(at) /\ printed = <<>>
        /\ PrintedOK
        /\ \A w \in Found : Counted(w, at)
    BY <1>1 DEF WcInv
  <1>3. Len(text) \in Nat /\ at \in Nat
    BY <1>2, TextTypes DEF WcTypes
  <1>4. items' \in [0 .. size - 1 -> Slots] /\ \A w \in Found : Counted(w, at)'
    BY <1>2, SpaceCounts
  <1>5. at' > 1 /\ at' - 1 = at /\ at' \in 1 .. Len(text) + 1 /\ at' \in Nat
    BY <1>1, <1>2, <1>3
  <1>6. str' = ReadAt(at)'
    <2>1. ReadAt(at)' = IF at' = 1 \/ (at' = 2 /\ text[1] # Space) THEN first ELSE text[at' - 1]
      BY <1>1 DEF ReadAt
    <2> QED BY <1>1, <1>3, <1>5, <2>1
  <1>7. WcTypes'
    BY <1>1, <1>2, <1>4, <1>5 DEF WcTypes
  <1>8. PrintedOK'
    BY <1>1, <1>2 DEF PrintedOK, Inserted
  <1> QED BY <1>1, <1>2, <1>4, <1>5, <1>6, <1>7, <1>8 DEF WcInv

LEMMA ScanEndsKeeps ==
  ASSUME WcInv, ScanEnds
  PROVE  WcInv'
  <1>1. /\ phase = "scan" /\ at > Len(text) /\ phase' = "output" /\ at' = 0
        /\ UNCHANGED <<text, hash, str, first, size, items, printed>>
    BY DEF ScanEnds
  <1>2. /\ WcTypes /\ at \in 1 .. Len(text) + 1 /\ printed = <<>> /\ PrintedOK
        /\ \A w \in Found : Counted(w, at)
    BY <1>1 DEF WcInv
  <1>3. at = Len(text) + 1
    BY <1>1, <1>2, TextTypes DEF WcTypes
  <1>4. ASSUME NEW w \in Found PROVE Counted(w, Len(text) + 1)'
    <2>1. Counted(w, Len(text) + 1)
      BY <1>2, <1>3
    <2> QED BY <1>1, <2>1 DEF Counted, CountedAs, HasSlot, hash_key, Inserted
  <1>5. WcTypes'
    BY <1>1, <1>2 DEF WcTypes
  <1>6. Len(printed') = 0
    BY <1>1, <1>2, EmptySeq
  <1>7. FromSlots' /\ PrintedOK'
    BY <1>6 DEF FromSlots, PrintedOK
  <1> QED BY <1>1, <1>4, <1>5, <1>7 DEF WcInv

LEMMA wc_destroyKeeps ==
  ASSUME WcInv, wc_destroy
  PROVE  WcInv'
  <1>1. /\ phase = "destroy" /\ phase' \in {"destroy", "done"}
        /\ UNCHANGED <<text, hash, str, first, size, printed>>
    BY DEF wc_destroy
  <1>2. WcTypes /\ PrintedOK
    BY DEF WcInv
  <1>3. NULL \in Slots
    BY DEF Slots
  <1>4. at' \in Nat /\ items' \in [0 .. size - 1 -> Slots]
    BY <1>2, <1>3 DEF wc_destroy, WcTypes
  <1>5. WcTypes'
    BY <1>1, <1>2, <1>4 DEF WcTypes
  <1>6. PrintedOK'
    BY <1>1, <1>2 DEF PrintedOK, Inserted
  <1> QED BY <1>1, <1>5, <1>6 DEF WcInv

(* The slot that is printed has its word alone, with its number. *)
LEMMA SlotIsExact ==
  ASSUME WcTypes, NEW w \in Found, NEW n \in Nat, Counted(w, n),
         NEW k \in 0 .. size - 1, items[k].word = w
  PROVE  /\ \A j \in 0 .. size - 1 : items[j].word = w => j = k
         /\ items[k].occurrence = Inserted(w, n)
  <1>1. PICK i \in 0 .. size - 1 : HasSlot(w, i) /\ items[i].occurrence = Inserted(w, n)
    BY DEF Counted, CountedAs
  <1>2. \A j \in 0 .. size - 1 : items[j].word = w => j = i
    BY <1>1 DEF HasSlot
  <1>3. i = k
    BY <1>2
  <1> QED BY <1>1, <1>2, <1>3

LEMMA wc_outputKeeps ==
  ASSUME WcInv, wc_output
  PROVE  WcInv'
  <1>1. /\ phase = "output" /\ UNCHANGED <<text, hash, str, first, size, items>>
        /\ WcTypes /\ FromSlots /\ PrintedOK
        /\ \A w \in Found : Counted(w, Len(text) + 1)
    BY DEF wc_output, WcInv
  <1>2. /\ at \in Nat /\ size \in Nat /\ Len(text) \in Nat /\ printed \in Seq(Slots)
        /\ Len(printed) \in Nat
    BY <1>1, TextTypes, LenProperties DEF WcTypes
  <1>3. \A w \in Found : Counted(w, Len(text) + 1)'
    <2> SUFFICES ASSUME NEW w \in Found PROVE Counted(w, Len(text) + 1)'
      OBVIOUS
    <2>1. Counted(w, Len(text) + 1)
      BY <1>1
    <2> QED BY <1>1, <2>1 DEF Counted, CountedAs, HasSlot, hash_key, Inserted
  <1>4. CASE at >= size
    <2>1. phase' = "destroy" /\ at' = 0 /\ UNCHANGED printed
      BY <1>2, <1>4 DEF wc_output
    <2>2. WcTypes'
      BY <1>1, <2>1 DEF WcTypes
    <2>3. PrintedOK'
      BY <1>1, <2>1 DEF PrintedOK, Inserted
    <2> QED BY <2>1, <2>2, <2>3 DEF WcInv
  <1>5. CASE at < size /\ items[at] = NULL
    <2>1. phase' = "output" /\ at' = at + 1 /\ UNCHANGED printed
      BY <1>1, <1>5 DEF wc_output
    <2>2. WcTypes'
      BY <1>1, <1>2, <2>1 DEF WcTypes
    <2>3. PrintedOK'
      BY <1>1, <2>1 DEF PrintedOK, Inserted
    <2>4. FromSlots'
      BY <1>1, <1>2, <2>1 DEF FromSlots
    <2> QED BY <1>3, <2>1, <2>2, <2>3, <2>4 DEF WcInv
  <1>6. CASE at < size /\ items[at] # NULL
    <2> DEFINE m == Len(printed)
    <2>1. phase' = "output" /\ at' = at + 1 /\ printed' = Append(printed, items[at])
      BY <1>1, <1>6 DEF wc_output
    <2>2. at \in 0 .. size - 1 /\ items[at] \in Slots
      BY <1>1, <1>2, <1>6 DEF WcTypes
    <2> HIDE DEF m
    <2>3. /\ printed' \in Seq(Slots) /\ Len(printed') = m + 1 /\ m \in Nat
          /\ printed'[m + 1] = items[at] /\ \A i \in 1 .. m : printed'[i] = printed[i]
      BY <1>2, <2>1, <2>2, AppendProperties DEF m
    <2>4. WcTypes'
      BY <1>1, <1>2, <2>1, <2>3 DEF WcTypes
    <2>5. FromSlots'
      <3>1. ASSUME NEW i \in 1 .. m + 1
            PROVE  \E k \in 0 .. size - 1 : k < at + 1 /\ printed'[i] = items[k]
        <4>1. CASE i = m + 1
          <5>1. at < at + 1
            BY <1>2
          <5> QED BY <2>2, <2>3, <4>1, <5>1
        <4>2. CASE i \in 1 .. m
          <5>1. PICK k \in 0 .. size - 1 : k < at /\ printed[i] = items[k]
            BY <1>1, <4>2 DEF FromSlots, m
          <5>2. k < at + 1
            BY <1>2, <5>1
          <5> QED BY <2>3, <4>2, <5>1, <5>2
        <4> QED BY <2>3, <3>1, <4>1, <4>2
      <3> QED BY <1>1, <2>1, <2>3, <3>1 DEF FromSlots
    <2>6. items[at].word \in Found
      BY <1>6, <2>2 DEF Slots
    <2>7. ASSUME NEW i \in 1 .. m + 1
          PROVE  /\ \A j \in 1 .. m + 1 : printed'[j].word = printed'[i].word => j = i
                 /\ printed'[i].occurrence = Inserted(printed'[i].word, Len(text) + 1)
                 /\ printed'[i].word \in Found
      <3>1. ASSUME NEW j \in 1 .. m PROVE printed[j].word # items[at].word
        <4> SUFFICES ASSUME printed[j].word = items[at].word PROVE FALSE
          OBVIOUS
        <4>1. PICK k \in 0 .. size - 1 : k < at /\ printed[j] = items[k]
          BY <1>1 DEF FromSlots, m
        <4>2. Counted(items[at].word, Len(text) + 1) /\ Len(text) + 1 \in Nat
          BY <1>1, <1>2, <2>6
        <4>3. k = at
          BY <1>1, <2>2, <2>6, <4>1, <4>2, SlotIsExact
        <4> QED BY <1>2, <4>1, <4>3
      <3>2. CASE i = m + 1
        <4>1. printed'[i] = items[at]
          BY <2>3, <3>2
        <4>2. items[at].occurrence = Inserted(items[at].word, Len(text) + 1)
          <5>1. Counted(items[at].word, Len(text) + 1) /\ Len(text) + 1 \in Nat
            BY <1>1, <1>2, <2>6
          <5> QED BY <1>1, <2>2, <2>6, <5>1, SlotIsExact
        <4>3. \A j \in 1 .. m + 1 : printed'[j].word = printed'[i].word => j = i
          BY <2>3, <3>1, <3>2, <4>1
        <4> QED BY <2>6, <4>1, <4>2, <4>3
      <3>3. CASE i \in 1 .. m
        <4>1. printed'[i] = printed[i] /\ printed[i].word # items[at].word
          BY <2>3, <3>1, <3>3
        <4>2. /\ \A j \in 1 .. m : printed[j].word = printed[i].word => j = i
              /\ printed[i].occurrence = Inserted(printed[i].word, Len(text) + 1)
              /\ printed[i].word \in Found
          BY <1>1, <3>3 DEF PrintedOK, m
        <4>3. \A j \in 1 .. m + 1 : printed'[j].word = printed'[i].word => j = i
          <5> SUFFICES ASSUME NEW j \in 1 .. m + 1, printed'[j].word = printed'[i].word
                       PROVE  j = i
            OBVIOUS
          <5>1. j # m + 1
            BY <2>3, <4>1
          <5>2. j \in 1 .. m
            BY <2>3, <5>1
          <5> QED BY <2>3, <4>1, <4>2, <5>2
        <4> QED BY <4>1, <4>2, <4>3
      <3> QED BY <2>3, <3>2, <3>3
    <2>8. PrintedOK'
      <3>1. Len(text') = Len(text) /\ Len(printed') = m + 1
        BY <1>1, <2>3
      <3>2. ASSUME NEW i \in 1 .. m + 1
            PROVE  printed'[i].occurrence = Inserted(printed[i].word, Len(text) + 1)'
        <4>1. ASSUME NEW w, w = printed'[i].word
              PROVE  Inserted(w, Len(text) + 1) = Inserted(printed[i].word, Len(text) + 1)'
          BY <1>1, <4>1 DEF Inserted
        <4> QED BY <2>7, <4>1
      <3> QED BY <2>7, <3>1, <3>2 DEF PrintedOK
    <2> QED BY <1>1, <1>3, <2>1, <2>4, <2>5, <2>8 DEF WcInv
  <1> QED BY <1>2, <1>4, <1>5, <1>6

LEMMA WcInvStep ==
  ASSUME WcInv, [WcNext]_wcVars
  PROVE  WcInv'
  <1>1. CASE UNCHANGED wcVars
    <2>1. UNCHANGED <<text, hash, phase, at, str, first, size, items, printed>>
      BY <1>1 DEF wcVars
    <2>2. WcTypes' /\ (str = ReadAt(at) => str' = ReadAt(at)') /\ (FromSlots => FromSlots')
      BY <2>1 DEF WcInv, WcTypes, ReadAt, FromSlots
    <2>3. ASSUME NEW w \in Found
          PROVE  /\ Counted(w, at) => Counted(w, at)'
                 /\ Counted(w, Len(text) + 1) => Counted(w, Len(text) + 1)'
      <3>1. ASSUME Counted(w, at) PROVE Counted(w, at)'
        BY <2>1, <3>1 DEF Counted, CountedAs, HasSlot, hash_key, Inserted
      <3>2. ASSUME Counted(w, Len(text) + 1) PROVE Counted(w, Len(text) + 1)'
        BY <2>1, <3>2 DEF Counted, CountedAs, HasSlot, hash_key, Inserted
      <3> QED BY <3>1, <3>2
    <2>4. PrintedOK'
      <3>1. PrintedOK
        BY DEF WcInv
      <3> QED BY <2>1, <3>1 DEF PrintedOK, Inserted
    <2> QED BY <2>1, <2>2, <2>3, <2>4 DEF WcInv
  <1> QED BY <1>1, ScanWordKeeps, ScanSpaceKeeps, ScanEndsKeeps, wc_outputKeeps,
             wc_destroyKeeps DEF WcNext

(* The invariant of wc: each word has one slot at most, the slots before it *)
(* from its own are taken, and its number is how often a space has found it  *)
(* in str (wc.c, wc_init, insert_word).                                     *)
THEOREM WcInvariance == WcSpec => []WcInv
  <1>1. WcInit => WcInv
    BY WcStarts
  <1>2. WcInv /\ [WcNext]_wcVars => WcInv'
    BY WcInvStep
  <1> QED BY <1>1, <1>2, PTL DEF WcSpec

(* For any text and hash function and whatever the stack held, each word is  *)
(* printed once, with the number of times a space found it in str (wc.c,     *)
(* wc_init and wc_output).                                                   *)
THEOREM OutputsAreExact == WcSpec => []OutputIsExact
  <1>1. WcInv => OutputIsExact
    <2> SUFFICES ASSUME WcInv PROVE OutputIsExact
      OBVIOUS
    <2>1. DOMAIN printed = 1 .. Len(printed)
      BY LenProperties DEF WcInv, WcTypes
    <2> QED BY <2>1 DEF WcInv, PrintedOK, OutputIsExact
  <1> QED BY <1>1, WcInvariance, PTL

(* For any text and hash function, a word is left out only if other words    *)
(* have taken all slots from its own to the last (wc.c, insert_word).        *)
THEOREM WordsAreLostOnlyWhenFull == WcSpec => []LostOnlyWhenFull
  <1>1. WcInv => LostOnlyWhenFull
    <2> SUFFICES ASSUME WcInv, phase = "scan", NEW w \in Words, Inserted(w, at) > 0,
                        \A i \in DOMAIN items : items[i].word # w
                 PROVE  \A i \in hash_key(w) .. size - 1 : items[i] # NULL
      BY DEF LostOnlyWhenFull
    <2>1. w \in Found /\ DOMAIN items = 0 .. size - 1 /\ Counted(w, at)
      BY DEF WcInv, WcTypes, Found
    <2>2. \A i \in 0 .. size - 1 : ~ HasSlot(w, i)
      BY <2>1 DEF HasSlot
    <2> QED BY <2>1, <2>2 DEF Counted, CountedAs
  <1> QED BY <1>1, WcInvariance, PTL

=============================================================================
