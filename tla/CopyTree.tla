------------------------------- MODULE CopyTree -------------------------------
(***************************************************************************)
(* cpr.c: the recursive copy of a directory.  A node of the source tree and *)
(* its copy have one name here.  A step is a system call; any of them may   *)
(* fail.  Those whose result is checked then end the program with status 1; *)
(* missed records that one failed whose result is not checked.              *)
(***************************************************************************)
EXTENDS Integers, SequencesExt

CONSTANTS Nodes, Root,
          Parent,   \* of each node but Root
          Content   \* of each node, if it is a regular file

Children(d) == {n \in Nodes \ {Root} : Parent[n] = d}

(* The tree below d: the least set with d, and with the children of its own. *)
Under(d) ==
  {m \in Nodes : \A S \in SUBSET Nodes :
                   d \in S /\ (\A n \in S : Children(n) \subseteq S) => m \in S}

ASSUME TreeAssumption ==
  /\ Root \in Nodes
  /\ Parent \in [Nodes \ {Root} -> Nodes]
  /\ Under(Root) = Nodes
  /\ Content \in [Nodes -> Seq(Nat)]

VARIABLES
  kind,    \* st_mode of the source: "file" "dir" or "other"
  dst,     \* what was made of each node so far
  frames,  \* the calls of copy_dir: its directory, what readdir has not given yet
  node,    \* the node at hand
  call,    \* the next call, on it or on its copy
  pos, buf,  \* copy_file: how much of the source was read, buf[bytes]
  missed,
  status   \* "running", or how it ended: "ok" "failed"

place == <<frames, node, call, pos, buf>>
cprVars == <<kind, dst, place, missed, status>>

Absent == [kind |-> "none", mode |-> "none", content |-> <<>>]
New(k) == [kind |-> k, mode |-> "default", content |-> <<>>]

CprInit ==
  /\ kind \in {k \in [Nodes -> {"file", "dir", "other"}] :
                 k[Root] = "dir" /\ \A n \in Nodes \ {Root} : k[Parent[n]] = "dir"}
  /\ dst = [n \in Nodes |-> Absent]
  /\ frames = <<>> /\ node = Root /\ call = "opendir"
  /\ pos = 0 /\ buf = <<>>
  /\ missed = FALSE /\ status = "running"

Calls(name) == status = "running" /\ call = name

(* syserror: exit(1). *)
Fails ==
  /\ status = "running" /\ call \notin {"readdir", "close"}
  /\ status' = "failed"
  /\ UNCHANGED <<kind, dst, place, missed>>

OpenDir ==
  /\ Calls("opendir")
  /\ call' = "mkdir"
  /\ UNCHANGED <<kind, dst, frames, node, pos, buf, missed, status>>

(* Mutant: the directory is made with the mode of its source. *)
MakeDirMutant ==
  /\ Calls("mkdir")
  /\ dst' = [dst EXCEPT ![node] = [New("dir") EXCEPT !.mode = "source"]]
  /\ frames' = Append(frames, [dir |-> node, left |-> Children(node)])
  /\ call' = "readdir"
  /\ UNCHANGED <<kind, node, pos, buf, missed, status>>

(* It fails if the directory exists: each copy starts with an empty one. *)
MakeDir ==
  /\ Calls("mkdir")
  /\ dst' = [dst EXCEPT ![node] = New("dir")]
  /\ frames' = Append(frames, [dir |-> node, left |-> Children(node)])
  /\ call' = "readdir"
  /\ UNCHANGED <<kind, node, pos, buf, missed, status>>

ReadDir ==
  /\ Calls("readdir")
  /\ \E n \in Last(frames).left :
       /\ frames' = [frames EXCEPT ![Len(frames)].left = @ \ {n}]
       /\ node' = n /\ call' = "stat"
  /\ UNCHANGED <<kind, dst, pos, buf, missed, status>>

(* readdir gives NULL at the end, and likewise when it fails. *)
CloseDir ==
  /\ Calls("readdir")
  /\ missed' = (missed \/ Last(frames).left # {})
  /\ frames' = Front(frames)
  /\ IF Len(frames) = 1
       THEN status' = "ok" /\ UNCHANGED <<node, call>>
       ELSE node' = Last(frames).dir /\ call' = "chmod" /\ UNCHANGED status
  /\ UNCHANGED <<kind, dst, pos, buf>>

(* What is neither a file nor a directory is left out. *)
Stat ==
  /\ Calls("stat")
  /\ call' = CASE kind[node] = "file" -> "open"
               [] kind[node] = "dir" -> "opendir"
               [] kind[node] = "other" -> "chmod"
  /\ UNCHANGED <<kind, dst, frames, node, pos, buf, missed, status>>

OpenFile ==
  /\ Calls("open")
  /\ call' = "creat"
  /\ UNCHANGED <<kind, dst, frames, node, pos, buf, missed, status>>

CreateFile ==
  /\ Calls("creat")
  /\ dst' = [dst EXCEPT ![node] = New("file")]
  /\ pos' = 0 /\ call' = "read"
  /\ UNCHANGED <<kind, frames, node, buf, missed, status>>

(* A read that fails ends the program too, when its -1 comes to write. *)
ReadFile ==
  /\ Calls("read")
  /\ IF pos = Len(Content[node])
       THEN call' = "close" /\ UNCHANGED <<pos, buf>>
       ELSE \E n \in pos + 1 .. Len(Content[node]) :
              /\ buf' = SubSeq(Content[node], pos + 1, n)
              /\ pos' = n
              /\ call' = "write"
  /\ UNCHANGED <<kind, dst, frames, node, missed, status>>

(* A short write is taken for a whole one. *)
WriteFile ==
  /\ Calls("write")
  /\ \E n \in 0 .. Len(buf) :
       /\ dst' = [dst EXCEPT ![node].content = @ \o SubSeq(buf, 1, n)]
       /\ missed' = (missed \/ n < Len(buf))
  /\ call' = "read"
  /\ UNCHANGED <<kind, frames, node, pos, buf, status>>

(* The data of earlier writes may be lost when close fails. *)
CloseFile ==
  /\ Calls("close")
  /\ \/ UNCHANGED <<dst, missed>>
     \/ dst' = [dst EXCEPT ![node].content = <<>>] /\ missed' = TRUE
  /\ call' = "chmod"
  /\ UNCHANGED <<kind, frames, node, pos, buf, status>>

(* It fails if there is no copy. *)
ChangeMode ==
  /\ Calls("chmod") /\ dst[node] # Absent
  /\ dst' = [dst EXCEPT ![node].mode = "source"]
  /\ call' = "readdir"
  /\ UNCHANGED <<kind, frames, node, pos, buf, missed, status>>

CprNext ==
  \/ Fails \/ OpenDir \/ MakeDir \/ ReadDir \/ CloseDir \/ Stat
  \/ OpenFile \/ CreateFile \/ ReadFile \/ WriteFile \/ CloseFile \/ ChangeMode

CprSpec == CprInit /\ [][CprNext]_cprVars

-----------------------------------------------------------------------------

(* Kind and bytes are those of the source, and so is the mode, except that   *)
(* main never sets that of the top directory.                                *)
Copied(n) ==
  /\ dst[n].kind = kind[n]
  /\ kind[n] = "file" => dst[n].content = Content[n]
  /\ n # Root => dst[n].mode = "source"

(* If no unchecked call failed, exit status 0 means a whole copy, in         *)
(* whatever order the entries came; and a directory gets its mode, which may *)
(* forbid writing in it, only after everything below it is in place.         *)
FaithfulCopy ==
  ~missed =>
    /\ status = "ok" => \A n \in Nodes : Copied(n)
    /\ \A n \in Nodes : dst[n].mode = "source" => \A m \in Under(n) : Copied(m)

=============================================================================
