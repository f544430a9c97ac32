----------------------------- MODULE HttpExchange -----------------------------
(****************************************************************************)
(* Requests and replies between the clients, client.c and client_simple.c,  *)
(* and the workers of the server, request.c, over the buffered I/O of       *)
(* common.c; with fileset.c, which may write the files anew meanwhile.  The *)
(* cache is off (max_cache_size 0) and each connection has its worker.      *)
(*                                                                          *)
(* A step is a system call, or what a thread does up to its next one.  A    *)
(* call of read or write moves any part of what it is asked for.  One that  *)
(* EINTR interrupts moves nothing and is made again: a stuttering step.     *)
(*                                                                          *)
(* A line of a header and a byte of a body are one item each: a line that   *)
(* has come in part has not come, as rio_readlineb has it.                  *)
(****************************************************************************)
EXTENDS Integers, SequencesExt

CONSTANTS Testers,      \* runs of client.c, one thread and one request each
          Simples,      \* runs of client_simple.c
          Original,     \* the bytes of the file that the index describes
          Regenerated,  \* those that another run of fileset.c writes
          SocketSize,   \* the items in flight in one direction
          MayLeave      \* the clients that may be interrupted

Clients == Testers \cup Simples

ASSUME HttpAssumption ==
  /\ SocketSize \in Nat \ {0} /\ Testers \cap Simples = {} /\ MayLeave \subseteq Clients
  /\ Original \in Seq(Nat) /\ Regenerated \in Seq(Nat)

VARIABLES
  asks,      \* "file", or "refused": a name that request_readfile turns down
  cpc,       \* where each client is: "send" "head" "body", or its end: "done",
             \* "failed" an assertion or an I/O error, "left" interrupted
  cout,      \* what is left of its request
  cbuf,      \* what it has read of the header, and behind it
  clen, ccsum,  \* what the header said: length, csum
  cgot,      \* the body, as received
  spc,       \* where each worker is (see below)
  sbuf,      \* what it has read of the request
  ssize, sfd, sdata,  \* file_size, the file behind srcfd, file_buf
  sout,      \* what is left of its reply
  toServer, toClient, \* in flight
  reset,     \* a side was closed with items it had not read
  server,    \* "up", or "exited"
  disk,      \* the file under the name: 0 none, 1 the original, 2 the new one
  written,   \* what the new file contains so far
  gen        \* fileset.c: "idle" "unlinked" "writing" "done"

client == <<asks, cpc, cout, cbuf, clen, ccsum, cgot>>
worker == <<spc, sbuf, ssize, sfd, sdata, sout>>
net == <<toServer, toClient, reset>>
files == <<disk, written, gen>>
httpVars == <<client, worker, net, server, files>>

Item(kind, value) == [kind |-> kind, value |-> value]
BlankLine == Item("blank", 0)
Garbage == 99   \* a byte of memory that malloc left as it was

(* client_send. *)
Request == <<Item("GET", 0), Item("host", 0), BlankLine>>

Csum(bytes) == FoldLeft(LAMBDA sum, b : sum + b, 0, bytes)

Reply(kind, bytes) ==
  <<Item(kind, 0), Item("length", Len(bytes)), Item("csum", Csum(bytes)), BlankLine>>
    \o [i \in DOMAIN bytes |-> Item("byte", bytes[i])]

(* request_error. *)
ErrorReply == Reply("error", <<1>>)

HttpInit ==
  /\ asks \in {f \in [Clients -> {"file", "refused"}] : \A c \in Testers : f[c] = "file"}
  /\ cpc = [c \in Clients |-> "send"]
  /\ cout = [c \in Clients |-> Request]
  /\ cbuf = [c \in Clients |-> <<>>]
  /\ clen = [c \in Clients |-> 0] /\ ccsum = [c \in Clients |-> 0]
  /\ cgot = [c \in Clients |-> <<>>]
  /\ spc = [c \in Clients |-> "head"]
  /\ sbuf = [c \in Clients |-> <<>>]
  /\ ssize = [c \in Clients |-> 0] /\ sfd = [c \in Clients |-> 0]
  /\ sdata = [c \in Clients |-> <<>>] /\ sout = [c \in Clients |-> <<>>]
  /\ toServer = [c \in Clients |-> <<>>] /\ toClient = [c \in Clients |-> <<>>]
  /\ reset = [c \in Clients |-> FALSE]
  /\ server = "up"
  /\ disk = 1 /\ written = <<>> /\ gen = "idle"

-----------------------------------------------------------------------------

ClientOpen(c) == cpc[c] \in {"send", "head", "body"}
ServerOpen(c) == server = "up" /\ spc[c] # "closed"

(* The first n of s, or all it has. *)
FirstOf(s, n) == SubSeq(s, 1, IF n < Len(s) THEN n ELSE Len(s))

Cut(s, k) == <<SubSeq(s, 1, k), SubSeq(s, k + 1, Len(s))>>

(* Where the blank line of a header ends, 0 if it has not arrived. *)
HeadSize(buf) ==
  IF \E i \in DOMAIN buf : buf[i] = BlankLine
    THEN CHOOSE i \in DOMAIN buf : buf[i] = BlankLine ELSE 0

(* Mutant: nothing is written until there is room for all that is left. *)
WriteMutant(from, to, c) ==
  /\ from[c] # <<>> /\ Len(to[c]) + Len(from[c]) <= SocketSize
  /\ from' = [from EXCEPT ![c] = <<>>]
  /\ to' = [to EXCEPT ![c] = @ \o from[c]]

(* rio_write, one turn of its loop. *)
Write(from, to, c) ==
  \E k \in 1 .. Len(from[c]) :
    /\ Len(to[c]) + k <= SocketSize
    /\ from' = [from EXCEPT ![c] = Cut(@, k)[2]]
    /\ to' = [to EXCEPT ![c] = @ \o Cut(from[c], k)[1]]

(* A client ends and its socket is closed. *)
ClientEnds(c, how) ==
  /\ cpc' = [cpc EXCEPT ![c] = how]
  /\ toClient' = [toClient EXCEPT ![c] = <<>>]

(* unix_error, SYS or SIGPIPE in a worker: every connection is closed. *)
ServerExits ==
  /\ server' = "exited"
  /\ reset' = [c \in Clients |-> reset[c] \/ (ServerOpen(c) /\ toServer[c] # <<>>)]
  /\ UNCHANGED <<client, worker, toServer, toClient, files>>

-----------------------------------------------------------------------------
(* The clients.                                                             *)

(* Once the server has closed a write is lost, or it fails. *)
ClientSend(c) ==
  /\ cpc[c] = "send"
  /\ \/ /\ ServerOpen(c)
        /\ Write(cout, toServer, c)
        /\ cpc' = [cpc EXCEPT ![c] = IF cout'[c] = <<>> THEN "head" ELSE "send"]
        /\ UNCHANGED toClient
     \/ /\ ~ServerOpen(c)
        /\ \/ cpc' = [cpc EXCEPT ![c] = "head"] /\ UNCHANGED toClient
           \/ ClientEnds(c, "failed")
        /\ UNCHANGED <<cout, toServer>>
  /\ UNCHANGED <<asks, cbuf, clen, ccsum, cgot, worker, reset, server, files>>

(* The number behind a tag, the last one in the lines of a header, 0 if it   *)
(* is not there.                                                             *)
Tag(kind, lines) ==
  LET found == {i \in DOMAIN lines : lines[i].kind = kind}
  IN IF found = {} THEN 0 ELSE lines[Max(found)].value

Values(items) == [i \in DOMAIN items |-> items[i].value]

(* Mutant: what the read of the blank line brought with it is dropped. *)
HeaderIsMutant(c, lines, rest) ==
  /\ clen' = [clen EXCEPT ![c] = Tag("length", lines)]
  /\ ccsum' = [ccsum EXCEPT ![c] = Tag("csum", lines)]
  /\ cgot' = [cgot EXCEPT ![c] = <<>>]
  /\ cbuf' = [cbuf EXCEPT ![c] = <<>>]
  /\ cpc' = [cpc EXCEPT ![c] = "body"]

(* client_print from the end of the header; rest is left in rio_buf. *)
HeaderIs(c, lines, rest) ==
  /\ clen' = [clen EXCEPT ![c] = Tag("length", lines)]
  /\ ccsum' = [ccsum EXCEPT ![c] = Tag("csum", lines)]
  /\ cgot' = [cgot EXCEPT ![c] = Values(rest)]
  /\ cbuf' = [cbuf EXCEPT ![c] = <<>>]
  /\ cpc' = [cpc EXCEPT ![c] = "body"]

HeadRead(c) ==
  /\ cpc[c] = "head"
  /\ \E k \in 1 .. Len(toClient[c]) :
       LET buf == cbuf[c] \o Cut(toClient[c], k)[1]
           head == HeadSize(buf)
       IN /\ toClient' = [toClient EXCEPT ![c] = Cut(@, k)[2]]
          /\ IF head > 0
               THEN HeaderIs(c, Cut(buf, head)[1], Cut(buf, head)[2])
               ELSE cbuf' = [cbuf EXCEPT ![c] = buf]
                    /\ UNCHANGED <<cpc, clen, ccsum, cgot>>
  /\ UNCHANGED <<asks, cout, worker, toServer, reset, server, files>>

AtEof(c) == toClient[c] = <<>> /\ ~ServerOpen(c)

(* The header ends with the connection, perhaps within its next line. *)
HeadEof(c) ==
  /\ cpc[c] = "head" /\ AtEof(c)
  /\ \E n \in {0, 1} : HeaderIs(c, cbuf[c] \o FirstOf(sout[c], n), <<>>)
  /\ UNCHANGED <<asks, cout, worker, net, server, files>>

BodyRead(c) ==
  /\ cpc[c] = "body"
  /\ \E k \in 1 .. Len(toClient[c]) :
       /\ toClient' = [toClient EXCEPT ![c] = Cut(@, k)[2]]
       /\ cgot' = [cgot EXCEPT ![c] = @ \o Values(Cut(toClient[c], k)[1])]
  /\ UNCHANGED <<asks, cpc, cout, cbuf, clen, ccsum, worker, toServer, reset, server, files>>

(* The assertions at the end of client_print. *)
Asserts(c) ==
  IF c \in Testers
    THEN /\ clen[c] = Len(Original) /\ ccsum[c] = Csum(Original)
         /\ clen[c] = Len(cgot[c]) /\ ccsum[c] = Csum(cgot[c])
    ELSE clen[c] # 0 => clen[c] = Len(cgot[c])

BodyEnd(c) ==
  /\ cpc[c] = "body" /\ AtEof(c)
  /\ ClientEnds(c, IF Asserts(c) THEN "done" ELSE "failed")
  /\ UNCHANGED <<asks, cout, cbuf, clen, ccsum, cgot, worker, toServer, reset, server, files>>

(* A read fails, or the client is interrupted. *)
ClientLeaves(c) ==
  /\ ClientOpen(c)
  /\ \/ reset[c] /\ cpc[c] # "send" /\ ClientEnds(c, "failed")
     \/ c \in MayLeave /\ ClientEnds(c, "left")
  /\ UNCHANGED <<asks, cout, cbuf, clen, ccsum, cgot, worker, toServer, reset, server, files>>

ClientStep(c) ==
  \/ ClientSend(c) \/ HeadRead(c) \/ HeadEof(c) \/ BodyRead(c) \/ BodyEnd(c)

-----------------------------------------------------------------------------
(* The workers: "head" "stat" "open" "read" "send" "closed", or "spin" when  *)
(* the input ends within the header.                                        *)

Working(c, label) == server = "up" /\ spc[c] = label
Goes(c, label) == spc' = [spc EXCEPT ![c] = label]

(* request_init and request_read_headers: every client sends GET. *)
RequestRead(c) ==
  /\ Working(c, "head")
  /\ \E k \in 1 .. Len(toServer[c]) :
       /\ toServer' = [toServer EXCEPT ![c] = Cut(@, k)[2]]
       /\ sbuf' = [sbuf EXCEPT ![c] = @ \o Cut(toServer[c], k)[1]]
       /\ Goes(c, IF HeadSize(sbuf'[c]) > 0 THEN "stat" ELSE "head")
  /\ UNCHANGED <<client, ssize, sfd, sdata, sout, toClient, reset, server, files>>

Answer(c, reply) == Goes(c, "send") /\ sout' = [sout EXCEPT ![c] = reply]

(* The client is gone.  Rio_readlineb returns 0 and leaves buf as it is: a   *)
(* line that was read, and the loop never ends; or, before any, what the     *)
(* stack held, which may be taken for a method, or for an empty line.        *)
RequestEof(c) ==
  /\ Working(c, "head") /\ toServer[c] = <<>> /\ ~ClientOpen(c)
  /\ \/ Goes(c, "spin") /\ UNCHANGED sout
     \/ sbuf[c] = <<>> /\ Answer(c, ErrorReply)   \* 501
     \/ Len(sbuf[c]) <= 1 /\ Goes(c, "stat") /\ UNCHANGED sout
  /\ UNCHANGED <<client, sbuf, ssize, sfd, sdata, net, server, files>>

(* The client broke the connection off: Rio_readlineb calls unix_error. *)
RequestError(c) ==
  /\ Working(c, "head")
  /\ cpc[c] = "left"
  /\ ServerExits

Content(file) == IF file = 1 THEN Original ELSE written

(* request_readfile, up to its open. *)
StatFile(c) ==
  /\ Working(c, "stat")
  /\ IF asks[c] = "refused" \/ disk = 0
       THEN Answer(c, ErrorReply) /\ UNCHANGED ssize
       ELSE /\ ssize' = [ssize EXCEPT ![c] = Len(Content(disk))]
            /\ IF Content(disk) = <<>> THEN Answer(c, Reply("ok", <<>>))
                                       ELSE Goes(c, "open") /\ UNCHANGED sout
  /\ UNCHANGED <<client, sbuf, sfd, sdata, net, server, files>>

OpenFile(c) ==
  /\ Working(c, "open")
  /\ IF disk = 0
       THEN ServerExits
       ELSE /\ sfd' = [sfd EXCEPT ![c] = disk]
            /\ Goes(c, "read")
            /\ UNCHANGED <<client, sbuf, ssize, sdata, sout, net, server, files>>

(* file_buf, of file_size bytes: behind what was read it is as malloc left it. *)
Filled(bytes, n) == bytes \o [i \in 1 .. n - Len(bytes) |-> Garbage]

(* Mutant: the checksum is that of what was read, not of what is sent. *)
ReadFileMutant(c) ==
  /\ Working(c, "read")
  /\ LET data == FirstOf(Content(sfd[c]), ssize[c])
     IN IF Len(data) = ssize[c] \/ data = sdata[c]
          THEN /\ Answer(c, [Reply("ok", Filled(data, ssize[c]))
                               EXCEPT ![3] = Item("csum", Csum(data))])
               /\ UNCHANGED sdata
          ELSE sdata' = [sdata EXCEPT ![c] = data] /\ UNCHANGED <<spc, sout>>
  /\ UNCHANGED <<client, sbuf, ssize, sfd, net, server, files>>

(* Mutant: the file is read to its end, whatever stat said of its size. *)
ReadToEndMutant(c) ==
  /\ Working(c, "read")
  /\ LET data == Content(sfd[c])
     IN IF Len(data) = ssize[c] \/ data = sdata[c]
          THEN /\ Answer(c, Reply("ok", Filled(data, ssize[c])))
               /\ UNCHANGED sdata
          ELSE sdata' = [sdata EXCEPT ![c] = data] /\ UNCHANGED <<spc, sout>>
  /\ UNCHANGED <<client, sbuf, ssize, sfd, net, server, files>>

(* Rio_read: a read gives what the file holds; the loop ends when the buffer *)
(* is full or nothing comes.  request_sendfile then puts the reply together. *)
ReadFile(c) ==
  /\ Working(c, "read")
  /\ LET data == FirstOf(Content(sfd[c]), ssize[c])
     IN IF Len(data) = ssize[c] \/ data = sdata[c]
          THEN /\ Answer(c, Reply("ok", Filled(data, ssize[c])))
               /\ UNCHANGED sdata
          ELSE sdata' = [sdata EXCEPT ![c] = data] /\ UNCHANGED <<spc, sout>>
  /\ UNCHANGED <<client, sbuf, ssize, sfd, net, server, files>>

(* A write to a client that is gone is lost, or it ends the server. *)
SendReply(c) ==
  /\ Working(c, "send") /\ sout[c] # <<>>
  /\ \/ /\ ClientOpen(c)
        /\ Write(sout, toClient, c)
        /\ UNCHANGED <<client, spc, sbuf, ssize, sfd, sdata, toServer, reset, server, files>>
     \/ /\ ~ClientOpen(c)
        /\ \/ /\ sout' = [sout EXCEPT ![c] = <<>>]
              /\ UNCHANGED <<client, spc, sbuf, ssize, sfd, sdata, net, server, files>>
           \/ ServerExits

(* request_destroy. *)
CloseConnection(c) ==
  /\ Working(c, "send") /\ sout[c] = <<>>
  /\ Goes(c, "closed")
  /\ reset' = [reset EXCEPT ![c] = @ \/ toServer[c] # <<>>]
  /\ toServer' = [toServer EXCEPT ![c] = <<>>]
  /\ UNCHANGED <<client, sbuf, ssize, sfd, sdata, sout, toClient, server, files>>

WorkerStep(c) ==
  \/ RequestRead(c) \/ RequestEof(c)
  \/ StatFile(c) \/ OpenFile(c) \/ ReadFile(c) \/ SendReply(c) \/ CloseConnection(c)

-----------------------------------------------------------------------------
(* fileset.c removes the files of the directory and writes new ones.         *)

Unlink ==
  /\ gen = "idle" /\ gen' = "unlinked"
  /\ disk' = 0
  /\ UNCHANGED <<client, worker, net, server, written>>

Create ==
  /\ gen = "unlinked" /\ gen' = "writing"
  /\ disk' = 2
  /\ UNCHANGED <<client, worker, net, server, written>>

WriteFile ==
  /\ gen = "writing"
  /\ IF written = Regenerated
       THEN gen' = "done" /\ UNCHANGED written
       ELSE /\ written' = Append(written, Regenerated[Len(written) + 1])
            /\ UNCHANGED gen
  /\ UNCHANGED <<client, worker, net, server, disk>>

HttpNext ==
  \/ \E c \in Clients : ClientStep(c) \/ ClientLeaves(c) \/ WorkerStep(c) \/ RequestError(c)
  \/ Unlink \/ Create \/ WriteFile

HttpFairness ==
  \A c \in Clients : WF_httpVars(ClientStep(c)) /\ WF_httpVars(WorkerStep(c))

HttpSpec == HttpInit /\ [][HttpNext]_httpVars /\ HttpFairness

-----------------------------------------------------------------------------

(* The type invariant. *)
HttpTypeOK ==
  /\ asks \in [Clients -> {"file", "refused"}]
  /\ cpc \in [Clients -> {"send", "head", "body", "done", "failed", "left"}]
  /\ spc \in [Clients -> {"head", "stat", "open", "read", "send", "closed", "spin"}]
  /\ \A c \in Clients :
       /\ Len(toServer[c]) <= SocketSize /\ Len(toClient[c]) <= SocketSize
       /\ Len(sdata[c]) <= ssize[c]
       /\ clen[c] \in Nat /\ ccsum[c] \in Nat
       /\ cgot[c] \in Seq(Nat)
       /\ sfd[c] \in 0 .. 2
  /\ server \in {"up", "exited"} /\ disk \in 0 .. 2
  /\ gen \in {"idle", "unlinked", "writing", "done"}

Untroubled == gen = "idle" /\ \A c \in Clients : cpc[c] # "left"

(* However the reads and writes of both sides split what is sent: as long as *)
(* no client was interrupted and the files stay as they are, no assertion of *)
(* a client fails, a tester that is done has the bytes of the file, the      *)
(* server stays up and no worker loops.                                      *)
NoFailureOfItsOwn ==
  Untroubled =>
    /\ server = "up"
    /\ \A c \in Clients : cpc[c] # "failed" /\ spc[c] # "spin"
    /\ \A c \in Testers : cpc[c] = "done" => cgot[c] = Original

(* A reply is true to itself even if the file is replaced between stat, open *)
(* and read: when the server had no reason to exit, a client whose           *)
(* assertions fail received as many bytes as the header announced, with the  *)
(* sum that it announced.                                                    *)
ReplyIsConsistent ==
  server = "up" =>
    \A c \in Clients : cpc[c] = "failed" =>
      clen[c] = Len(cgot[c]) /\ ccsum[c] = Csum(cgot[c])

(* Every client ends content, unless one was interrupted or the files        *)
(* were replaced.                                                            *)
EveryClientDone == \A c \in Clients : <>(cpc[c] = "done" \/ ~Untroubled)

=============================================================================
