--------------------------- MODULE HttpExchangeProofs ---------------------------
(***************************************************************************)
(* Requests and replies, for any number of clients, any file and any split  *)
(* of what is sent: a reply is true to itself, and no assertion of a client *)
(* fails unless a client was interrupted or the files were replaced.        *)
(***************************************************************************)
EXTENDS HttpExchange, QueueLemmas

Kinds == {"GET", "host", "blank", "ok", "error", "length", "csum", "byte"}
Items == [kind : Kinds, value : Nat]

(* The types of all variables. *)
HttpTypes ==
  /\ asks \in [Clients -> {"file", "refused"}]
  /\ cpc \in [Clients -> {"send", "head", "body", "done", "failed", "left"}]
  /\ spc \in [Clients -> {"head", "stat", "open", "read", "send", "closed", "spin"}]
  /\ cout \in [Clients -> Seq(Items)] /\ cbuf \in [Clients -> Seq(Items)]
  /\ sout \in [Clients -> Seq(Items)] /\ sbuf \in [Clients -> Seq(Items)]
  /\ toServer \in [Clients -> Seq(Items)] /\ toClient \in [Clients -> Seq(Items)]
  /\ clen \in [Clients -> Nat] /\ ccsum \in [Clients -> Nat]
  /\ ssize \in [Clients -> Nat] /\ sfd \in [Clients -> 0 .. 2]
  /\ cgot \in [Clients -> Seq(Nat)] /\ sdata \in [Clients -> Seq(Nat)]
  /\ reset \in [Clients -> BOOLEAN]
  /\ server \in {"up", "exited"} /\ disk \in 0 .. 2
  /\ gen \in {"idle", "unlinked", "writing", "done"}

(* The new file is the beginning of what fileset.c writes. *)
WrittenSoFar ==
  /\ written \in Seq(Nat) /\ Len(written) <= Len(Regenerated)
  /\ \A i \in 1 .. Len(written) : written[i] = Regenerated[i]

(* No buffer overflows: those of the sockets, and file_buf. *)
Bounds(c) ==
  /\ Len(toServer[c]) <= SocketSize /\ Len(toClient[c]) <= SocketSize
  /\ Len(sdata[c]) <= ssize[c]
  /\ spc[c] \in {"head", "stat"} => sdata[c] = <<>>

(* Both sides are there. *)
Talking(c) == server = "up" /\ ClientOpen(c)

(* What the worker has read, what is in flight and what the client still    *)
(* has to send are the request; the worker goes on when it has it all.      *)
RequestFlows(c) ==
  /\ sbuf[c] \o (toServer[c] \o cout[c]) = Request
  /\ cpc[c] = "send" <=> cout[c] # <<>>
  /\ spc[c] # "head" => toServer[c] = <<>> /\ cout[c] = <<>>
  /\ spc[c] # "spin" /\ ~reset[c]

(* The reply, between client and worker, is that of a kind with bytes. *)
InReply(c, kind, bytes) ==
  IF cpc[c] = "body"
    THEN /\ clen[c] = Len(bytes) /\ ccsum[c] = Csum(bytes)
         /\ cgot[c] \o Values(toClient[c] \o sout[c]) = bytes
    ELSE /\ cbuf[c] \o (toClient[c] \o sout[c]) = Reply(kind, bytes)
         /\ Len(cbuf[c]) < 4

ReplyFlows(c) ==
  /\ spc[c] \in {"send", "closed"} =>
       \E kind \in {"ok", "error"}, bytes \in Seq(Nat) :
         /\ InReply(c, kind, bytes)
         /\ Untroubled /\ c \in Testers => bytes = Original
  /\ spc[c] \notin {"send", "closed"} =>
       /\ cbuf[c] = <<>> /\ toClient[c] = <<>> /\ sout[c] = <<>>
       /\ cpc[c] # "body"
  /\ spc[c] = "closed" => sout[c] = <<>>

(* How a connection has ended. *)
EndsWell(c) ==
  /\ server = "up" /\ cpc[c] = "failed" =>
       clen[c] = Len(cgot[c]) /\ ccsum[c] = Csum(cgot[c])
  /\ Untroubled =>
       /\ cpc[c] # "failed"
       /\ ~ClientOpen(c) => spc[c] = "closed"
       /\ c \in Testers /\ cpc[c] = "done" => cgot[c] = Original

(* The file stays as it was. *)
FileStays(c) ==
  /\ c \in Testers => asks[c] = "file"
  /\ Untroubled /\ spc[c] \in {"open", "read"} => ssize[c] = Len(Original)
  /\ Untroubled /\ spc[c] = "read" => sfd[c] = 1

Conn(c) ==
  /\ Bounds(c)
  /\ Talking(c) => RequestFlows(c) /\ ReplyFlows(c)
  /\ EndsWell(c)
  /\ FileStays(c)

(* The inductive invariant. *)
HttpInv ==
  /\ HttpTypes /\ WrittenSoFar
  /\ \A c \in Clients : Conn(c)
  /\ gen = "idle" => disk = 1
  /\ Untroubled => server = "up"

-----------------------------------------------------------------------------
(* What is split and joined. *)

(* The two parts of a sequence, cut behind k, make it up again. *)
Parts(S, s, k, p, q) ==
  /\ p \in Seq(S) /\ Len(p) = k
  /\ q \in Seq(S) /\ Len(q) = Len(s) - k
  /\ \A i \in 1 .. k : p[i] = s[i]
  /\ p \o q = s

LEMMA CutParts ==
  ASSUME NEW S, NEW s \in Seq(S), NEW k \in 0 .. Len(s)
  PROVE  Parts(S, s, k, Cut(s, k)[1], Cut(s, k)[2])
  <1>1. PICK n \in Nat : n = Len(s) /\ DOMAIN s = 1 .. n /\ \A i \in 1 .. n : s[i] \in S
    BY LenProperties, ElementOfSeq
  <1>2. k \in Nat /\ k <= n
    BY <1>1
  <1>3. Cut(s, k)[1] = SubSeq(s, 1, k) /\ Cut(s, k)[2] = SubSeq(s, k + 1, n)
    BY <1>1 DEF Cut
  <1>4. /\ SubSeq(s, 1, k) \in Seq(S) /\ Len(SubSeq(s, 1, k)) = k
        /\ \A i \in 1 .. k : SubSeq(s, 1, k)[i] = s[i]
    <2>1. \A i \in 1 .. k : s[i] \in S
      BY <1>1, <1>2
    <2>2. /\ SubSeq(s, 1, k) \in Seq(S)
          /\ Len(SubSeq(s, 1, k)) = IF 1 <= k THEN k - 1 + 1 ELSE 0
          /\ \A i \in 1 .. k - 1 + 1 : SubSeq(s, 1, k)[i] = s[1 + i - 1]
      BY <1>2, <2>1, SubSeqProperties
    <2> QED BY <1>2, <2>2
  <1>5. SubSeq(s, k + 1, n) \in Seq(S) /\ Len(SubSeq(s, k + 1, n)) = n - k
    <2>1. \A i \in k + 1 .. n : s[i] \in S
      BY <1>1, <1>2
    <2>2. k + 1 \in Int /\ n \in Int
      BY <1>2
    <2>3. /\ SubSeq(s, k + 1, n) \in Seq(S)
          /\ Len(SubSeq(s, k + 1, n)) = IF k + 1 <= n THEN n - (k + 1) + 1 ELSE 0
      BY <2>1, <2>2, SubSeqProperties
    <2>4. (k + 1 <= n => n - (k + 1) + 1 = n - k) /\ (~ k + 1 <= n => n - k = 0)
      BY <1>2
    <2>5. Len(SubSeq(s, k + 1, n)) = n - k
      BY <2>3, <2>4
    <2> QED BY <2>3, <2>5
  <1>6. SubSeq(s, 1, k) \o SubSeq(s, k + 1, n) = s
    <2>1. 1 \in 1 .. Len(s) + 1 /\ k \in 1 - 1 .. Len(s) /\ n \in k .. Len(s)
      BY <1>1, <1>2
    <2>2. SubSeq(s, 1, k) \o SubSeq(s, k + 1, n) = SubSeq(s, 1, n)
      BY <2>1, ConcatAdjacentSubSeq
    <2> QED BY <1>1, <2>2, SubSeqFull
  <1>7. /\ Cut(s, k)[1] \in Seq(S) /\ Len(Cut(s, k)[1]) = k
        /\ Cut(s, k)[2] \in Seq(S) /\ Len(Cut(s, k)[2]) = n - k
        /\ \A i \in 1 .. k : Cut(s, k)[1][i] = s[i]
    BY <1>3, <1>4, <1>5
  <1>8. Cut(s, k)[1] \o Cut(s, k)[2] = s
    BY <1>3, <1>6
  <1> QED BY <1>1, <1>7, <1>8 DEF Parts

(* The start of a sequence. *)
LEMMA FirstParts ==
  ASSUME NEW S, NEW s \in Seq(S), NEW n \in Nat
  PROVE  /\ FirstOf(s, n) \in Seq(S) /\ Len(FirstOf(s, n)) <= n
         /\ Len(s) = n => FirstOf(s, n) = s
  <1>1. PICK m \in 0 .. Len(s) : m = (IF n < Len(s) THEN n ELSE Len(s)) /\ m <= n
    BY LenProperties
  <1>2. FirstOf(s, n) = Cut(s, m)[1]
    BY <1>1 DEF FirstOf, Cut
  <1>3. Len(s) = n => m = Len(s)
    BY <1>1, LenProperties
  <1> QED BY <1>1, <1>2, <1>3, CutParts, SubSeqFull DEF FirstOf

(* The values of items. *)
LEMMA ValuesOf ==
  ASSUME NEW x \in Seq(Items)
  PROVE  /\ Values(x) \in Seq(Nat) /\ Len(Values(x)) = Len(x)
         /\ \A i \in 1 .. Len(x) : Values(x)[i] = x[i].value
  <1>1. PICK n \in Nat : n = Len(x) /\ DOMAIN x = 1 .. n /\ \A i \in 1 .. n : x[i] \in Items
    BY LenProperties, ElementOfSeq
  <1>2. Values(x) = [i \in 1 .. n |-> x[i].value]
    BY <1>1 DEF Values
  <1>3. \A i \in 1 .. n : x[i].value \in Nat
    BY <1>1 DEF Items
  <1> QED BY <1>1, <1>2, <1>3, IsASeq, LenProperties

LEMMA ValuesConcat ==
  ASSUME NEW x \in Seq(Items), NEW y \in Seq(Items)
  PROVE  Values(x \o y) = Values(x) \o Values(y)
  <1>1. PICK m \in Nat : m = Len(x)
    BY LenProperties
  <1>2. PICK n \in Nat : n = Len(y)
    BY LenProperties
  <1>3. PICK z : z = x \o y
    OBVIOUS
  <1>4. z \in Seq(Items) /\ Len(z) = m + n
        /\ \A i \in 1 .. m + n : z[i] = IF i <= m THEN x[i] ELSE y[i - m]
    BY <1>1, <1>2, <1>3, ConcatProperties
  <1>5. /\ Values(x) \in Seq(Nat) /\ Len(Values(x)) = m
        /\ \A i \in 1 .. m : Values(x)[i] = x[i].value
    BY <1>1, ValuesOf
  <1>6. /\ Values(y) \in Seq(Nat) /\ Len(Values(y)) = n
        /\ \A i \in 1 .. n : Values(y)[i] = y[i].value
    BY <1>2, ValuesOf
  <1>7. /\ Values(z) \in Seq(Nat) /\ Len(Values(z)) = m + n
        /\ \A i \in 1 .. m + n : Values(z)[i] = z[i].value
    BY <1>4, ValuesOf
  <1>8. PICK w : w = Values(x) \o Values(y)
    OBVIOUS
  <1>9. /\ w \in Seq(Nat) /\ Len(w) = m + n
        /\ \A i \in 1 .. m + n : w[i] = IF i <= m THEN Values(x)[i] ELSE Values(y)[i - m]
    <2>1. PICK u \in Seq(Nat), v \in Seq(Nat) : u = Values(x) /\ v = Values(y)
      BY <1>5, <1>6
    <2>2. Len(u) = m /\ Len(v) = n
      BY <1>5, <1>6, <2>1
    <2>3. /\ u \o v \in Seq(Nat) /\ Len(u \o v) = Len(u) + Len(v)
          /\ \A i \in 1 .. Len(u) + Len(v) :
               (u \o v)[i] = IF i <= Len(u) THEN u[i] ELSE v[i - Len(u)]
      BY ConcatProperties
    <2> QED BY <1>8, <2>1, <2>2, <2>3
  <1>10. \A i \in 1 .. m + n : Values(z)[i] = w[i]
    <2> SUFFICES ASSUME NEW i \in 1 .. m + n PROVE Values(z)[i] = w[i]
      OBVIOUS
    <2>1. PICK v : v = Values(z)[i]
      OBVIOUS
    <2>2. v = z[i].value
      BY <1>7, <2>1
    <2>3. CASE i <= m
      <3>1. z[i] = x[i] /\ w[i] = Values(x)[i]
        BY <1>4, <1>9, <2>3
      <3>2. i \in 1 .. m
        BY <2>3
      <3>3. Values(x)[i] = x[i].value
        BY <1>5, <3>2
      <3> QED BY <2>1, <2>2, <3>1, <3>3
    <2>4. CASE ~ i <= m
      <3>1. i - m \in 1 .. n
        BY <2>4
      <3>2. z[i] = y[i - m] /\ w[i] = Values(y)[i - m]
        BY <1>4, <1>9, <2>4
      <3>3. Values(y)[i - m] = y[i - m].value
        BY <1>6, <3>1
      <3> QED BY <2>1, <2>2, <3>2, <3>3
    <2> QED BY <2>3, <2>4
  <1>11. Values(z) = w
    BY <1>7, <1>9, <1>10, SeqEqual
  <1> QED BY <1>3, <1>8, <1>11

(* Concatenation by a name, for steps that need no more than its laws. *)
Join(s, t) == s \o t

(* A monoid. *)
LEMMA JoinLaws ==
  ASSUME NEW S
  PROVE  /\ \A s, t \in Seq(S) : Join(s, t) \in Seq(S)
         /\ \A s, t, u \in Seq(S) : Join(Join(s, t), u) = Join(s, Join(t, u))
         /\ \A s \in Seq(S) : Join(s, <<>>) = s /\ Join(<<>>, s) = s
  <1>1. \A s, t \in Seq(S) : Join(s, t) \in Seq(S)
    BY ConcatProperties DEF Join
  <1>2. \A s, t, u \in Seq(S) : Join(Join(s, t), u) = Join(s, Join(t, u))
    BY ConcatAssociative DEF Join
  <1>3. \A s \in Seq(S) : Join(s, <<>>) = s /\ Join(<<>>, s) = s
    BY ConcatEmptySeq DEF Join
  <1> QED BY <1>1, <1>2, <1>3

-----------------------------------------------------------------------------
(* The parts of a message. *)

(* A nonempty set of indices has a greatest one. *)
LEMMA MaxMember ==
  ASSUME NEW n \in Nat, NEW T, T \subseteq 1 .. n, T # {}
  PROVE  Max(T) \in T /\ \A y \in T : y <= Max(T)
  <1> DEFINE D == {n - t : t \in T}
  <1>1. D \subseteq Nat /\ D # {}
    <2>1. \A t \in T : n - t \in Nat
      OBVIOUS
    <2> QED BY <2>1
  <1>2. PICK d \in D : \A e \in D : d <= e
    BY <1>1, LeastMember
  <1>3. PICK x \in T : d = n - x
    OBVIOUS
  <1>4. \A y \in T : x >= y
    <2> SUFFICES ASSUME NEW y \in T PROVE x >= y
      OBVIOUS
    <2>1. n - y \in D
      OBVIOUS
    <2>2. n - x <= n - y
      BY <1>2, <1>3, <2>1
    <2>3. x \in 1 .. n /\ y \in 1 .. n
      OBVIOUS
    <2>4. PICK a \in Nat, b \in Nat : a = x /\ b = y
      BY <2>3
    <2>5. n - a <= n - b
      BY <2>2, <2>4
    <2>6. a >= b
      BY <2>5
    <2> QED BY <2>4, <2>6
  <1>5. \E z \in T : \A y \in T : z >= y
    BY <1>4
  <1>6. Max(T) \in T /\ \A y \in T : Max(T) >= y
    BY <1>5, Zenon DEF Max
  <1>7. PICK z \in T : z = Max(T)
    BY <1>6
  <1>8. \A y \in T : z \in Nat /\ y \in Nat /\ z >= y
    BY <1>6, <1>7
  <1> QED BY <1>7, <1>8

(* A sum over a sequence of naturals is one: the fold is a function on the   *)
(* sets of indices, which exists since it does for the indices up to m.      *)
LEMMA CsumIsNat ==
  ASSUME NEW bytes \in Seq(Nat)
  PROVE  Csum(bytes) \in Nat
  <1>1. PICK n \in Nat : /\ n = Len(bytes) /\ DOMAIN bytes = 1 .. n
                         /\ \A i \in 1 .. n : bytes[i] \in Nat
    BY LenProperties, ElementOfSeq
  <1> DEFINE R(f, S) == IF S = {} THEN 0 ELSE f[S \ {Max(S)}] + bytes[Max(S)]
             Solves(f, m) == f = [S \in SUBSET (1 .. m) |-> R(f, S)]
  <1>2. Csum(bytes) = (CHOOSE f : Solves(f, n))[1 .. n]
    BY <1>1 DEF Csum, FoldLeft, MapThenFoldSet
  <1>3. ASSUME NEW m \in Nat, m < n, NEW S \in SUBSET (1 .. m + 1)
        PROVE  \/ S \in SUBSET (1 .. m)
               \/ /\ S # {} /\ Max(S) = m + 1 /\ S \ {Max(S)} \in SUBSET (1 .. m)
                  /\ bytes[Max(S)] \in Nat
    <2>1. CASE m + 1 \in S
      <3>1. m + 1 \in Nat /\ S \subseteq 1 .. m + 1 /\ S # {}
        BY <2>1
      <3>2. Max(S) \in S /\ \A y \in S : y <= Max(S)
        BY <3>1, MaxMember
      <3>5. Max(S) = m + 1
        <4>1. PICK x : x = Max(S)
          OBVIOUS
        <4>2. x \in 1 .. m + 1 /\ m + 1 <= x
          BY <2>1, <3>1, <3>2, <4>1
        <4>3. x = m + 1
          BY <4>2
        <4> QED BY <4>1, <4>3
      <3>3. m + 1 \in 1 .. n
        BY <1>3
      <3>4. bytes[m + 1] \in Nat
        BY <1>1, <3>3
      <3>6. S \ {m + 1} \in SUBSET (1 .. m)
        OBVIOUS
      <3> QED BY <3>1, <3>4, <3>5, <3>6
    <2>2. CASE m + 1 \notin S
      <3>1. S \in SUBSET (1 .. m)
        BY <2>2
      <3> QED BY <3>1
    <2> QED BY <2>1, <2>2
  <1>4. \E f : f \in [SUBSET (1 .. n) -> Nat] /\ Solves(f, n)
    <2> DEFINE T == {m \in Nat : m <= n =>
                       \E f : f \in [SUBSET (1 .. m) -> Nat] /\ Solves(f, m)}
    <2>1. 0 \in T
      <3>1. PICK f : f = [S \in SUBSET (1 .. 0) |-> 0]
        OBVIOUS
      <3>2. \A S \in SUBSET (1 .. 0) : R(f, S) = 0
        <4> SUFFICES ASSUME NEW S \in SUBSET (1 .. 0) PROVE R(f, S) = 0
          OBVIOUS
        <4>1. S = {}
          OBVIOUS
        <4> QED BY <4>1
      <3> HIDE DEF R
      <3>3. f \in [SUBSET (1 .. 0) -> Nat] /\ Solves(f, 0)
        BY <3>1, <3>2
      <3> QED BY <3>3
    <2>2. ASSUME NEW m \in T \cap Nat PROVE m + 1 \in T
      <3> HIDE DEF R, Solves
      <3> SUFFICES ASSUME m + 1 <= n
                   PROVE  \E f : f \in [SUBSET (1 .. m + 1) -> Nat] /\ Solves(f, m + 1)
        <4>1. m + 1 \in Nat
          OBVIOUS
        <4> QED BY <4>1
      <3>1. m < n /\ m <= n
        OBVIOUS
      <3>2. PICK f : f \in [SUBSET (1 .. m) -> Nat] /\ Solves(f, m)
        BY <3>1
      <3> USE DEF R, Solves
      <3>3. PICK g : g = [S \in SUBSET (1 .. m + 1) |->
                            IF S \in SUBSET (1 .. m) THEN f[S]
                            ELSE f[S \ {m + 1}] + bytes[m + 1]]
        OBVIOUS
      <3>4. \A S \in SUBSET (1 .. m) : S \in SUBSET (1 .. m + 1) /\ g[S] = f[S]
        <4> SUFFICES ASSUME NEW S \in SUBSET (1 .. m)
                     PROVE  S \in SUBSET (1 .. m + 1) /\ g[S] = f[S]
          OBVIOUS
        <4>1. 1 .. m \subseteq 1 .. m + 1
          OBVIOUS
        <4>2. S \in SUBSET (1 .. m + 1)
          BY <4>1
        <4> QED BY <3>3, <4>2
      <3>5. ASSUME NEW S \in SUBSET (1 .. m + 1) PROVE g[S] = R(g, S) /\ g[S] \in Nat
        <4>1. CASE S \in SUBSET (1 .. m)
          <5>1. f[S] = R(f, S) /\ f[S] \in Nat
            <6> HIDE DEF R
            <6> QED BY <3>2, <4>1
          <5>2. S # {} => S \ {Max(S)} \in SUBSET (1 .. m)
            BY <4>1
          <5>3. R(g, S) = R(f, S)
            BY <3>4, <5>2
          <5> HIDE DEF R
          <5> QED BY <3>4, <4>1, <5>1, <5>3
        <4>2. CASE S \notin SUBSET (1 .. m)
          <5>1. /\ S # {} /\ Max(S) = m + 1 /\ S \ {Max(S)} \in SUBSET (1 .. m)
                /\ bytes[Max(S)] \in Nat
            BY <1>3, <3>1, <4>2
          <5>2. g[S] = f[S \ {m + 1}] + bytes[m + 1]
            BY <3>3, <4>2
          <5>3. g[S \ {Max(S)}] = f[S \ {Max(S)}] /\ f[S \ {Max(S)}] \in Nat
            BY <3>2, <3>4, <5>1
          <5>4. g[S] = f[S \ {Max(S)}] + bytes[Max(S)]
            BY <5>1, <5>2
          <5>5. g[S] = g[S \ {Max(S)}] + bytes[Max(S)]
            BY <5>3, <5>4
          <5>6. g[S] \in Nat
            BY <5>1, <5>3, <5>4
          <5> QED BY <5>1, <5>5, <5>6
        <4> QED BY <4>1, <4>2
      <3> HIDE DEF R
      <3>6. g \in [SUBSET (1 .. m + 1) -> Nat] /\ Solves(g, m + 1)
        <4>1. g = [S \in SUBSET (1 .. m + 1) |-> g[S]]
          BY <3>3
        <4>2. Solves(g, m + 1)
          BY <3>5, <4>1
        <4> QED BY <3>5, <4>1, <4>2
      <3> QED BY <3>6
    <2> HIDE DEF T
    <2>3. n \in T
      BY <2>1, <2>2, SetInduction
    <2>4. n <= n
      OBVIOUS
    <2> HIDE DEF R, Solves
    <2> QED BY <2>3, <2>4 DEF T
  <1>5. PICK h : h = (CHOOSE f : Solves(f, n))
    OBVIOUS
  <1>6. \A S \in SUBSET (1 .. n) : h[S] = R(h, S)
    <2> HIDE DEF R
    <2>1. \E f : Solves(f, n)
      BY <1>4
    <2> HIDE DEF Solves
    <2>2. Solves(h, n)
      BY <1>5, <2>1
    <2>3. h = [S \in SUBSET (1 .. n) |-> R(h, S)]
      BY <2>2 DEF Solves
    <2> QED BY <2>3
  <1> HIDE DEF Solves
  <1>7. h[1 .. n] \in Nat
    <2> DEFINE T == {m \in Nat : m <= n => \A S \in SUBSET (1 .. m) : h[S] \in Nat}
    <2>1. 0 \in T
      <3> SUFFICES ASSUME NEW S \in SUBSET (1 .. 0) PROVE h[S] \in Nat
        OBVIOUS
      <3>1. S = {} /\ S \in SUBSET (1 .. n)
        OBVIOUS
      <3>2. h[S] = R(h, S)
        BY <1>6, <3>1
      <3> QED BY <3>1, <3>2
    <2>2. ASSUME NEW m \in T \cap Nat PROVE m + 1 \in T
      <3> SUFFICES ASSUME m + 1 <= n, NEW S \in SUBSET (1 .. m + 1) PROVE h[S] \in Nat
        <4>1. m + 1 \in Nat
          OBVIOUS
        <4> QED BY <4>1
      <3>1. m < n /\ m <= n /\ \A U \in SUBSET (1 .. m) : h[U] \in Nat
        OBVIOUS
      <3>2. CASE S \in SUBSET (1 .. m)
        BY <3>1, <3>2
      <3>3. CASE S \notin SUBSET (1 .. m)
        <4>1. /\ S # {} /\ S \ {Max(S)} \in SUBSET (1 .. m) /\ bytes[Max(S)] \in Nat
          BY <1>3, <3>1, <3>3
        <4>2. h[S \ {Max(S)}] \in Nat
          BY <3>1, <4>1
        <4>3. S \in SUBSET (1 .. n)
          <5>1. 1 .. m + 1 \subseteq 1 .. n
            OBVIOUS
          <5> QED BY <5>1
        <4>4. h[S] = h[S \ {Max(S)}] + bytes[Max(S)]
          BY <1>6, <4>1, <4>3
        <4> QED BY <4>1, <4>2, <4>4
      <3> QED BY <3>2, <3>3
    <2> HIDE DEF T
    <2>3. n \in T
      BY <2>1, <2>2, SetInduction
    <2> QED BY <2>3 DEF T
  <1> QED BY <1>2, <1>5, <1>7

LEMMA ItemsAre ==
  /\ \A kind \in Kinds, value \in Nat : Item(kind, value) \in Items
  /\ \A kind, value : Item(kind, value).kind = kind /\ Item(kind, value).value = value
  /\ BlankLine \in Items /\ BlankLine.kind = "blank"
  BY DEF Item, Items, Kinds, BlankLine

(* A tag is a number. *)
LEMMA TagIsNat ==
  ASSUME NEW lines \in Seq(Items), NEW kind
  PROVE  Tag(kind, lines) \in Nat
  <1>1. PICK n \in Nat : n = Len(lines) /\ DOMAIN lines = 1 .. n
                         /\ \A i \in 1 .. n : lines[i] \in Items
    BY LenProperties, ElementOfSeq
  <1> DEFINE found == {i \in DOMAIN lines : lines[i].kind = kind}
  <1>2. CASE found = {}
    BY <1>2 DEF Tag
  <1>3. CASE found # {}
    <2>1. found \subseteq 1 .. n
      BY <1>1
    <2>2. Max(found) \in found
      BY <1>3, <2>1, MaxMember
    <2>3. lines[Max(found)].value \in Nat
      BY <1>1, <2>2 DEF Items
    <2> QED BY <1>3, <2>3 DEF Tag
  <1> QED BY <1>2, <1>3

(* A tag that is there once. *)
LEMMA TagIs ==
  ASSUME NEW lines \in Seq(Items), NEW kind, NEW j \in DOMAIN lines, lines[j].kind = kind,
         \A i \in DOMAIN lines : lines[i].kind = kind => i = j
  PROVE  Tag(kind, lines) = lines[j].value
  <1> DEFINE found == {i \in DOMAIN lines : lines[i].kind = kind}
  <1>1. found = {j} /\ j \in Nat
    BY LenProperties
  <1>2. Max({j}) = j
    BY <1>1 DEF Max
  <1> QED BY <1>1, <1>2 DEF Tag

(* The end of a header is one of its lines, the first blank one. *)
LEMMA HeadSizeIs ==
  ASSUME NEW buf \in Seq(Items)
  PROVE  /\ HeadSize(buf) \in 0 .. Len(buf)
         /\ HeadSize(buf) > 0 => buf[HeadSize(buf)] = BlankLine
         /\ (\A i \in 1 .. Len(buf) : buf[i] # BlankLine) => HeadSize(buf) = 0
         /\ \A j \in 1 .. Len(buf) :
              buf[j] = BlankLine /\ (\A i \in 1 .. Len(buf) : buf[i] = BlankLine => i = j)
                => HeadSize(buf) = j
  <1>1. PICK n \in Nat : n = Len(buf) /\ DOMAIN buf = 1 .. n
    BY LenProperties
  <1>2. CASE \E i \in DOMAIN buf : buf[i] = BlankLine
    <2>1. PICK h : h = HeadSize(buf)
      OBVIOUS
    <2>2. h \in DOMAIN buf /\ buf[h] = BlankLine
      BY <1>2, <2>1 DEF HeadSize
    <2> QED BY <1>1, <2>1, <2>2
  <1>3. CASE ~ \E i \in DOMAIN buf : buf[i] = BlankLine
    <2>1. HeadSize(buf) = 0
      BY <1>3 DEF HeadSize
    <2> QED BY <1>1, <1>3, <2>1
  <1> QED BY <1>2, <1>3

(* The bytes of a body, as items. *)
ByteItems(bytes) == [i \in DOMAIN bytes |-> Item("byte", bytes[i])]

LEMMA ByteItemsAre ==
  ASSUME NEW bytes \in Seq(Nat)
  PROVE  /\ ByteItems(bytes) \in Seq(Items) /\ Len(ByteItems(bytes)) = Len(bytes)
         /\ \A i \in 1 .. Len(bytes) : ByteItems(bytes)[i] = Item("byte", bytes[i])
         /\ Values(ByteItems(bytes)) = bytes
  <1>1. PICK n \in Nat : /\ n = Len(bytes) /\ DOMAIN bytes = 1 .. n
                         /\ \A i \in 1 .. n : bytes[i] \in Nat
    BY LenProperties, ElementOfSeq
  <1>2. ByteItems(bytes) = [i \in 1 .. n |-> Item("byte", bytes[i])]
    BY <1>1 DEF ByteItems
  <1>3. \A i \in 1 .. n : Item("byte", bytes[i]) \in Items
    BY <1>1, ItemsAre DEF Kinds
  <1>4. PICK b : b = ByteItems(bytes)
    OBVIOUS
  <1>5. b \in Seq(Items) /\ Len(b) = n /\ \A i \in 1 .. n : b[i] = Item("byte", bytes[i])
    BY <1>2, <1>3, <1>4, IsASeq, LenProperties
  <1>6. /\ Values(b) \in Seq(Nat) /\ Len(Values(b)) = n
        /\ \A i \in 1 .. n : Values(b)[i] = b[i].value
    BY <1>5, ValuesOf
  <1>7. \A i \in 1 .. n : Values(b)[i] = bytes[i]
    BY <1>5, <1>6, ItemsAre
  <1>8. Values(b) = bytes
    BY <1>1, <1>6, <1>7, SeqEqual
  <1> QED BY <1>1, <1>4, <1>5, <1>8

(* The header of a reply, and the reply. *)
Header(kind, bytes) ==
  <<Item(kind, 0), Item("length", Len(bytes)), Item("csum", Csum(bytes)), BlankLine>>

(* The four lines of a header. *)
LEMMA HeaderIs4 ==
  ASSUME NEW kind \in {"ok", "error"}, NEW bytes \in Seq(Nat)
  PROVE  /\ Header(kind, bytes) \in Seq(Items) /\ Len(Header(kind, bytes)) = 4
         /\ Header(kind, bytes)[1].kind = kind /\ Header(kind, bytes)[2].kind = "length"
         /\ Header(kind, bytes)[3].kind = "csum" /\ Header(kind, bytes)[4] = BlankLine
         /\ Header(kind, bytes)[2].value = Len(bytes)
         /\ Header(kind, bytes)[3].value = Csum(bytes)
  <1>1. Len(bytes) \in Nat /\ Csum(bytes) \in Nat
    BY LenProperties, CsumIsNat
  <1>2. /\ Item(kind, 0) \in Items /\ Item("length", Len(bytes)) \in Items
        /\ Item("csum", Csum(bytes)) \in Items /\ BlankLine \in Items
    BY <1>1, ItemsAre DEF Kinds
  <1>3. PICK a \in Items, b \in Items, c \in Items, d \in Items :
          /\ a = Item(kind, 0) /\ b = Item("length", Len(bytes))
          /\ c = Item("csum", Csum(bytes)) /\ d = BlankLine
    BY <1>2
  <1>4. Header(kind, bytes) = <<a, b, c, d>>
    BY <1>3 DEF Header
  <1>5. <<a, b, c, d>> \in Seq(Items) /\ Len(<<a, b, c, d>>) = 4
    OBVIOUS
  <1>6. <<a, b, c, d>>[1] = a /\ <<a, b, c, d>>[2] = b /\ <<a, b, c, d>>[3] = c /\ <<a, b, c, d>>[4] = d
    OBVIOUS
  <1> QED BY <1>3, <1>4, <1>5, <1>6, ItemsAre

LEMMA ReplyIs ==
  ASSUME NEW kind \in {"ok", "error"}, NEW bytes \in Seq(Nat)
  PROVE  /\ Reply(kind, bytes) \in Seq(Items) /\ Len(Reply(kind, bytes)) = 4 + Len(bytes)
         /\ Reply(kind, bytes) = Header(kind, bytes) \o ByteItems(bytes)
  <1>1. Reply(kind, bytes) = Header(kind, bytes) \o ByteItems(bytes)
    BY DEF Reply, Header, ByteItems
  <1>2. /\ Header(kind, bytes) \in Seq(Items) /\ Len(Header(kind, bytes)) = 4
        /\ ByteItems(bytes) \in Seq(Items) /\ Len(ByteItems(bytes)) = Len(bytes)
    BY HeaderIs4, ByteItemsAre
  <1>3. PICK h \in Seq(Items), b \in Seq(Items) :
          h = Header(kind, bytes) /\ b = ByteItems(bytes)
    BY <1>2
  <1>4. h \o b \in Seq(Items) /\ Len(h \o b) = Len(h) + Len(b)
    BY ConcatProperties
  <1> QED BY <1>1, <1>2, <1>3, <1>4

LEMMA CancelLeft ==
  ASSUME NEW S, NEW s \in Seq(S), NEW t \in Seq(S), NEW v \in Seq(S), s \o t = s \o v
  PROVE  t = v
  BY ConcatSimplifications

(* b holds the header of a reply, and r follows; the body is bytes. *)
HasHeader(b, r, bytes) ==
  /\ HeadSize(b) = 4
  /\ Tag("length", Cut(b, 4)[1]) = Len(bytes)
  /\ Tag("csum", Cut(b, 4)[1]) = Csum(bytes)
  /\ Values(Cut(b, 4)[2] \o r) = bytes

(* What has arrived of a reply, b, decides about its header and its body. *)
LEMMA HeadOfReply ==
  ASSUME NEW kind \in {"ok", "error"}, NEW bytes \in Seq(Nat),
         NEW b \in Seq(Items), NEW r \in Seq(Items), b \o r = Reply(kind, bytes)
  PROVE  /\ Len(b) < 4 => HeadSize(b) = 0
         /\ ~ Len(b) < 4 => HasHeader(b, r, bytes)
  <1>1. PICK m \in Nat, n \in Nat :
          /\ m = Len(b) /\ DOMAIN b = 1 .. m /\ n = Len(bytes) /\ Len(r) \in Nat
    BY LenProperties
  <1>2. PICK h \in Seq(Items), y \in Seq(Items) :
          h = Header(kind, bytes) /\ y = ByteItems(bytes)
    BY HeaderIs4, ByteItemsAre
  <1>3. /\ Len(h) = 4 /\ DOMAIN h = 1 .. 4
        /\ h[1].kind = kind /\ h[2].kind = "length" /\ h[3].kind = "csum" /\ h[4] = BlankLine
        /\ h[2].value = Len(bytes) /\ h[3].value = Csum(bytes)
    BY <1>2, HeaderIs4, LenProperties
  <1>4. Len(y) = n /\ \A i \in 1 .. n : y[i] = Item("byte", bytes[i])
    BY <1>1, <1>2, ByteItemsAre
  <1>5. b \o r = h \o y
    BY <1>2, ReplyIs
  <1>6. /\ Len(b \o r) = m + Len(r) /\ \A i \in 1 .. m : (b \o r)[i] = b[i]
    <2>1. /\ Len(b \o r) = Len(b) + Len(r)
          /\ \A i \in 1 .. Len(b) + Len(r) :
               (b \o r)[i] = IF i <= Len(b) THEN b[i] ELSE r[i - Len(b)]
      BY ConcatProperties
    <2> QED BY <1>1, <2>1
  <1>7. /\ Len(h \o y) = 4 + n
        /\ \A i \in 1 .. 4 + n : (h \o y)[i] = IF i <= 4 THEN h[i] ELSE y[i - 4]
    <2>1. /\ Len(h \o y) = Len(h) + Len(y)
          /\ \A i \in 1 .. Len(h) + Len(y) :
               (h \o y)[i] = IF i <= Len(h) THEN h[i] ELSE y[i - Len(h)]
      BY ConcatProperties
    <2> QED BY <1>3, <1>4, <2>1
  <1>8. m <= 4 + n
    BY <1>1, <1>5, <1>6, <1>7
  <1>9. \A i \in 1 .. m : i <= 4 => b[i] = h[i]
    <2> SUFFICES ASSUME NEW i \in 1 .. m, i <= 4 PROVE b[i] = h[i]
      OBVIOUS
    <2>1. i \in 1 .. 4 + n
      BY <1>8
    <2>2. (h \o y)[i] = h[i]
      BY <1>7, <2>1
    <2> QED BY <1>5, <1>6, <2>2
  <1>10. \A i \in 1 .. m : b[i] = BlankLine => i = 4
    <2> SUFFICES ASSUME NEW i \in 1 .. m, b[i] = BlankLine PROVE i = 4
      OBVIOUS
    <2>1. b[i].kind = "blank"
      BY ItemsAre
    <2>2. CASE i <= 4
      <3>1. i \in {1, 2, 3, 4} /\ b[i] = h[i]
        BY <1>9, <2>2
      <3> QED BY <1>3, <2>1, <3>1
    <2>3. CASE ~ i <= 4
      <3>1. i \in 1 .. 4 + n /\ i - 4 \in 1 .. n
        BY <1>8, <2>3
      <3>2. (h \o y)[i] = y[i - 4]
        BY <1>7, <2>3, <3>1
      <3>3. b[i] = Item("byte", bytes[i - 4])
        BY <1>4, <1>5, <1>6, <3>1, <3>2
      <3>4. b[i].kind = "byte"
        BY <3>3, ItemsAre
      <3> QED BY <2>1, <3>4
    <2> QED BY <2>2, <2>3
  <1>11. CASE m < 4
    <2>1. \A i \in 1 .. Len(b) : b[i] # BlankLine
      BY <1>1, <1>10, <1>11
    <2>2. HeadSize(b) = 0
      BY <2>1, HeadSizeIs
    <2> QED BY <1>1, <1>11, <2>2
  <1>12. CASE ~ m < 4
    <2>1. 4 \in 1 .. m /\ b[4] = BlankLine
      BY <1>3, <1>9, <1>12
    <2>2. HeadSize(b) = 4
      BY <1>1, <1>10, <2>1, HeadSizeIs
    <2>3. 4 \in 0 .. Len(b)
      BY <1>1, <2>1
    <2>4. PICK p \in Seq(Items), q \in Seq(Items) :
            /\ p = Cut(b, 4)[1] /\ q = Cut(b, 4)[2] /\ p \o q = b
            /\ Len(p) = 4 /\ \A i \in 1 .. 4 : p[i] = b[i]
      <3>1. PICK k \in 0 .. Len(b) : k = 4
        BY <2>3
      <3>2. Parts(Items, b, k, Cut(b, k)[1], Cut(b, k)[2])
        BY CutParts
      <3>3. Parts(Items, b, 4, Cut(b, 4)[1], Cut(b, 4)[2])
        BY <3>1, <3>2
      <3> QED BY <3>3 DEF Parts
    <2>5. \A i \in 1 .. 4 : p[i] = h[i]
      <3> SUFFICES ASSUME NEW i \in 1 .. 4 PROVE p[i] = h[i]
        OBVIOUS
      <3>1. i \in 1 .. m /\ i <= 4
        BY <1>12
      <3>2. b[i] = h[i]
        BY <1>9, <3>1
      <3>3. p[i] = b[i]
        BY <2>4
      <3> QED BY <3>2, <3>3
    <2>6. p = h
      <3>1. Len(p) = Len(h) /\ \A i \in 1 .. Len(p) : p[i] = h[i]
        BY <1>3, <2>4, <2>5
      <3> QED BY <3>1, SeqEqual
    <2>7. Tag("length", p) = Len(bytes)
      <3>1. \A i \in DOMAIN h : h[i].kind = "length" => i = 2
        BY <1>3, ItemsAre
      <3>2. 2 \in DOMAIN h /\ h[2].kind = "length"
        BY <1>3
      <3>3. Tag("length", h) = h[2].value
        BY <3>1, <3>2, TagIs
      <3> QED BY <1>3, <2>6, <3>3
    <2>8. Tag("csum", p) = Csum(bytes)
      <3>1. \A i \in DOMAIN h : h[i].kind = "csum" => i = 3
        BY <1>3, ItemsAre
      <3>2. 3 \in DOMAIN h /\ h[3].kind = "csum"
        BY <1>3
      <3>3. Tag("csum", h) = h[3].value
        BY <3>1, <3>2, TagIs
      <3> QED BY <1>3, <2>6, <3>3
    <2>9. q \o r = y
      <3>1. PICK w \in Seq(Items) : w = q \o r
        BY ConcatProperties
      <3>2. Join(Join(p, q), r) = Join(p, Join(q, r))
        BY JoinLaws
      <3>3. Join(p, w) = Join(h, y)
        BY <1>5, <2>4, <3>1, <3>2 DEF Join
      <3>4. h \o w = h \o y
        BY <2>6, <3>3 DEF Join
      <3>5. w = y
        BY <3>4, CancelLeft
      <3> QED BY <3>1, <3>5
    <2>10. Values(q \o r) = bytes
      BY <1>2, <2>9, ByteItemsAre
    <2>11. HasHeader(b, r, bytes)
      BY <2>2, <2>4, <2>7, <2>8, <2>10 DEF HasHeader
    <2> QED BY <1>1, <1>12, <2>11
  <1> QED BY <1>11, <1>12

(* Nothing follows the blank line of a request. *)
LEMMA HeadOfRequest ==
  /\ Request \in Seq(Items) /\ Len(Request) = 3 /\ Request # <<>>
  /\ \A b, r \in Seq(Items) : b \o r = Request /\ HeadSize(b) > 0 => r = <<>>
  <1>1. Item("GET", 0) \in Items /\ Item("host", 0) \in Items /\ BlankLine \in Items
    BY ItemsAre DEF Kinds
  <1>2. PICK x \in Items, y \in Items, z \in Items :
          x = Item("GET", 0) /\ y = Item("host", 0) /\ z = BlankLine
    BY <1>1
  <1>3. Request = <<x, y, z>>
    BY <1>2 DEF Request
  <1>4. Request \in Seq(Items) /\ Len(Request) = 3 /\ Request # <<>>
    BY <1>3
  <1>5. Request[1].kind = "GET" /\ Request[2].kind = "host"
    BY <1>2, <1>3, ItemsAre
  <1>6. ASSUME NEW b \in Seq(Items), NEW r \in Seq(Items),
               b \o r = Request, HeadSize(b) > 0
        PROVE  r = <<>>
    <2>1. PICK m \in Nat, n \in Nat : m = Len(b) /\ n = Len(r)
      BY LenProperties
    <2>2. /\ Len(b \o r) = m + n /\ \A i \in 1 .. m : (b \o r)[i] = b[i]
      <3>1. /\ Len(b \o r) = Len(b) + Len(r)
            /\ \A i \in 1 .. Len(b) + Len(r) :
                 (b \o r)[i] = IF i <= Len(b) THEN b[i] ELSE r[i - Len(b)]
        BY ConcatProperties
      <3> QED BY <2>1, <3>1
    <2>3. PICK k \in 1 .. m : b[k] = BlankLine
      <3>1. HeadSize(b) \in 0 .. Len(b) /\ b[HeadSize(b)] = BlankLine
        BY <1>6, HeadSizeIs
      <3>2. HeadSize(b) \in 1 .. m
        BY <1>6, <2>1, <3>1
      <3> QED BY <3>1, <3>2
    <2>4. m + n = 3 /\ Request[k].kind = "blank"
      BY <1>4, <1>6, <2>2, <2>3, ItemsAre
    <2>5. k # 1 /\ k # 2
      BY <1>5, <2>4
    <2>6. n = 0
      BY <2>3, <2>4, <2>5
    <2> QED BY <2>1, <2>6, EmptySeq
  <1> QED BY <1>4, <1>6

-----------------------------------------------------------------------------
(* The steps: one connection moves, the others stay as they are. *)

Kept(d) ==
  /\ asks'[d] = asks[d] /\ cpc'[d] = cpc[d] /\ spc'[d] = spc[d]
  /\ cout'[d] = cout[d] /\ cbuf'[d] = cbuf[d] /\ sout'[d] = sout[d] /\ sbuf'[d] = sbuf[d]
  /\ toServer'[d] = toServer[d] /\ toClient'[d] = toClient[d]
  /\ clen'[d] = clen[d] /\ ccsum'[d] = ccsum[d] /\ cgot'[d] = cgot[d]
  /\ ssize'[d] = ssize[d] /\ sfd'[d] = sfd[d] /\ sdata'[d] = sdata[d]

(* What nobody disturbs stays true, also when the server exits. *)
LEMMA FrameConn ==
  ASSUME NEW d \in Clients, Conn(d), Kept(d), Untroubled' => Untroubled,
         \/ server' = server /\ reset'[d] = reset[d]
         \/ server' = "exited" /\ ~ Untroubled
  PROVE  Conn(d)'
  <1>1. Bounds(d)'
    BY DEF Conn, Bounds, Kept
  <1>2. ClientOpen(d)' <=> ClientOpen(d)
    BY DEF ClientOpen, Kept
  <1>3. ASSUME Talking(d)' PROVE RequestFlows(d)' /\ ReplyFlows(d)'
    <2>1. server' = server /\ reset'[d] = reset[d] /\ Talking(d)
      BY <1>2, <1>3 DEF Talking
    <2>2. RequestFlows(d) /\ ReplyFlows(d)
      BY <2>1 DEF Conn
    <2>3. RequestFlows(d)'
      BY <2>1, <2>2 DEF RequestFlows, Kept
    <2>4. ASSUME NEW kind, NEW bytes, InReply(d, kind, bytes) PROVE InReply(d, kind, bytes)'
      BY <2>4 DEF InReply, Kept
    <2>5. spc'[d] \in {"send", "closed"} =>
            \E kind \in {"ok", "error"}, bytes \in Seq(Nat) :
              /\ InReply(d, kind, bytes)'
              /\ Untroubled' /\ d \in Testers => bytes = Original
      <3> SUFFICES ASSUME spc'[d] \in {"send", "closed"}
                   PROVE  \E kind \in {"ok", "error"}, bytes \in Seq(Nat) :
                            /\ InReply(d, kind, bytes)'
                            /\ Untroubled' /\ d \in Testers => bytes = Original
        OBVIOUS
      <3>1. spc[d] \in {"send", "closed"}
        BY DEF Kept
      <3>2. PICK kind \in {"ok", "error"}, bytes \in Seq(Nat) :
              /\ InReply(d, kind, bytes)
              /\ Untroubled /\ d \in Testers => bytes = Original
        BY <2>2, <3>1 DEF ReplyFlows
      <3>3. InReply(d, kind, bytes)'
        BY <2>4, <3>2
      <3> QED BY <3>2, <3>3
    <2>6. spc'[d] \notin {"send", "closed"} =>
            /\ cbuf'[d] = <<>> /\ toClient'[d] = <<>> /\ sout'[d] = <<>> /\ cpc'[d] # "body"
      BY <2>2 DEF ReplyFlows, Kept
    <2>7. spc'[d] = "closed" => sout'[d] = <<>>
      BY <2>2 DEF ReplyFlows, Kept
    <2> QED BY <2>3, <2>5, <2>6, <2>7 DEF ReplyFlows
  <1>4. EndsWell(d)'
    BY <1>2 DEF Conn, EndsWell, Kept
  <1>5. FileStays(d)'
    BY DEF Conn, FileStays, Kept
  <1> QED BY <1>1, <1>3, <1>4, <1>5 DEF Conn

(* What a step at connection c has to be shown to do. *)
StepAt(c) ==
  /\ HttpTypes' /\ Conn(c)'
  /\ \A d \in Clients \ {c} : Kept(d) /\ reset'[d] = reset[d] /\ cpc'[d] = cpc[d]
  /\ cpc[c] = "left" => cpc'[c] = "left"
  /\ server' = server /\ UNCHANGED files

(* If a step keeps nobody from having left, it was untroubled before. *)
LEMMA WasUntroubled ==
  ASSUME NEW c \in Clients, \A d \in Clients \ {c} : cpc'[d] = cpc[d],
         cpc[c] = "left" => cpc'[c] = "left", gen' = gen, Untroubled'
  PROVE  Untroubled
  BY DEF Untroubled

(* A step at one connection keeps the invariant. *)
LEMMA StepAtKeeps ==
  ASSUME HttpInv, NEW c \in Clients, StepAt(c)
  PROVE  HttpInv'
  <1>1. Untroubled' => Untroubled
    BY WasUntroubled DEF StepAt, files
  <1>2. disk' = disk /\ written' = written /\ gen' = gen /\ server' = server
    BY DEF StepAt, files
  <1>3. ASSUME NEW d \in Clients PROVE Conn(d)'
    <2>1. CASE d = c
      BY <2>1 DEF StepAt
    <2>2. CASE d # c
      <3>1. Conn(d) /\ Kept(d) /\ server' = server /\ reset'[d] = reset[d]
        BY <2>2 DEF HttpInv, StepAt
      <3> QED BY <1>1, <3>1, FrameConn
    <2> QED BY <2>1, <2>2
  <1>4. HttpTypes'
    BY DEF StepAt
  <1>5. WrittenSoFar'
    BY <1>2 DEF HttpInv, WrittenSoFar
  <1> QED BY <1>1, <1>2, <1>3, <1>4, <1>5 DEF HttpInv

(* The server exits for a reason. *)
LEMMA ServerExitsStep ==
  ASSUME HttpInv, ~ Untroubled, ServerExits
  PROVE  HttpInv'
  <1>1. /\ asks' = asks /\ cpc' = cpc /\ cout' = cout /\ cbuf' = cbuf /\ clen' = clen
        /\ ccsum' = ccsum /\ cgot' = cgot /\ spc' = spc /\ sbuf' = sbuf /\ ssize' = ssize
        /\ sfd' = sfd /\ sdata' = sdata /\ sout' = sout
        /\ toServer' = toServer /\ toClient' = toClient
        /\ disk' = disk /\ written' = written /\ gen' = gen /\ server' = "exited"
    BY DEF ServerExits, client, worker, files
  <1>2. ~ Untroubled'
    BY <1>1 DEF Untroubled
  <1>3. ASSUME NEW d \in Clients PROVE Conn(d)'
    <2>1. Kept(d)
      BY <1>1 DEF Kept
    <2>2. Conn(d)
      BY DEF HttpInv
    <2> QED BY <1>1, <1>2, <2>1, <2>2, FrameConn
  <1>4. reset' \in [Clients -> BOOLEAN]
    BY DEF ServerExits, HttpInv, HttpTypes
  <1>5. HttpTypes'
    BY <1>1, <1>4 DEF HttpInv, HttpTypes
  <1>6. WrittenSoFar'
    BY <1>1 DEF HttpInv, WrittenSoFar
  <1> QED BY <1>1, <1>2, <1>3, <1>5, <1>6 DEF HttpInv

(* fileset.c. *)
LEMMA FilesStep ==
  ASSUME HttpInv, Unlink \/ Create \/ WriteFile
  PROVE  HttpInv'
  <1>1. /\ asks' = asks /\ cpc' = cpc /\ cout' = cout /\ cbuf' = cbuf /\ clen' = clen
        /\ ccsum' = ccsum /\ cgot' = cgot /\ spc' = spc /\ sbuf' = sbuf /\ ssize' = ssize
        /\ sfd' = sfd /\ sdata' = sdata /\ sout' = sout
        /\ toServer' = toServer /\ toClient' = toClient /\ reset' = reset /\ server' = server
        /\ gen' # "idle" /\ gen' \in {"idle", "unlinked", "writing", "done"} /\ disk' \in 0 .. 2
    BY DEF Unlink, Create, WriteFile, client, worker, net, HttpInv, HttpTypes
  <1>2. ~ Untroubled'
    BY <1>1 DEF Untroubled
  <1>3. ASSUME NEW d \in Clients PROVE Conn(d)'
    <2>1. Kept(d) /\ reset'[d] = reset[d]
      BY <1>1 DEF Kept
    <2>2. Conn(d)
      BY DEF HttpInv
    <2> QED BY <1>1, <1>2, <2>1, <2>2, FrameConn
  <1>4. WrittenSoFar'
    <2>1. CASE written' = written
      BY <2>1 DEF HttpInv, WrittenSoFar
    <2>2. CASE written' # written
      <3>1. /\ written # Regenerated
            /\ written' = Append(written, Regenerated[Len(written) + 1])
        BY <2>2 DEF Unlink, Create, WriteFile
      <3>2. PICK m \in Nat, n \in Nat :
              /\ m = Len(written) /\ n = Len(Regenerated) /\ m <= n
              /\ \A i \in 1 .. m : written[i] = Regenerated[i]
              /\ \A i \in 1 .. n : Regenerated[i] \in Nat
        BY HttpAssumption, LenProperties, ElementOfSeq DEF HttpInv, WrittenSoFar
      <3>3. m < n
        <4>1. CASE m = n
          <5>1. written = Regenerated
            BY <3>2, <4>1, HttpAssumption, SeqEqual DEF HttpInv, WrittenSoFar
          <5> QED BY <3>1, <5>1
        <4> QED BY <3>2, <4>1
      <3>4. PICK e \in Nat : e = Regenerated[m + 1]
        BY <3>2, <3>3
      <3>5. written \in Seq(Nat) /\ written' = Append(written, e)
        BY <3>1, <3>2, <3>4 DEF HttpInv, WrittenSoFar
      <3>6. /\ written' \in Seq(Nat) /\ Len(written') = m + 1
            /\ \A i \in 1 .. m : written'[i] = written[i]
            /\ written'[m + 1] = e
        BY <3>2, <3>5, AppendProperties
      <3>7. \A i \in 1 .. m + 1 : written'[i] = Regenerated[i]
        <4> SUFFICES ASSUME NEW i \in 1 .. m + 1 PROVE written'[i] = Regenerated[i]
          OBVIOUS
        <4>1. CASE i \in 1 .. m
          BY <3>2, <3>6, <4>1
        <4>2. CASE i = m + 1
          BY <3>4, <3>6, <4>2
        <4> QED BY <4>1, <4>2
      <3> QED BY <3>2, <3>3, <3>6, <3>7 DEF WrittenSoFar
    <2> QED BY <2>1, <2>2
  <1>5. HttpTypes'
    BY <1>1 DEF HttpInv, HttpTypes
  <1> QED BY <1>1, <1>2, <1>3, <1>4, <1>5 DEF HttpInv

LEMMA TypesAt ==
  ASSUME HttpInv, NEW c \in Clients
  PROVE  /\ cout[c] \in Seq(Items) /\ cbuf[c] \in Seq(Items) /\ sout[c] \in Seq(Items)
         /\ sbuf[c] \in Seq(Items) /\ toServer[c] \in Seq(Items) /\ toClient[c] \in Seq(Items)
         /\ clen[c] \in Nat /\ ccsum[c] \in Nat /\ ssize[c] \in Nat /\ sfd[c] \in 0 .. 2
         /\ cgot[c] \in Seq(Nat) /\ sdata[c] \in Seq(Nat) /\ reset[c] \in BOOLEAN
         /\ SocketSize \in Nat /\ Conn(c) /\ Bounds(c) /\ EndsWell(c) /\ FileStays(c)
         /\ Talking(c) => RequestFlows(c) /\ ReplyFlows(c)
         /\ Untroubled => server = "up" /\ disk = 1
  BY HttpAssumption DEF HttpInv, HttpTypes, Conn, Untroubled

(* The first k of f have moved to the end of t, and left u and made v. *)
Moved(S, f, t, k, u, v) ==
  /\ u \in Seq(S) /\ v \in Seq(S)
  /\ Len(f) \in Nat /\ Len(t) \in Nat
  /\ Len(u) = Len(f) - k /\ Len(v) = Len(t) + k
  /\ v \o u = t \o f
  /\ \A rest \in Seq(S) : v \o (u \o rest) = t \o (f \o rest)

LEMMA WriteMoves ==
  ASSUME NEW S, NEW f \in Seq(S), NEW t \in Seq(S), NEW k \in 0 .. Len(f)
  PROVE  Moved(S, f, t, k, Cut(f, k)[2], t \o Cut(f, k)[1])
  <1>1. PICK p \in Seq(S), q \in Seq(S) :
          p = Cut(f, k)[1] /\ q = Cut(f, k)[2] /\ Parts(S, f, k, p, q)
    <2>1. Parts(S, f, k, Cut(f, k)[1], Cut(f, k)[2])
      BY CutParts
    <2> QED BY <2>1 DEF Parts
  <1>2. Len(p) = k /\ Len(q) = Len(f) - k
    BY <1>1 DEF Parts
  <1>3. Join(p, q) = f
    BY <1>1 DEF Parts, Join
  <1>4. PICK v \in Seq(S) : v = t \o p /\ Len(v) = Len(t) + Len(p)
    BY ConcatProperties
  <1>5. v \o q = t \o f
    <2>1. Join(Join(t, p), q) = Join(t, Join(p, q))
      BY JoinLaws
    <2> QED BY <1>3, <1>4, <2>1 DEF Join
  <1>6. ASSUME NEW rest \in Seq(S)
        PROVE  v \o (q \o rest) = t \o (f \o rest)
    <2>1. Join(p, q) \in Seq(S) /\ Join(q, rest) \in Seq(S)
      BY JoinLaws
    <2>2. Join(Join(t, p), Join(q, rest)) = Join(t, Join(p, Join(q, rest)))
      BY <2>1, JoinLaws
    <2>3. Join(p, Join(q, rest)) = Join(Join(p, q), rest)
      BY JoinLaws
    <2> QED BY <1>3, <1>4, <2>2, <2>3 DEF Join
  <1>7. Len(f) \in Nat /\ Len(t) \in Nat
    BY LenProperties
  <1>8. Moved(S, f, t, k, q, v)
    BY <1>2, <1>4, <1>5, <1>6, <1>7 DEF Moved
  <1> QED BY <1>1, <1>4, <1>8

(* Whatever a client does once the server exited. *)
LEMMA ClosedStep ==
  ASSUME HttpInv, NEW c \in Clients, server # "up", server' = server, UNCHANGED files,
         spc' = spc, sbuf' = sbuf, ssize' = ssize, sfd' = sfd, sdata' = sdata, sout' = sout,
         asks' = asks, reset' = reset, cout' = cout, toServer' = toServer,
         NEW how \in {"head", "body", "done", "failed", "left"},
         cpc' = [cpc EXCEPT ![c] = how], cpc[c] # "left",
         HttpTypes', Len(toClient'[c]) <= SocketSize,
         \A d \in Clients \ {c} :
           /\ cbuf'[d] = cbuf[d] /\ clen'[d] = clen[d] /\ ccsum'[d] = ccsum[d]
           /\ cgot'[d] = cgot[d] /\ toClient'[d] = toClient[d]
  PROVE  StepAt(c)
  <1>1. /\ cpc'[c] = how /\ \A d \in Clients \ {c} : cpc'[d] = cpc[d]
        /\ disk' = disk /\ gen' = gen
    BY DEF HttpInv, HttpTypes, files
  <1>2. ~ Talking(c)' /\ ~ Untroubled'
    <2>1. ~ Untroubled
      BY DEF HttpInv
    <2> QED BY <1>1, <2>1, WasUntroubled DEF Talking
  <1>3. Bounds(c) /\ FileStays(c)
    BY TypesAt
  <1>4. Bounds(c)' /\ FileStays(c)'
    BY <1>2, <1>3 DEF Bounds, FileStays
  <1>5. EndsWell(c)'
    BY <1>2 DEF EndsWell
  <1>6. Conn(c)'
    BY <1>2, <1>4, <1>5 DEF Conn
  <1>7. \A d \in Clients \ {c} : Kept(d) /\ reset'[d] = reset[d] /\ cpc'[d] = cpc[d]
    BY <1>1 DEF Kept
  <1> QED BY <1>6, <1>7 DEF StepAt

(* A client writes its request. *)
LEMMA ClientSendStep ==
  ASSUME HttpInv, NEW c \in Clients, ClientSend(c)
  PROVE  StepAt(c)
  <1>1. /\ cpc[c] = "send" /\ ClientOpen(c) /\ spc' = spc /\ sbuf' = sbuf /\ ssize' = ssize
        /\ sfd' = sfd /\ sdata' = sdata /\ sout' = sout /\ asks' = asks /\ cbuf' = cbuf
        /\ clen' = clen /\ ccsum' = ccsum /\ cgot' = cgot /\ reset' = reset
        /\ server' = server /\ UNCHANGED files /\ disk' = disk /\ gen' = gen
    BY DEF ClientSend, ClientOpen, worker, files
  <1>2. CASE ServerOpen(c)
    <2>1. /\ Write(cout, toServer, c) /\ toClient' = toClient
          /\ cpc' = [cpc EXCEPT ![c] = IF cout'[c] = <<>> THEN "head" ELSE "send"]
      BY <1>2 DEF ClientSend
    <2>2. PICK k \in 1 .. Len(cout[c]) :
            /\ Len(toServer[c]) + k <= SocketSize
            /\ cout' = [cout EXCEPT ![c] = Cut(@, k)[2]]
            /\ toServer' = [toServer EXCEPT ![c] = @ \o Cut(cout[c], k)[1]]
      BY <2>1 DEF Write
    <2>3. /\ cout'[c] = Cut(cout[c], k)[2] /\ toServer'[c] = toServer[c] \o Cut(cout[c], k)[1]
          /\ \A d \in Clients \ {c} : cout'[d] = cout[d] /\ toServer'[d] = toServer[d]
      BY <2>2 DEF HttpInv, HttpTypes
    <2>4. /\ cout'[c] \in Seq(Items) /\ toServer'[c] \in Seq(Items)
          /\ Len(toServer'[c]) <= SocketSize /\ Len(cout[c]) \in Nat
          /\ toServer'[c] \o cout'[c] = toServer[c] \o cout[c]
      <3>1. cout[c] \in Seq(Items) /\ toServer[c] \in Seq(Items)
        BY TypesAt
      <3>2. PICK f \in Seq(Items), t \in Seq(Items) : f = cout[c] /\ t = toServer[c]
        BY <3>1
      <3>3. PICK n \in 0 .. Len(f) : n = k
        BY <3>2, LenProperties
      <3>4. Moved(Items, f, t, n, Cut(f, n)[2], t \o Cut(f, n)[1])
        BY WriteMoves
      <3>5. Moved(Items, cout[c], toServer[c], k, cout'[c], toServer'[c])
        BY <2>3, <3>2, <3>3, <3>4
      <3>6. cout'[c] \in Seq(Items) /\ toServer'[c] \in Seq(Items) /\ Len(cout[c]) \in Nat
        BY <3>5 DEF Moved
      <3>7. toServer'[c] \o cout'[c] = toServer[c] \o cout[c]
        BY <3>5, Zenon DEF Moved
      <3>8. Len(toServer'[c]) = Len(toServer[c]) + k
        BY <3>5, Zenon DEF Moved
      <3> QED BY <2>2, <3>6, <3>7, <3>8
    <2>5. /\ cpc'[c] = (IF cout'[c] = <<>> THEN "head" ELSE "send")
          /\ \A d \in Clients \ {c} : cpc'[d] = cpc[d]
          /\ cpc' \in [Clients -> {"send", "head", "body", "done", "failed", "left"}]
      BY <2>1 DEF HttpInv, HttpTypes
    <2>6. cout' \in [Clients -> Seq(Items)] /\ toServer' \in [Clients -> Seq(Items)]
      BY <2>2, <2>3, <2>4 DEF HttpInv, HttpTypes
    <2>7. HttpTypes'
      BY <1>1, <2>1, <2>5, <2>6 DEF HttpInv, HttpTypes
    <2>8. Talking(c) /\ RequestFlows(c) /\ ReplyFlows(c)
      BY <1>1, <1>2, TypesAt DEF Talking, ServerOpen
    <2>9. cout[c] # <<>> /\ spc[c] = "head"
      BY <2>8, <1>1 DEF RequestFlows
    <2>10. RequestFlows(c)'
      <3>1. sbuf'[c] \o (toServer'[c] \o cout'[c]) = Request
        BY <1>1, <2>4, <2>8 DEF RequestFlows
      <3> QED BY <1>1, <2>5, <2>8, <2>9, <3>1 DEF RequestFlows
    <2>11. ReplyFlows(c)'
      <3>1. cbuf[c] = <<>> /\ toClient[c] = <<>> /\ sout[c] = <<>>
        BY <2>8, <2>9 DEF ReplyFlows
      <3> QED BY <1>1, <2>1, <2>5, <2>9, <3>1 DEF ReplyFlows
    <2>12. Bounds(c)'
      <3>1. Bounds(c)
        BY TypesAt
      <3> QED BY <1>1, <2>1, <2>4, <3>1 DEF Bounds
    <2>13. EndsWell(c)' /\ FileStays(c)'
      <3>1. Untroubled' => Untroubled
        BY <1>1, <2>5, WasUntroubled
      <3>2. EndsWell(c)'
        BY <2>5 DEF EndsWell, ClientOpen
      <3>3. FileStays(c)
        BY TypesAt
      <3> QED BY <1>1, <3>1, <3>2, <3>3 DEF FileStays
    <2>14. Conn(c)'
      BY <2>10, <2>11, <2>12, <2>13 DEF Conn
    <2>15. \A d \in Clients \ {c} : Kept(d) /\ reset'[d] = reset[d] /\ cpc'[d] = cpc[d]
      BY <1>1, <2>1, <2>3, <2>5 DEF Kept
    <2> QED BY <1>1, <2>7, <2>14, <2>15 DEF StepAt
  <1>3. CASE ~ ServerOpen(c)
    <2>1. server # "up"
      <3> SUFFICES ASSUME server = "up" PROVE FALSE
        OBVIOUS
      <3>1. Talking(c) /\ RequestFlows(c) /\ spc[c] = "closed"
        BY <1>1, <1>3, TypesAt DEF Talking, ServerOpen
      <3> QED BY <1>1, <3>1 DEF RequestFlows
    <2>2. /\ cout' = cout /\ toServer' = toServer
          /\ toClient' \in {toClient, [toClient EXCEPT ![c] = <<>>]}
      BY <1>3 DEF ClientSend, ClientEnds
    <2>3. PICK how \in {"head", "failed"} : cpc' = [cpc EXCEPT ![c] = how]
      BY <1>3 DEF ClientSend, ClientEnds
    <2>4. /\ toClient'[c] \in {toClient[c], <<>>} /\ toClient' \in [Clients -> Seq(Items)]
          /\ \A d \in Clients \ {c} : toClient'[d] = toClient[d]
      <3>1. toClient \in [Clients -> Seq(Items)] /\ <<>> \in Seq(Items)
        BY DEF HttpInv, HttpTypes
      <3>2. CASE toClient' = toClient
        BY <3>1, <3>2
      <3>3. CASE toClient' = [toClient EXCEPT ![c] = <<>>]
        BY <3>1, <3>3
      <3> QED BY <2>2, <3>2, <3>3
    <2>5. Len(toClient'[c]) <= SocketSize
      <3>1. Len(toClient[c]) <= SocketSize /\ 0 <= SocketSize /\ Len(<<>>) = 0
        BY TypesAt DEF Bounds
      <3> QED BY <2>4, <3>1
    <2>6. HttpTypes'
      BY <1>1, <2>2, <2>3, <2>4 DEF HttpInv, HttpTypes
    <2> QED BY <1>1, <2>1, <2>2, <2>3, <2>4, <2>5, <2>6, ClosedStep
  <1> QED BY <1>2, <1>3

(* A client moves by itself: what it keeps, what its socket brings. *)
Alone(c) ==
  /\ asks' = asks /\ cout' = cout /\ spc' = spc /\ sbuf' = sbuf /\ ssize' = ssize
  /\ sfd' = sfd /\ sdata' = sdata /\ sout' = sout /\ toServer' = toServer /\ reset' = reset
  /\ server' = server /\ disk' = disk /\ written' = written /\ gen' = gen
  /\ \A d \in Clients \ {c} :
       /\ cpc'[d] = cpc[d] /\ cbuf'[d] = cbuf[d] /\ clen'[d] = clen[d]
       /\ ccsum'[d] = ccsum[d] /\ cgot'[d] = cgot[d] /\ toClient'[d] = toClient[d]
  /\ HttpTypes' /\ Len(toClient'[c]) <= SocketSize

(* It suffices that the client reads on in the same reply. *)
LEMMA ReadStep ==
  ASSUME HttpInv, NEW c \in Clients, Alone(c),
         cpc[c] \in {"head", "body"}, cpc'[c] \in {"head", "body"},
         Talking(c) =>
           /\ spc[c] \in {"send", "closed"}
           /\ \A kind \in {"ok", "error"}, bytes \in Seq(Nat) :
                InReply(c, kind, bytes) => InReply(c, kind, bytes)'
  PROVE  StepAt(c)
  <1>1. Untroubled' => Untroubled
    BY WasUntroubled DEF Alone
  <1>2. Bounds(c) /\ FileStays(c)
    BY TypesAt
  <1>3. Bounds(c)' /\ FileStays(c)'
    BY <1>1, <1>2 DEF Bounds, FileStays, Alone
  <1>4. EndsWell(c)'
    BY DEF EndsWell, ClientOpen
  <1>5. ASSUME Talking(c)' PROVE RequestFlows(c)' /\ ReplyFlows(c)'
    <2>1. Talking(c)
      BY <1>5 DEF Talking, ClientOpen, Alone
    <2>2. RequestFlows(c) /\ ReplyFlows(c)
      BY <2>1, TypesAt
    <2>3. RequestFlows(c)'
      BY <2>2 DEF RequestFlows, Alone
    <2>4. spc[c] \in {"send", "closed"} /\ spc'[c] = spc[c] /\ sout'[c] = sout[c]
      BY <2>1 DEF Alone
    <2>5. PICK kind \in {"ok", "error"}, bytes \in Seq(Nat) :
            /\ InReply(c, kind, bytes)
            /\ Untroubled /\ c \in Testers => bytes = Original
      BY <2>2, <2>4 DEF ReplyFlows
    <2>6. InReply(c, kind, bytes)'
      BY <2>1, <2>5
    <2>7. spc[c] = "closed" => sout[c] = <<>>
      BY <2>2 DEF ReplyFlows
    <2>8. ReplyFlows(c)'
      BY <1>1, <2>4, <2>5, <2>6, <2>7 DEF ReplyFlows
    <2> QED BY <2>3, <2>8
  <1>6. Conn(c)'
    BY <1>3, <1>4, <1>5 DEF Conn
  <1>7. \A d \in Clients \ {c} : Kept(d) /\ reset'[d] = reset[d] /\ cpc'[d] = cpc[d]
    BY DEF Kept, Alone
  <1> QED BY <1>6, <1>7 DEF StepAt, Alone, files

(* Or that it ends well. *)
LEMMA EndStep ==
  ASSUME HttpInv, NEW c \in Clients, Alone(c), ClientOpen(c),
         cpc'[c] \in {"done", "failed", "left"}, EndsWell(c)'
  PROVE  StepAt(c)
  <1>1. cpc[c] # "left" /\ ~ Talking(c)'
    BY DEF ClientOpen, Talking
  <1>2. Untroubled' => Untroubled
    BY <1>1, WasUntroubled DEF Alone
  <1>3. Bounds(c) /\ FileStays(c)
    BY TypesAt
  <1>4. Bounds(c)' /\ FileStays(c)'
    BY <1>2, <1>3 DEF Bounds, FileStays, Alone
  <1>5. Conn(c)'
    BY <1>1, <1>4 DEF Conn
  <1>6. \A d \in Clients \ {c} : Kept(d) /\ reset'[d] = reset[d] /\ cpc'[d] = cpc[d]
    BY DEF Kept, Alone
  <1> QED BY <1>1, <1>5, <1>6 DEF StepAt, Alone, files

(* What the end of the header leaves behind. *)
LEMMA HeaderLeaves ==
  ASSUME HttpTypes, NEW c \in Clients,
         NEW lines \in Seq(Items), NEW rest \in Seq(Items), HeaderIs(c, lines, rest)
  PROVE  /\ cpc'[c] = "body" /\ clen'[c] = Tag("length", lines)
         /\ ccsum'[c] = Tag("csum", lines) /\ cgot'[c] = Values(rest) /\ cbuf'[c] = <<>>
         /\ \A d \in Clients \ {c} :
              /\ cpc'[d] = cpc[d] /\ cbuf'[d] = cbuf[d] /\ clen'[d] = clen[d]
              /\ ccsum'[d] = ccsum[d] /\ cgot'[d] = cgot[d]
         /\ cpc' \in [Clients -> {"send", "head", "body", "done", "failed", "left"}]
         /\ clen' \in [Clients -> Nat] /\ ccsum' \in [Clients -> Nat]
         /\ cgot' \in [Clients -> Seq(Nat)] /\ cbuf' \in [Clients -> Seq(Items)]
  <1>1. PICK l \in Nat, s \in Nat : l = Tag("length", lines) /\ s = Tag("csum", lines)
    BY TagIsNat
  <1>2. PICK g \in Seq(Nat) : g = Values(rest)
    BY ValuesOf
  <1>3. /\ clen' = [clen EXCEPT ![c] = l] /\ ccsum' = [ccsum EXCEPT ![c] = s]
        /\ cgot' = [cgot EXCEPT ![c] = g] /\ cbuf' = [cbuf EXCEPT ![c] = <<>>]
        /\ cpc' = [cpc EXCEPT ![c] = "body"]
    BY <1>1, <1>2 DEF HeaderIs
  <1>4. /\ clen \in [Clients -> Nat] /\ ccsum \in [Clients -> Nat]
        /\ cgot \in [Clients -> Seq(Nat)] /\ cbuf \in [Clients -> Seq(Items)]
        /\ cpc \in [Clients -> {"send", "head", "body", "done", "failed", "left"}]
        /\ <<>> \in Seq(Items)
    BY SMTT(30) DEF HttpTypes
  <1>5. /\ cpc'[c] = "body" /\ clen'[c] = l /\ ccsum'[c] = s /\ cgot'[c] = g
        /\ cbuf'[c] = <<>>
    BY <1>3, <1>4
  <1>6. \A d \in Clients \ {c} :
              /\ cpc'[d] = cpc[d] /\ cbuf'[d] = cbuf[d] /\ clen'[d] = clen[d]
              /\ ccsum'[d] = ccsum[d] /\ cgot'[d] = cgot[d]
    BY <1>3, <1>4
  <1>7. clen' \in [Clients -> Nat] /\ ccsum' \in [Clients -> Nat]
    BY <1>3, <1>4
  <1>8. cgot' \in [Clients -> Seq(Nat)]
    BY <1>3, <1>4
  <1>9. cbuf' \in [Clients -> Seq(Items)]
    BY <1>3, <1>4
  <1>10. cpc' \in [Clients -> {"send", "head", "body", "done", "failed", "left"}]
    BY <1>3, <1>4
  <1> QED BY <1>1, <1>2, <1>5, <1>6, <1>7, <1>8, <1>9, <1>10

(* A read, or a write, takes some of a sequence. *)
TakenFrom(q, c, k, r) ==
  /\ r[c] = Cut(q[c], k)[2] /\ r \in [Clients -> Seq(Items)]
  /\ \A d \in Clients \ {c} : r[d] = q[d]
  /\ Len(r[c]) \in Nat /\ Len(q[c]) \in Nat /\ Len(r[c]) < Len(q[c])
  /\ q[c] # <<>> /\ Cut(q[c], k)[1] \in Seq(Items)
  /\ \A t \in Seq(Items) : Moved(Items, q[c], t, k, r[c], t \o Cut(q[c], k)[1])

LEMMA Taken ==
  ASSUME NEW q \in [Clients -> Seq(Items)], NEW c \in Clients, NEW k \in 1 .. Len(q[c]),
         NEW r, r = [q EXCEPT ![c] = Cut(@, k)[2]]
  PROVE  TakenFrom(q, c, k, r)
  <1>1. q[c] \in Seq(Items)
    OBVIOUS
  <1>2. PICK f \in Seq(Items) : f = q[c]
    BY <1>1
  <1>3. Len(f) \in Nat /\ (f = <<>> => Len(f) = 0)
    BY LenProperties
  <1>4. PICK n \in 0 .. Len(f) : n = k /\ n > 0
    BY <1>2, <1>3
  <1>5. f # <<>>
    BY <1>2, <1>3
  <1>6. /\ Cut(f, n)[1] \in Seq(Items) /\ Cut(f, n)[2] \in Seq(Items)
        /\ Len(Cut(f, n)[2]) = Len(f) - n
    <2>1. Parts(Items, f, n, Cut(f, n)[1], Cut(f, n)[2])
      BY CutParts
    <2> QED BY <2>1 DEF Parts
  <1>7. r = [q EXCEPT ![c] = Cut(f, n)[2]]
    BY <1>2, <1>4
  <1>8. /\ r[c] = Cut(f, n)[2] /\ r \in [Clients -> Seq(Items)]
        /\ \A d \in Clients \ {c} : r[d] = q[d]
    BY <1>1, <1>6, <1>7
  <1>9. Len(r[c]) \in Nat /\ Len(r[c]) < Len(f)
    BY <1>3, <1>4, <1>6, <1>8
  <1>10. ASSUME NEW t \in Seq(Items)
         PROVE  Moved(Items, f, t, n, Cut(f, n)[2], t \o Cut(f, n)[1])
    BY WriteMoves
  <1> QED BY <1>2, <1>3, <1>4, <1>5, <1>6, <1>8, <1>9, <1>10 DEF TakenFrom

(* A client reads some of the header, and perhaps the start of the body. *)
LEMMA HeadReadStep ==
  ASSUME HttpInv, NEW c \in Clients, HeadRead(c)
  PROVE  StepAt(c)
  <1>1. /\ cpc[c] = "head" /\ asks' = asks /\ cout' = cout /\ spc' = spc /\ sbuf' = sbuf
        /\ ssize' = ssize /\ sfd' = sfd /\ sdata' = sdata /\ sout' = sout
        /\ toServer' = toServer /\ reset' = reset /\ server' = server /\ disk' = disk
        /\ written' = written /\ gen' = gen
    BY DEF HeadRead, worker, files
  <1>2. PICK k \in 1 .. Len(toClient[c]) :
          LET buf == cbuf[c] \o Cut(toClient[c], k)[1]
              head == HeadSize(buf)
          IN /\ toClient' = [toClient EXCEPT ![c] = Cut(@, k)[2]]
             /\ IF head > 0
                  THEN HeaderIs(c, Cut(buf, head)[1], Cut(buf, head)[2])
                  ELSE cbuf' = [cbuf EXCEPT ![c] = buf]
                       /\ UNCHANGED <<cpc, clen, ccsum, cgot>>
    BY DEF HeadRead
  <1>3. /\ toClient'[c] = Cut(toClient[c], k)[2] /\ toClient' \in [Clients -> Seq(Items)]
        /\ \A d \in Clients \ {c} : toClient'[d] = toClient[d]
        /\ Len(toClient'[c]) <= SocketSize /\ toClient[c] # <<>>
        /\ Cut(toClient[c], k)[1] \in Seq(Items)
        /\ \A t \in Seq(Items) : Moved(Items, toClient[c], t, k, toClient'[c],
                                       t \o Cut(toClient[c], k)[1])
    <2>1. toClient \in [Clients -> Seq(Items)]
      BY DEF HttpInv, HttpTypes
    <2>2. toClient' = [toClient EXCEPT ![c] = Cut(@, k)[2]]
      BY <1>2
    <2>3. Len(toClient[c]) <= SocketSize /\ SocketSize \in Nat
      BY TypesAt DEF Bounds
    <2>4. TakenFrom(toClient, c, k, toClient')
      BY <2>1, <2>2, Taken
    <2>5. Len(toClient'[c]) \in Nat /\ Len(toClient[c]) \in Nat /\ Len(toClient'[c]) < Len(toClient[c])
      BY <2>4 DEF TakenFrom
    <2>6. Len(toClient'[c]) <= SocketSize
      BY <2>3, <2>5
    <2> QED BY <2>4, <2>6, Zenon DEF TakenFrom
  <1>4. PICK buf \in Seq(Items) :
          /\ buf = cbuf[c] \o Cut(toClient[c], k)[1]
          /\ Moved(Items, toClient[c], cbuf[c], k, toClient'[c], buf)
    <2>1. cbuf[c] \in Seq(Items)
      BY TypesAt
    <2>2. Moved(Items, toClient[c], cbuf[c], k, toClient'[c],
                cbuf[c] \o Cut(toClient[c], k)[1])
      BY <1>3, <2>1
    <2> QED BY <2>2 DEF Moved
  <1>5. IF HeadSize(buf) > 0
          THEN HeaderIs(c, Cut(buf, HeadSize(buf))[1], Cut(buf, HeadSize(buf))[2])
          ELSE cbuf' = [cbuf EXCEPT ![c] = buf] /\ UNCHANGED <<cpc, clen, ccsum, cgot>>
    BY <1>2, <1>4
  <1>6. PICK n \in 0 .. Len(buf) : n = HeadSize(buf)
    BY HeadSizeIs
  <1>7. PICK r \in Seq(Items) : r = toClient'[c] \o sout[c]
    <2>1. toClient'[c] \in Seq(Items) /\ sout[c] \in Seq(Items)
      BY <1>3, TypesAt
    <2>2. PICK x \in Seq(Items), y \in Seq(Items) : x = toClient'[c] /\ y = sout[c]
      BY <2>1
    <2>3. x \o y \in Seq(Items)
      BY ConcatProperties
    <2> QED BY <2>2, <2>3
  <1>8. Talking(c) => spc[c] \in {"send", "closed"}
    BY <1>3, TypesAt DEF ReplyFlows
  <1>9. ASSUME NEW kind \in {"ok", "error"}, NEW bytes \in Seq(Nat), InReply(c, kind, bytes)
        PROVE  buf \o r = Reply(kind, bytes)
    <2>1. cbuf[c] \o (toClient[c] \o sout[c]) = Reply(kind, bytes)
      BY <1>1, <1>9 DEF InReply
    <2>2. sout[c] \in Seq(Items)
      BY TypesAt
    <2>3. \A rest \in Seq(Items) :
            buf \o (toClient'[c] \o rest) = cbuf[c] \o (toClient[c] \o rest)
      BY <1>4, Zenon DEF Moved
    <2>4. buf \o (toClient'[c] \o sout[c]) = cbuf[c] \o (toClient[c] \o sout[c])
      BY <2>2, <2>3, Zenon
    <2> QED BY <1>7, <2>1, <2>4
  <1>10. CASE HeadSize(buf) > 0
    <2>1. PICK lines \in Seq(Items), rest \in Seq(Items) :
            /\ lines = Cut(buf, n)[1] /\ rest = Cut(buf, n)[2]
            /\ HeaderIs(c, lines, rest)
      <3>1. Parts(Items, buf, n, Cut(buf, n)[1], Cut(buf, n)[2])
        BY CutParts
      <3>2. Cut(buf, n)[1] \in Seq(Items) /\ Cut(buf, n)[2] \in Seq(Items)
        BY <3>1 DEF Parts
      <3> QED BY <1>5, <1>6, <1>10, <3>2
    <2>2. HttpTypes
      BY DEF HttpInv
    <2>3. /\ cpc'[c] = "body" /\ clen'[c] = Tag("length", lines)
          /\ ccsum'[c] = Tag("csum", lines) /\ cgot'[c] = Values(rest) /\ cbuf'[c] = <<>>
          /\ \A d \in Clients \ {c} :
               /\ cpc'[d] = cpc[d] /\ cbuf'[d] = cbuf[d] /\ clen'[d] = clen[d]
               /\ ccsum'[d] = ccsum[d] /\ cgot'[d] = cgot[d]
          /\ cpc' \in [Clients -> {"send", "head", "body", "done", "failed", "left"}]
          /\ clen' \in [Clients -> Nat] /\ ccsum' \in [Clients -> Nat]
          /\ cgot' \in [Clients -> Seq(Nat)] /\ cbuf' \in [Clients -> Seq(Items)]
      BY <2>1, <2>2, HeaderLeaves
    <2>4. HttpTypes'
      BY <1>1, <1>3, <2>2, <2>3 DEF HttpTypes
    <2>5. Alone(c)
      BY <1>1, <1>3, <2>3, <2>4 DEF Alone
    <2>6. ASSUME NEW kind \in {"ok", "error"}, NEW bytes \in Seq(Nat),
                 InReply(c, kind, bytes)
          PROVE  InReply(c, kind, bytes)'
      <3>1. buf \o r = Reply(kind, bytes)
        BY <1>9, <2>6
      <3>2. ~ Len(buf) < 4
        <4> SUFFICES ASSUME Len(buf) < 4 PROVE FALSE
          OBVIOUS
        <4>1. HeadSize(buf) = 0
          BY <3>1, HeadOfReply
        <4> QED BY <1>10, <4>1
      <3>3. /\ HeadSize(buf) = 4
            /\ Tag("length", Cut(buf, 4)[1]) = Len(bytes)
            /\ Tag("csum", Cut(buf, 4)[1]) = Csum(bytes)
            /\ Values(Cut(buf, 4)[2] \o r) = bytes
        <4>1. HasHeader(buf, r, bytes)
          BY <3>1, <3>2, HeadOfReply
        <4> QED BY <4>1 DEF HasHeader
      <3>4. /\ Tag("length", lines) = Len(bytes) /\ Tag("csum", lines) = Csum(bytes)
            /\ Values(rest \o r) = bytes
        BY <1>6, <2>1, <3>3
      <3>5. Values(rest) \o Values(r) = bytes
        <4>1. Values(rest \o r) = Values(rest) \o Values(r)
          BY ValuesConcat
        <4> QED BY <3>4, <4>1
      <3> QED BY <1>1, <1>7, <2>3, <3>4, <3>5 DEF InReply
    <2> QED BY <1>1, <1>8, <2>3, <2>5, <2>6, ReadStep
  <1>11. CASE ~ HeadSize(buf) > 0
    <2>1. /\ cbuf' = [cbuf EXCEPT ![c] = buf] /\ cpc' = cpc /\ clen' = clen
          /\ ccsum' = ccsum /\ cgot' = cgot
      BY <1>5, <1>11
    <2>2. /\ cbuf'[c] = buf /\ cbuf' \in [Clients -> Seq(Items)]
          /\ \A d \in Clients \ {c} : cbuf'[d] = cbuf[d]
      BY <2>1 DEF HttpInv, HttpTypes
    <2>3. HttpTypes'
      BY <1>1, <1>3, <2>1, <2>2 DEF HttpInv, HttpTypes
    <2>4. Alone(c)
      BY <1>1, <1>3, <2>1, <2>2, <2>3 DEF Alone
    <2>5. ASSUME NEW kind \in {"ok", "error"}, NEW bytes \in Seq(Nat),
                 InReply(c, kind, bytes)
          PROVE  InReply(c, kind, bytes)'
      <3>1. buf \o r = Reply(kind, bytes)
        BY <1>9, <2>5
      <3>2. Len(buf) < 4
        <4> SUFFICES ASSUME ~ Len(buf) < 4 PROVE FALSE
          OBVIOUS
        <4>1. HeadSize(buf) = 4
          BY <3>1, HeadOfReply DEF HasHeader
        <4> QED BY <1>11, <4>1
      <3>3. cpc'[c] # "body" /\ cbuf'[c] = buf /\ sout'[c] = sout[c]
        BY <1>1, <2>1, <2>2
      <3> QED BY <1>7, <3>1, <3>2, <3>3 DEF InReply
    <2> QED BY <1>1, <1>8, <2>1, <2>4, <2>5, ReadStep
  <1> QED BY <1>10, <1>11

(* The connection ends within the header: only with the server. *)
LEMMA HeadEofStep ==
  ASSUME HttpInv, NEW c \in Clients, HeadEof(c)
  PROVE  StepAt(c)
  <1>1. /\ cpc[c] = "head" /\ asks' = asks /\ cout' = cout /\ spc' = spc /\ sbuf' = sbuf
        /\ ssize' = ssize /\ sfd' = sfd /\ sdata' = sdata /\ sout' = sout
        /\ toServer' = toServer /\ toClient' = toClient /\ reset' = reset
        /\ server' = server /\ disk' = disk /\ written' = written /\ gen' = gen
        /\ toClient[c] = <<>> /\ ~ ServerOpen(c)
    BY DEF HeadEof, AtEof, worker, net, files
  <1>2. ~ Talking(c)
    <2> SUFFICES ASSUME Talking(c) PROVE FALSE
      OBVIOUS
    <2>1. spc[c] = "closed" /\ ReplyFlows(c)
      BY <1>1, TypesAt DEF Talking, ServerOpen
    <2>2. PICK kind \in {"ok", "error"}, bytes \in Seq(Nat) : InReply(c, kind, bytes)
      BY <2>1 DEF ReplyFlows
    <2>3. sout[c] = <<>> /\ <<>> \in Seq(Items) /\ cbuf[c] \in Seq(Items)
      BY <2>1, TypesAt DEF ReplyFlows
    <2>4. cbuf[c] \o (<<>> \o <<>>) = Reply(kind, bytes) /\ Len(cbuf[c]) < 4
      BY <1>1, <2>2, <2>3 DEF InReply
    <2>5. cbuf[c] = Reply(kind, bytes)
      <3>1. Join(<<>>, <<>>) = <<>> /\ Join(cbuf[c], <<>>) = cbuf[c]
        BY <2>3, JoinLaws
      <3>2. Join(cbuf[c], Join(<<>>, <<>>)) = Reply(kind, bytes)
        BY <2>4 DEF Join
      <3> QED BY <3>1, <3>2
    <2>6. Len(Reply(kind, bytes)) = 4 + Len(bytes) /\ Len(bytes) \in Nat
      BY ReplyIs, LenProperties
    <2> QED BY <2>4, <2>5, <2>6
  <1>3. PICK lines \in Seq(Items), rest \in Seq(Items) : HeaderIs(c, lines, rest)
    <2>1. PICK n \in {0, 1} : HeaderIs(c, cbuf[c] \o FirstOf(sout[c], n), <<>>)
      BY DEF HeadEof
    <2>2. PICK b \in Seq(Items), s \in Seq(Items) : b = cbuf[c] /\ s = sout[c]
      BY TypesAt
    <2>3. n \in Nat /\ <<>> \in Seq(Items)
      OBVIOUS
    <2>4. PICK f \in Seq(Items) : f = FirstOf(s, n)
      BY <2>3, FirstParts
    <2>5. b \o f \in Seq(Items)
      BY ConcatProperties
    <2> QED BY <2>1, <2>2, <2>3, <2>4, <2>5
  <1>4. HttpTypes
    BY DEF HttpInv
  <1>5. /\ cpc'[c] = "body"
        /\ \A d \in Clients \ {c} :
             /\ cpc'[d] = cpc[d] /\ cbuf'[d] = cbuf[d] /\ clen'[d] = clen[d]
             /\ ccsum'[d] = ccsum[d] /\ cgot'[d] = cgot[d]
        /\ cpc' \in [Clients -> {"send", "head", "body", "done", "failed", "left"}]
        /\ clen' \in [Clients -> Nat] /\ ccsum' \in [Clients -> Nat]
        /\ cgot' \in [Clients -> Seq(Nat)] /\ cbuf' \in [Clients -> Seq(Items)]
    BY <1>3, <1>4, HeaderLeaves
  <1>6. HttpTypes'
    BY <1>1, <1>4, <1>5 DEF HttpTypes
  <1>7. Len(toClient'[c]) <= SocketSize
    BY <1>1, TypesAt DEF Bounds
  <1>8. Alone(c)
    BY <1>1, <1>5, <1>6, <1>7 DEF Alone
  <1> QED BY <1>1, <1>2, <1>5, <1>8, ReadStep

(* A client reads some of the body. *)
LEMMA BodyReadStep ==
  ASSUME HttpInv, NEW c \in Clients, BodyRead(c)
  PROVE  StepAt(c)
  <1>1. /\ cpc[c] = "body" /\ asks' = asks /\ cout' = cout /\ spc' = spc /\ sbuf' = sbuf
        /\ ssize' = ssize /\ sfd' = sfd /\ sdata' = sdata /\ sout' = sout
        /\ toServer' = toServer /\ reset' = reset /\ server' = server /\ disk' = disk
        /\ written' = written /\ gen' = gen
        /\ cpc' = cpc /\ cbuf' = cbuf /\ clen' = clen /\ ccsum' = ccsum
    BY DEF BodyRead, worker, files
  <1>2. PICK k \in 1 .. Len(toClient[c]) :
          /\ toClient' = [toClient EXCEPT ![c] = Cut(@, k)[2]]
          /\ cgot' = [cgot EXCEPT ![c] = @ \o Values(Cut(toClient[c], k)[1])]
    BY DEF BodyRead
  <1>3. /\ toClient'[c] = Cut(toClient[c], k)[2] /\ toClient' \in [Clients -> Seq(Items)]
        /\ \A d \in Clients \ {c} : toClient'[d] = toClient[d]
        /\ Len(toClient'[c]) <= SocketSize /\ toClient[c] # <<>>
        /\ Cut(toClient[c], k)[1] \in Seq(Items)
        /\ \A t \in Seq(Items) : Moved(Items, toClient[c], t, k, toClient'[c],
                                       t \o Cut(toClient[c], k)[1])
    <2>1. toClient \in [Clients -> Seq(Items)]
      BY DEF HttpInv, HttpTypes
    <2>2. toClient' = [toClient EXCEPT ![c] = Cut(@, k)[2]]
      BY <1>2
    <2>3. Len(toClient[c]) <= SocketSize /\ SocketSize \in Nat
      BY TypesAt DEF Bounds
    <2>4. TakenFrom(toClient, c, k, toClient')
      BY <2>1, <2>2, Taken
    <2>5. Len(toClient'[c]) \in Nat /\ Len(toClient[c]) \in Nat /\ Len(toClient'[c]) < Len(toClient[c])
      BY <2>4 DEF TakenFrom
    <2>6. Len(toClient'[c]) <= SocketSize
      BY <2>3, <2>5
    <2> QED BY <2>4, <2>6, Zenon DEF TakenFrom
  <1>4. PICK p \in Seq(Items), q \in Seq(Items), f \in Seq(Items), s \in Seq(Items),
             g \in Seq(Nat) :
          /\ p = Cut(toClient[c], k)[1] /\ q = toClient'[c] /\ f = toClient[c]
          /\ s = sout[c] /\ g = cgot[c]
    BY <1>2, <1>3, TypesAt
  <1>5. p \o (q \o s) = f \o s
    <2>1. Moved(Items, f, <<>>, k, q, <<>> \o p)
      <3>1. <<>> \in Seq(Items)
        OBVIOUS
      <3> QED BY <1>3, <1>4, <3>1
    <2>2. (<<>> \o p) \o (q \o s) = <<>> \o (f \o s)
      BY <2>1 DEF Moved
    <2>3. Join(Join(<<>>, p), Join(q, s)) = Join(<<>>, Join(f, s))
      BY <2>2 DEF Join
    <2>4. Join(f, s) \in Seq(Items)
      BY JoinLaws
    <2>5. Join(<<>>, p) = p /\ Join(<<>>, Join(f, s)) = Join(f, s)
      BY <2>4, JoinLaws
    <2> QED BY <2>3, <2>5 DEF Join
  <1>6. PICK vp \in Seq(Nat), w \in Seq(Items), vw \in Seq(Nat) :
          /\ vp = Values(p) /\ w = q \o s /\ vw = Values(w)
    <2>1. Values(p) \in Seq(Nat)
      BY ValuesOf
    <2>2. PICK w \in Seq(Items) : w = q \o s
      BY ConcatProperties
    <2>3. Values(w) \in Seq(Nat)
      BY ValuesOf
    <2> QED BY <2>1, <2>2, <2>3
  <1>7. g \o vp \in Seq(Nat)
    BY ConcatProperties
  <1>8. /\ cgot'[c] = g \o vp /\ cgot' \in [Clients -> Seq(Nat)]
        /\ \A d \in Clients \ {c} : cgot'[d] = cgot[d]
    <2>1. cgot' = [cgot EXCEPT ![c] = g \o vp]
      BY <1>2, <1>4, <1>6
    <2>2. cgot \in [Clients -> Seq(Nat)]
      BY DEF HttpInv, HttpTypes
    <2> QED BY <1>7, <2>1, <2>2
  <1>9. Talking(c) => spc[c] \in {"send", "closed"}
    BY <1>3, TypesAt DEF ReplyFlows
  <1>10. HttpTypes'
    BY <1>1, <1>3, <1>8 DEF HttpInv, HttpTypes
  <1>11. Alone(c)
    BY <1>1, <1>3, <1>8, <1>10 DEF Alone
  <1>12. ASSUME NEW kind \in {"ok", "error"}, NEW bytes \in Seq(Nat),
                InReply(c, kind, bytes)
         PROVE  InReply(c, kind, bytes)'
    <2>1. /\ clen[c] = Len(bytes) /\ ccsum[c] = Csum(bytes)
          /\ g \o Values(f \o s) = bytes
      BY <1>1, <1>4, <1>12 DEF InReply
    <2>2. Values(f \o s) = vp \o vw
      <3>1. Values(p \o w) = Values(p) \o Values(w)
        BY ValuesConcat
      <3> QED BY <1>5, <1>6, <3>1
    <2>3. Join(Join(g, vp), vw) = Join(g, Join(vp, vw))
      BY JoinLaws
    <2>4. (g \o vp) \o vw = bytes
      BY <2>1, <2>2, <2>3 DEF Join
    <2>5. cgot'[c] \o Values(toClient'[c] \o sout'[c]) = bytes
      BY <1>1, <1>4, <1>6, <1>8, <2>4
    <2> QED BY <1>1, <2>1, <2>5 DEF InReply
  <1> QED BY <1>1, <1>9, <1>11, <1>12, ReadStep

(* A client that keeps what it has ends. *)
LEMMA EndsAlone ==
  ASSUME HttpInv, NEW c \in Clients, NEW how \in {"done", "failed", "left"},
         ClientEnds(c, how),
         UNCHANGED <<asks, cout, cbuf, clen, ccsum, cgot, worker, toServer, reset, server, files>>
  PROVE  Alone(c) /\ cpc'[c] = how
  <1>1. /\ asks' = asks /\ cout' = cout /\ spc' = spc /\ sbuf' = sbuf /\ ssize' = ssize
        /\ sfd' = sfd /\ sdata' = sdata /\ sout' = sout /\ toServer' = toServer
        /\ reset' = reset /\ server' = server /\ disk' = disk /\ written' = written
        /\ gen' = gen /\ cbuf' = cbuf /\ clen' = clen /\ ccsum' = ccsum /\ cgot' = cgot
    BY DEF worker, files
  <1>2. cpc' = [cpc EXCEPT ![c] = how] /\ toClient' = [toClient EXCEPT ![c] = <<>>]
    BY DEF ClientEnds
  <1>3. /\ cpc \in [Clients -> {"send", "head", "body", "done", "failed", "left"}]
        /\ toClient \in [Clients -> Seq(Items)] /\ <<>> \in Seq(Items)
    BY DEF HttpInv, HttpTypes
  <1>4. /\ cpc'[c] = how /\ toClient'[c] = <<>>
        /\ \A d \in Clients \ {c} : cpc'[d] = cpc[d] /\ toClient'[d] = toClient[d]
        /\ cpc' \in [Clients -> {"send", "head", "body", "done", "failed", "left"}]
        /\ toClient' \in [Clients -> Seq(Items)]
    BY <1>2, <1>3
  <1>5. HttpTypes'
    BY <1>1, <1>4 DEF HttpInv, HttpTypes
  <1>6. Len(toClient'[c]) <= SocketSize
    BY <1>4, HttpAssumption
  <1> QED BY <1>1, <1>4, <1>5, <1>6 DEF Alone

(* A client has it all, and checks it. *)
LEMMA BodyEndStep ==
  ASSUME HttpInv, NEW c \in Clients, BodyEnd(c)
  PROVE  StepAt(c)
  <1>1. PICK how \in {"done", "failed"} :
          how = (IF Asserts(c) THEN "done" ELSE "failed") /\ ClientEnds(c, how)
    BY DEF BodyEnd
  <1>2. cpc[c] = "body" /\ ClientOpen(c) /\ toClient[c] = <<>> /\ ~ ServerOpen(c)
    BY DEF BodyEnd, AtEof, ClientOpen
  <1>3. Alone(c) /\ cpc'[c] = how
    <2>1. UNCHANGED <<asks, cout, cbuf, clen, ccsum, cgot, worker, toServer, reset, server, files>>
      BY DEF BodyEnd
    <2> QED BY <1>1, <2>1, EndsAlone
  <1>4. /\ server' = server /\ spc' = spc /\ clen' = clen /\ ccsum' = ccsum /\ cgot' = cgot
        /\ gen' = gen
    BY DEF BodyEnd, worker, files
  <1>5. Untroubled' => Untroubled
    BY <1>2, <1>3, WasUntroubled DEF Alone
  <1>6. CASE server # "up"
    <2>1. ~ Untroubled'
      BY <1>5, <1>6, TypesAt
    <2> QED BY <1>2, <1>3, <1>4, <1>6, <2>1, EndStep DEF EndsWell
  <1>7. CASE server = "up"
    <2>1. spc[c] = "closed" /\ Talking(c)
      BY <1>2, <1>7 DEF ServerOpen, Talking
    <2>2. ReplyFlows(c)
      BY <2>1, TypesAt
    <2>3. PICK kind \in {"ok", "error"}, bytes \in Seq(Nat) :
            /\ InReply(c, kind, bytes)
            /\ Untroubled /\ c \in Testers => bytes = Original
      BY <2>1, <2>2 DEF ReplyFlows
    <2>4. sout[c] = <<>>
      BY <2>1, <2>2 DEF ReplyFlows
    <2>5. cgot[c] = bytes /\ clen[c] = Len(bytes) /\ ccsum[c] = Csum(bytes)
      <3>1. PICK g \in Seq(Nat) : g = cgot[c]
        BY TypesAt
      <3>2. g \o Values(<<>> \o <<>>) = bytes
        BY <1>2, <2>3, <2>4, <3>1 DEF InReply
      <3>3. Join(<<>>, <<>>) = <<>>
        <4>1. <<>> \in Seq(Items)
          OBVIOUS
        <4> QED BY <4>1, JoinLaws
      <3>4. Values(<<>>) = <<>>
        BY DEF Values
      <3>5. Join(g, <<>>) = g
        BY JoinLaws
      <3>6. g = bytes
        BY <3>2, <3>3, <3>4, <3>5 DEF Join
      <3> QED BY <1>2, <2>3, <3>1, <3>6 DEF InReply
    <2>6. Untroubled => Asserts(c)
      BY <2>3, <2>5 DEF Asserts
    <2>7. EndsWell(c)'
      BY <1>1, <1>3, <1>4, <1>5, <2>1, <2>3, <2>5, <2>6 DEF EndsWell
    <2> QED BY <1>2, <1>3, <2>7, EndStep
  <1> QED BY <1>6, <1>7

(* A client breaks off. *)
LEMMA ClientLeavesStep ==
  ASSUME HttpInv, NEW c \in Clients, ClientLeaves(c)
  PROVE  StepAt(c)
  <1>1. PICK how \in {"failed", "left"} :
          ClientEnds(c, how) /\ (how = "failed" => reset[c])
    BY DEF ClientLeaves
  <1>2. ClientOpen(c)
    BY DEF ClientLeaves
  <1>3. Alone(c) /\ cpc'[c] = how
    <2>1. UNCHANGED <<asks, cout, cbuf, clen, ccsum, cgot, worker, toServer, reset, server, files>>
      BY DEF ClientLeaves
    <2> QED BY <1>1, <2>1, EndsAlone
  <1>4. EndsWell(c)'
    <2>1. server' = server
      BY DEF ClientLeaves
    <2>2. CASE how = "left"
      <3>1. ~ Untroubled'
        BY <1>3, <2>2 DEF Untroubled
      <3> QED BY <1>3, <2>2, <3>1 DEF EndsWell
    <2>3. CASE how = "failed"
      <3>1. server # "up"
        BY <1>1, <1>2, <2>3, TypesAt DEF Talking, RequestFlows
      <3>2. Untroubled' => Untroubled
        BY <1>2, <1>3, WasUntroubled DEF Alone, ClientOpen
      <3>3. ~ Untroubled'
        BY <3>1, <3>2, TypesAt
      <3> QED BY <2>1, <3>1, <3>3 DEF EndsWell
    <2> QED BY <2>2, <2>3
  <1> QED BY <1>2, <1>3, <1>4, EndStep

(* A worker moves by itself, and its client stays as it is. *)
WorkerAlone(c) ==
  /\ asks' = asks /\ cpc' = cpc /\ cout' = cout /\ cbuf' = cbuf /\ clen' = clen
  /\ ccsum' = ccsum /\ cgot' = cgot /\ server' = server /\ disk' = disk
  /\ written' = written /\ gen' = gen
  /\ \A d \in Clients \ {c} :
       /\ spc'[d] = spc[d] /\ sbuf'[d] = sbuf[d] /\ ssize'[d] = ssize[d]
       /\ sfd'[d] = sfd[d] /\ sdata'[d] = sdata[d] /\ sout'[d] = sout[d]
       /\ toServer'[d] = toServer[d] /\ toClient'[d] = toClient[d] /\ reset'[d] = reset[d]
  /\ HttpTypes'

(* It suffices that both flows go on, if there is somebody at the other end. *)
LEMMA WorkerMoves ==
  ASSUME HttpInv, NEW c \in Clients, WorkerAlone(c), server = "up", spc[c] # "closed",
         Bounds(c)', FileStays(c)',
         Talking(c) => RequestFlows(c)' /\ ReplyFlows(c)'
  PROVE  StepAt(c)
  <1>1. (Talking(c)' <=> Talking(c)) /\ (ClientOpen(c)' <=> ClientOpen(c))
    BY DEF WorkerAlone, Talking, ClientOpen
  <1>2. Untroubled' <=> Untroubled
    BY DEF WorkerAlone, Untroubled
  <1>3. EndsWell(c)
    BY TypesAt
  <1>4. EndsWell(c)'
    BY <1>1, <1>2, <1>3 DEF EndsWell, WorkerAlone
  <1>5. Conn(c)'
    BY <1>1, <1>4 DEF Conn
  <1>6. \A d \in Clients \ {c} : Kept(d) /\ reset'[d] = reset[d] /\ cpc'[d] = cpc[d]
    BY DEF Kept, WorkerAlone
  <1> QED BY <1>5, <1>6 DEF StepAt, WorkerAlone, files

(* A worker that is not done has a client as long as nothing is amiss. *)
LEMMA SomebodyThere ==
  ASSUME HttpInv, NEW c \in Clients, server = "up", spc[c] # "closed", Untroubled
  PROVE  ClientOpen(c) /\ Talking(c)
  <1>1. EndsWell(c)
    BY TypesAt
  <1> QED BY <1>1 DEF EndsWell, Talking

(* What a worker does between the request and the reply. *)
LEMMA Between ==
  ASSUME HttpInv, NEW c \in Clients, WorkerAlone(c), Talking(c),
         spc[c] \notin {"head", "send", "closed"},
         spc'[c] \notin {"spin", "send", "closed"},
         sbuf' = sbuf, toServer' = toServer, toClient' = toClient, reset' = reset, sout' = sout
  PROVE  RequestFlows(c)' /\ ReplyFlows(c)'
  <1>1. RequestFlows(c) /\ ReplyFlows(c)
    BY TypesAt
  <1>2. RequestFlows(c)'
    BY <1>1 DEF RequestFlows, WorkerAlone
  <1>3. ReplyFlows(c)'
    BY <1>1 DEF ReplyFlows, WorkerAlone
  <1> QED BY <1>2, <1>3

(* A worker that has the request makes its reply. *)
LEMMA AnswerFlows ==
  ASSUME HttpInv, NEW c \in Clients, WorkerAlone(c), Talking(c),
         spc[c] \notin {"head", "send", "closed"}, spc'[c] = "send",
         sbuf' = sbuf, toServer' = toServer, toClient' = toClient, reset' = reset,
         NEW kind \in {"ok", "error"}, NEW bytes \in Seq(Nat), sout'[c] = Reply(kind, bytes),
         Untroubled /\ c \in Testers => bytes = Original
  PROVE  RequestFlows(c)' /\ ReplyFlows(c)'
  <1>1. RequestFlows(c) /\ ReplyFlows(c)
    BY TypesAt
  <1>2. RequestFlows(c)'
    BY <1>1 DEF RequestFlows, WorkerAlone
  <1>3. cbuf[c] = <<>> /\ toClient[c] = <<>> /\ cpc[c] # "body"
    BY <1>1 DEF ReplyFlows
  <1>4. <<>> \o (<<>> \o Reply(kind, bytes)) = Reply(kind, bytes)
    <2>1. PICK r \in Seq(Items) : r = Reply(kind, bytes)
      BY ReplyIs
    <2>2. Join(<<>>, r) = r
      BY JoinLaws
    <2> QED BY <2>1, <2>2 DEF Join
  <1>5. InReply(c, kind, bytes)'
    BY <1>3, <1>4 DEF InReply, WorkerAlone
  <1>6. Untroubled' <=> Untroubled
    BY DEF WorkerAlone, Untroubled
  <1>7. ReplyFlows(c)'
    BY <1>5, <1>6 DEF ReplyFlows
  <1> QED BY <1>2, <1>7

LEMMA ErrorReplyIs ==
  <<1>> \in Seq(Nat) /\ ErrorReply = Reply("error", <<1>>) /\ ErrorReply \in Seq(Items)
  <1>1. PICK b \in Seq(Nat) : b = <<1>>
    <2>1. 1 \in Nat
      OBVIOUS
    <2>2. PICK n \in Nat : n = 1
      BY <2>1
    <2>3. <<n>> \in Seq(Nat)
      OBVIOUS
    <2> QED BY <2>2, <2>3
  <1>2. Reply("error", b) \in Seq(Items)
    BY ReplyIs
  <1> QED BY <1>1, <1>2 DEF ErrorReply

(* A worker reads some of the request. *)
LEMMA RequestReadStep ==
  ASSUME HttpInv, NEW c \in Clients, RequestRead(c)
  PROVE  StepAt(c)
  <1>1. /\ server = "up" /\ spc[c] = "head" /\ asks' = asks /\ cpc' = cpc /\ cout' = cout
        /\ cbuf' = cbuf /\ clen' = clen /\ ccsum' = ccsum /\ cgot' = cgot
        /\ ssize' = ssize /\ sfd' = sfd /\ sdata' = sdata /\ sout' = sout
        /\ toClient' = toClient /\ reset' = reset /\ server' = server /\ disk' = disk
        /\ written' = written /\ gen' = gen
    BY DEF RequestRead, Working, client, files
  <1>2. PICK k \in 1 .. Len(toServer[c]) :
          /\ toServer' = [toServer EXCEPT ![c] = Cut(@, k)[2]]
          /\ sbuf' = [sbuf EXCEPT ![c] = @ \o Cut(toServer[c], k)[1]]
          /\ spc' = [spc EXCEPT ![c] = IF HeadSize(sbuf'[c]) > 0 THEN "stat" ELSE "head"]
    BY DEF RequestRead, Goes
  <1>3. /\ toServer'[c] = Cut(toServer[c], k)[2] /\ toServer' \in [Clients -> Seq(Items)]
        /\ \A d \in Clients \ {c} : toServer'[d] = toServer[d]
        /\ Len(toServer'[c]) <= SocketSize
        /\ \A t \in Seq(Items) : Moved(Items, toServer[c], t, k, toServer'[c],
                                       t \o Cut(toServer[c], k)[1])
    <2>1. toServer \in [Clients -> Seq(Items)]
      BY DEF HttpInv, HttpTypes
    <2>2. toServer' = [toServer EXCEPT ![c] = Cut(@, k)[2]]
      BY <1>2
    <2>3. Len(toServer[c]) <= SocketSize /\ SocketSize \in Nat
      BY TypesAt DEF Bounds
    <2>4. TakenFrom(toServer, c, k, toServer')
      BY <2>1, <2>2, Taken
    <2>5. Len(toServer'[c]) \in Nat /\ Len(toServer[c]) \in Nat /\ Len(toServer'[c]) < Len(toServer[c])
      BY <2>4 DEF TakenFrom
    <2>6. Len(toServer'[c]) <= SocketSize
      BY <2>3, <2>5
    <2> QED BY <2>4, <2>6, Zenon DEF TakenFrom
  <1>4. PICK buf \in Seq(Items) :
          /\ buf = sbuf[c] \o Cut(toServer[c], k)[1]
          /\ Moved(Items, toServer[c], sbuf[c], k, toServer'[c], buf)
    <2>1. sbuf[c] \in Seq(Items)
      BY TypesAt
    <2>2. Moved(Items, toServer[c], sbuf[c], k, toServer'[c],
                sbuf[c] \o Cut(toServer[c], k)[1])
      BY <1>3, <2>1
    <2> QED BY <2>2 DEF Moved
  <1>5. /\ sbuf'[c] = buf /\ sbuf' \in [Clients -> Seq(Items)]
        /\ \A d \in Clients \ {c} : sbuf'[d] = sbuf[d]
    <2>1. sbuf' = [sbuf EXCEPT ![c] = buf]
      BY <1>2, <1>4
    <2> QED BY <2>1 DEF HttpInv, HttpTypes
  <1>6. /\ spc'[c] = (IF HeadSize(buf) > 0 THEN "stat" ELSE "head")
        /\ \A d \in Clients \ {c} : spc'[d] = spc[d]
        /\ spc' \in [Clients -> {"head", "stat", "open", "read", "send", "closed", "spin"}]
    BY <1>2, <1>5 DEF HttpInv, HttpTypes
  <1>7. HttpTypes'
    BY <1>1, <1>3, <1>5, <1>6 DEF HttpInv, HttpTypes
  <1>8. WorkerAlone(c)
    BY <1>1, <1>3, <1>5, <1>6, <1>7 DEF WorkerAlone
  <1>9. Bounds(c) /\ FileStays(c)
    BY TypesAt
  <1>10. Bounds(c)' /\ FileStays(c)'
    BY <1>1, <1>3, <1>6, <1>9 DEF Bounds, FileStays
  <1>11. ASSUME Talking(c) PROVE RequestFlows(c)' /\ ReplyFlows(c)'
    <2>1. RequestFlows(c) /\ ReplyFlows(c)
      BY <1>11, TypesAt
    <2>2. PICK r \in Seq(Items), u \in Seq(Items), o \in Seq(Items) :
            u = toServer'[c] /\ o = cout[c] /\ r = u \o o
      <3>1. PICK u \in Seq(Items), o \in Seq(Items) : u = toServer'[c] /\ o = cout[c]
        BY <1>3, TypesAt
      <3>2. u \o o \in Seq(Items)
        BY ConcatProperties
      <3> QED BY <3>1, <3>2
    <2>3. buf \o r = Request
      <3>1. buf \o (toServer'[c] \o cout[c]) = sbuf[c] \o (toServer[c] \o cout[c])
        <4>1. \A rest \in Seq(Items) :
                buf \o (toServer'[c] \o rest) = sbuf[c] \o (toServer[c] \o rest)
          BY <1>4, Zenon DEF Moved
        <4>2. cout[c] \in Seq(Items)
          BY TypesAt
        <4> QED BY <4>1, <4>2, Zenon
      <3> QED BY <2>1, <2>2, <3>1 DEF RequestFlows
    <2>4. ASSUME HeadSize(buf) > 0 PROVE u = <<>> /\ o = <<>>
      <3>1. r = <<>>
        <4>1. \A b, x \in Seq(Items) : b \o x = Request /\ HeadSize(b) > 0 => x = <<>>
          BY HeadOfRequest
        <4> QED BY <2>3, <2>4, <4>1
      <3>2. Len(u \o o) = Len(u) + Len(o) /\ Len(u) \in Nat /\ Len(o) \in Nat
        BY ConcatProperties, LenProperties
      <3>3. Len(u) = 0 /\ Len(o) = 0
        <4>1. PICK m \in Nat, n \in Nat : m = Len(u) /\ n = Len(o) /\ Len(u \o o) = m + n
          BY <3>2
        <4>2. Len(r) = 0
          BY <3>1
        <4>3. m + n = 0
          BY <2>2, <4>1, <4>2
        <4> QED BY <4>1, <4>3
      <3> QED BY <3>3, EmptySeq
    <2>5. RequestFlows(c)'
      <3>1. sbuf'[c] \o (toServer'[c] \o cout'[c]) = Request
        BY <1>1, <1>5, <2>2, <2>3
      <3>2. spc'[c] # "head" => toServer'[c] = <<>> /\ cout'[c] = <<>>
        BY <1>1, <1>6, <2>2, <2>4
      <3>3. spc'[c] # "spin" /\ ~ reset'[c]
        BY <1>1, <1>6, <2>1 DEF RequestFlows
      <3> QED BY <1>1, <2>1, <3>1, <3>2, <3>3 DEF RequestFlows
    <2>6. ReplyFlows(c)'
      BY <1>1, <1>6, <2>1 DEF ReplyFlows
    <2> QED BY <2>5, <2>6
  <1> QED BY <1>1, <1>8, <1>10, <1>11, WorkerMoves

(* The client has gone: it was interrupted. *)
LEMMA RequestEofStep ==
  ASSUME HttpInv, NEW c \in Clients, RequestEof(c)
  PROVE  StepAt(c)
  <1>1. /\ server = "up" /\ spc[c] = "head" /\ ~ ClientOpen(c)
        /\ asks' = asks /\ cpc' = cpc /\ cout' = cout
        /\ cbuf' = cbuf /\ clen' = clen /\ ccsum' = ccsum /\ cgot' = cgot /\ sbuf' = sbuf
        /\ ssize' = ssize /\ sfd' = sfd /\ sdata' = sdata /\ toServer' = toServer
        /\ toClient' = toClient /\ reset' = reset /\ server' = server /\ disk' = disk
        /\ written' = written /\ gen' = gen
    BY DEF RequestEof, Working, client, net, files
  <1>2. PICK l \in {"spin", "send", "stat"} : spc' = [spc EXCEPT ![c] = l]
    BY DEF RequestEof, Goes, Answer
  <1>3. sout' = sout \/ sout' = [sout EXCEPT ![c] = ErrorReply]
    BY DEF RequestEof, Answer
  <1>4. /\ spc'[c] = l /\ \A d \in Clients \ {c} : spc'[d] = spc[d]
        /\ spc' \in [Clients -> {"head", "stat", "open", "read", "send", "closed", "spin"}]
    BY <1>2 DEF HttpInv, HttpTypes
  <1>5. /\ sout' \in [Clients -> Seq(Items)]
        /\ \A d \in Clients \ {c} : sout'[d] = sout[d]
    <2>1. sout \in [Clients -> Seq(Items)] /\ ErrorReply \in Seq(Items)
      BY ErrorReplyIs DEF HttpInv, HttpTypes
    <2> QED BY <1>3, <2>1
  <1>6. HttpTypes'
    BY <1>1, <1>4, <1>5 DEF HttpInv, HttpTypes
  <1>7. WorkerAlone(c)
    BY <1>1, <1>4, <1>5, <1>6 DEF WorkerAlone
  <1>8. ~ Untroubled /\ ~ Untroubled' /\ ~ Talking(c)
    <2>1. ~ Untroubled
      BY <1>1, SomebodyThere
    <2> QED BY <1>1, <2>1 DEF Untroubled, Talking
  <1>9. Bounds(c) /\ FileStays(c)
    BY TypesAt
  <1>10. Bounds(c)' /\ FileStays(c)'
    BY <1>1, <1>4, <1>8, <1>9 DEF Bounds, FileStays
  <1> QED BY <1>1, <1>7, <1>8, <1>10, WorkerMoves

(* What a read of a file can give. *)
LEMMA ContentIs ==
  ASSUME HttpInv, NEW f \in 0 .. 2
  PROVE  Content(f) \in Seq(Nat) /\ (f = 1 => Content(f) = Original)
  BY HttpAssumption DEF Content, HttpInv, WrittenSoFar

(* A worker looks the file up. *)
LEMMA StatFileStep ==
  ASSUME HttpInv, NEW c \in Clients, StatFile(c)
  PROVE  StepAt(c)
  <1>1. /\ server = "up" /\ spc[c] = "stat" /\ asks' = asks /\ cpc' = cpc /\ cout' = cout
        /\ cbuf' = cbuf /\ clen' = clen /\ ccsum' = ccsum /\ cgot' = cgot /\ sbuf' = sbuf
        /\ sfd' = sfd /\ sdata' = sdata /\ toServer' = toServer
        /\ toClient' = toClient /\ reset' = reset /\ server' = server /\ disk' = disk
        /\ written' = written /\ gen' = gen
    BY DEF StatFile, Working, client, net, files
  <1>2. Bounds(c) /\ FileStays(c) /\ Len(<<>>) = 0
    BY TypesAt
  <1>3. sdata[c] = <<>>
    BY <1>1, <1>2 DEF Bounds
  <1>4. Untroubled' => Untroubled
    BY <1>1 DEF Untroubled
  <1>5. PICK x \in Seq(Nat), n \in Nat :
          x = Content(disk) /\ n = Len(x) /\ (disk = 1 => x = Original)
    <2>1. disk \in 0 .. 2
      BY DEF HttpInv, HttpTypes
    <2>2. Content(disk) \in Seq(Nat) /\ (disk = 1 => Content(disk) = Original)
      BY <2>1, ContentIs
    <2> QED BY <2>2, LenProperties
  <1>6. CASE asks[c] = "refused" \/ disk = 0
    <2>1. /\ ssize' = ssize /\ spc' = [spc EXCEPT ![c] = "send"]
          /\ sout' = [sout EXCEPT ![c] = ErrorReply]
      BY <1>6 DEF StatFile, Answer, Goes
    <2>2. /\ spc'[c] = "send" /\ \A d \in Clients \ {c} : spc'[d] = spc[d]
          /\ spc' \in [Clients -> {"head", "stat", "open", "read", "send", "closed", "spin"}]
      BY <2>1 DEF HttpInv, HttpTypes
    <2>3. /\ sout'[c] = Reply("error", <<1>>) /\ sout' \in [Clients -> Seq(Items)]
          /\ \A d \in Clients \ {c} : sout'[d] = sout[d]
      BY <2>1, ErrorReplyIs DEF HttpInv, HttpTypes
    <2>4. HttpTypes'
      BY <1>1, <2>1, <2>2, <2>3 DEF HttpInv, HttpTypes
    <2>5. WorkerAlone(c)
      BY <1>1, <2>1, <2>2, <2>3, <2>4 DEF WorkerAlone
    <2>6. Bounds(c)' /\ FileStays(c)'
      BY <1>1, <1>2, <2>1, <2>2 DEF Bounds, FileStays
    <2>7. ~ (Untroubled /\ c \in Testers)
      BY <1>2, <1>6, TypesAt DEF FileStays
    <2>8. Talking(c) => RequestFlows(c)' /\ ReplyFlows(c)'
      BY <1>1, <2>2, <2>3, <2>5, <2>7, ErrorReplyIs, AnswerFlows, <2>1
    <2> QED BY <1>1, <2>5, <2>6, <2>8, WorkerMoves
  <1>7. CASE ~ (asks[c] = "refused" \/ disk = 0)
    <2>1. /\ ssize' = [ssize EXCEPT ![c] = n]
          /\ IF x = <<>> THEN Answer(c, Reply("ok", <<>>)) ELSE Goes(c, "open") /\ UNCHANGED sout
      BY <1>5, <1>7 DEF StatFile
    <2>2. /\ ssize'[c] = n /\ ssize' \in [Clients -> Nat]
          /\ \A d \in Clients \ {c} : ssize'[d] = ssize[d]
      BY <2>1 DEF HttpInv, HttpTypes
    <2>3. CASE x = <<>>
      <3>1. /\ spc' = [spc EXCEPT ![c] = "send"] /\ sout' = [sout EXCEPT ![c] = Reply("ok", x)]
        BY <2>1, <2>3 DEF Answer, Goes
      <3>2. /\ spc'[c] = "send" /\ \A d \in Clients \ {c} : spc'[d] = spc[d]
            /\ spc' \in [Clients -> {"head", "stat", "open", "read", "send", "closed", "spin"}]
        BY <3>1 DEF HttpInv, HttpTypes
      <3>3. /\ sout'[c] = Reply("ok", x) /\ sout' \in [Clients -> Seq(Items)]
            /\ \A d \in Clients \ {c} : sout'[d] = sout[d]
        <4>1. Reply("ok", x) \in Seq(Items)
          BY ReplyIs
        <4> QED BY <3>1, <4>1 DEF HttpInv, HttpTypes
      <3>4. HttpTypes'
        BY <1>1, <2>2, <3>2, <3>3 DEF HttpInv, HttpTypes
      <3>5. WorkerAlone(c)
        BY <1>1, <2>2, <3>2, <3>3, <3>4 DEF WorkerAlone
      <3>6. Bounds(c)' /\ FileStays(c)'
        BY <1>1, <1>2, <1>3, <2>2, <3>2 DEF Bounds, FileStays
      <3>7. Untroubled /\ c \in Testers => x = Original
        BY <1>5, TypesAt
      <3>8. Talking(c) => RequestFlows(c)' /\ ReplyFlows(c)'
        BY <1>1, <3>2, <3>3, <3>5, <3>7, <3>1, AnswerFlows
      <3> QED BY <1>1, <3>5, <3>6, <3>8, WorkerMoves
    <2>4. CASE x # <<>>
      <3>1. spc' = [spc EXCEPT ![c] = "open"] /\ sout' = sout
        BY <2>1, <2>4 DEF Goes
      <3>2. /\ spc'[c] = "open" /\ \A d \in Clients \ {c} : spc'[d] = spc[d]
            /\ spc' \in [Clients -> {"head", "stat", "open", "read", "send", "closed", "spin"}]
        BY <3>1 DEF HttpInv, HttpTypes
      <3>3. HttpTypes'
        BY <1>1, <2>2, <3>1, <3>2 DEF HttpInv, HttpTypes
      <3>4. WorkerAlone(c)
        BY <1>1, <2>2, <3>1, <3>2, <3>3 DEF WorkerAlone
      <3>5. Untroubled => n = Len(Original)
        BY <1>5, TypesAt
      <3>6. Bounds(c)' /\ FileStays(c)'
        BY <1>1, <1>2, <1>3, <1>4, <2>2, <3>2, <3>5 DEF Bounds, FileStays
      <3>7. Talking(c) => RequestFlows(c)' /\ ReplyFlows(c)'
        BY <1>1, <3>1, <3>2, <3>4, Between
      <3> QED BY <1>1, <3>4, <3>6, <3>7, WorkerMoves
    <2> QED BY <2>3, <2>4
  <1> QED BY <1>6, <1>7

(* A worker opens the file: it may be gone, or another one. *)
LEMMA OpenFileStep ==
  ASSUME HttpInv, NEW c \in Clients, OpenFile(c)
  PROVE  HttpInv'
  <1>1. CASE disk = 0
    <2>1. ServerExits /\ ~ Untroubled
      BY <1>1, TypesAt DEF OpenFile
    <2> QED BY <2>1, ServerExitsStep
  <1>2. CASE disk # 0
    <2>1. /\ server = "up" /\ spc[c] = "open" /\ asks' = asks /\ cpc' = cpc /\ cout' = cout
          /\ cbuf' = cbuf /\ clen' = clen /\ ccsum' = ccsum /\ cgot' = cgot /\ sbuf' = sbuf
          /\ ssize' = ssize /\ sdata' = sdata /\ sout' = sout /\ toServer' = toServer
          /\ toClient' = toClient /\ reset' = reset /\ server' = server /\ disk' = disk
          /\ written' = written /\ gen' = gen
          /\ sfd' = [sfd EXCEPT ![c] = disk] /\ spc' = [spc EXCEPT ![c] = "read"]
      BY <1>2 DEF OpenFile, Working, Goes, client, net, files
    <2>2. /\ spc'[c] = "read" /\ \A d \in Clients \ {c} : spc'[d] = spc[d]
          /\ spc' \in [Clients -> {"head", "stat", "open", "read", "send", "closed", "spin"}]
      BY <2>1 DEF HttpInv, HttpTypes
    <2>3. /\ sfd'[c] = disk /\ \A d \in Clients \ {c} : sfd'[d] = sfd[d]
          /\ sfd' \in [Clients -> 0 .. 2]
      BY <2>1 DEF HttpInv, HttpTypes
    <2>4. HttpTypes'
      BY <2>1, <2>2, <2>3 DEF HttpInv, HttpTypes
    <2>5. WorkerAlone(c)
      BY <2>1, <2>2, <2>3, <2>4 DEF WorkerAlone
    <2>6. Bounds(c) /\ FileStays(c) /\ (Untroubled => disk = 1) /\ (Untroubled' => Untroubled)
      BY <2>1, TypesAt DEF Untroubled
    <2>7. Bounds(c)' /\ FileStays(c)'
      BY <2>1, <2>2, <2>3, <2>6 DEF Bounds, FileStays
    <2>8. Talking(c) => RequestFlows(c)' /\ ReplyFlows(c)'
      BY <2>1, <2>2, <2>5, Between
    <2>9. StepAt(c)
      BY <2>1, <2>5, <2>7, <2>8, WorkerMoves
    <2> QED BY <2>9, StepAtKeeps
  <1> QED BY <1>1, <1>2

(* The buffer is full of naturals; with nothing missing it is what was read. *)
LEMMA FilledIs ==
  ASSUME NEW bytes \in Seq(Nat), NEW n \in Nat, Len(bytes) <= n
  PROVE  /\ Filled(bytes, n) \in Seq(Nat)
         /\ Len(bytes) = n => Filled(bytes, n) = bytes
  <1>1. PICK m \in Nat : m = n - Len(bytes)
    BY LenProperties
  <1>2. PICK g \in Seq(Nat) : g = [i \in 1 .. m |-> Garbage] /\ (m = 0 => g = <<>>)
    <2>1. Garbage \in Nat
      BY DEF Garbage
    <2>2. [i \in 1 .. m |-> Garbage] \in Seq(Nat)
      BY <2>1, IsASeq
    <2>3. PICK g \in Seq(Nat) : g = [i \in 1 .. m |-> Garbage]
      BY <2>2
    <2>4. DOMAIN g = 1 .. m
      BY <2>3
    <2>5. Len(g) = m
      BY <2>4, LenProperties
    <2>6. m = 0 => g = <<>>
      BY <2>5, EmptySeq
    <2> QED BY <2>3, <2>6
  <1>3. Filled(bytes, n) = Join(bytes, g)
    BY <1>1, <1>2 DEF Filled, Join
  <1>4. Join(bytes, g) \in Seq(Nat) /\ Join(bytes, <<>>) = bytes
    BY JoinLaws
  <1>5. Len(bytes) = n => m = 0
    BY <1>1
  <1> QED BY <1>2, <1>3, <1>4, <1>5

(* A worker reads the file. *)
LEMMA ReadFileStep ==
  ASSUME HttpInv, NEW c \in Clients, ReadFile(c)
  PROVE  StepAt(c)
  <1>1. /\ server = "up" /\ spc[c] = "read" /\ asks' = asks /\ cpc' = cpc /\ cout' = cout
        /\ cbuf' = cbuf /\ clen' = clen /\ ccsum' = ccsum /\ cgot' = cgot /\ sbuf' = sbuf
        /\ ssize' = ssize /\ sfd' = sfd /\ toServer' = toServer
        /\ toClient' = toClient /\ reset' = reset /\ server' = server /\ disk' = disk
        /\ written' = written /\ gen' = gen
    BY DEF ReadFile, Working, client, net, files
  <1>2. Bounds(c) /\ FileStays(c) /\ (Untroubled' => Untroubled)
    BY <1>1, TypesAt DEF Untroubled
  <1>3. PICK x \in Seq(Nat), n \in Nat :
          x = Content(sfd[c]) /\ n = ssize[c] /\ (sfd[c] = 1 => x = Original)
    <2>1. PICK f \in 0 .. 2 : f = sfd[c]
      BY TypesAt
    <2>2. Content(f) \in Seq(Nat) /\ (f = 1 => Content(f) = Original)
      BY ContentIs
    <2> QED BY <2>1, <2>2, TypesAt
  <1>4. PICK data \in Seq(Nat) :
          /\ data = FirstOf(x, n) /\ Len(data) <= n
          /\ Len(x) = n => data = x
    BY FirstParts
  <1>5. IF Len(data) = n \/ data = sdata[c]
          THEN Answer(c, Reply("ok", Filled(data, n))) /\ sdata' = sdata
          ELSE sdata' = [sdata EXCEPT ![c] = data] /\ spc' = spc /\ sout' = sout
    BY <1>3, <1>4 DEF ReadFile
  <1>6. CASE Len(data) = n \/ data = sdata[c]
    <2>1. PICK bytes \in Seq(Nat) :
            bytes = Filled(data, n) /\ (Len(data) = n => bytes = data)
      BY <1>4, FilledIs
    <2>2. /\ spc' = [spc EXCEPT ![c] = "send"] /\ sdata' = sdata
          /\ sout' = [sout EXCEPT ![c] = Reply("ok", bytes)]
      BY <1>5, <1>6, <2>1 DEF Answer, Goes
    <2>3. /\ spc'[c] = "send" /\ \A d \in Clients \ {c} : spc'[d] = spc[d]
          /\ spc' \in [Clients -> {"head", "stat", "open", "read", "send", "closed", "spin"}]
      BY <2>2 DEF HttpInv, HttpTypes
    <2>4. /\ sout'[c] = Reply("ok", bytes) /\ sout' \in [Clients -> Seq(Items)]
          /\ \A d \in Clients \ {c} : sout'[d] = sout[d]
      <3>1. Reply("ok", bytes) \in Seq(Items)
        BY ReplyIs
      <3> QED BY <2>2, <3>1 DEF HttpInv, HttpTypes
    <2>5. HttpTypes'
      BY <1>1, <2>2, <2>3, <2>4 DEF HttpInv, HttpTypes
    <2>6. WorkerAlone(c)
      BY <1>1, <2>2, <2>3, <2>4, <2>5 DEF WorkerAlone
    <2>7. Bounds(c)' /\ FileStays(c)'
      BY <1>1, <1>2, <2>2, <2>3 DEF Bounds, FileStays
    <2>8. Untroubled => bytes = Original
      <3> SUFFICES ASSUME Untroubled PROVE bytes = Original
        OBVIOUS
      <3>1. sfd[c] = 1 /\ ssize[c] = Len(Original)
        BY <1>1, <1>2 DEF FileStays
      <3>2. x = Original /\ Len(x) = n
        BY <1>3, <3>1
      <3>3. data = Original /\ Len(data) = n
        BY <1>4, <3>2
      <3> QED BY <2>1, <3>3
    <2>9. Talking(c) => RequestFlows(c)' /\ ReplyFlows(c)'
      BY <1>1, <2>3, <2>4, <2>6, <2>8, AnswerFlows
    <2> QED BY <1>1, <2>6, <2>7, <2>9, WorkerMoves
  <1>7. CASE ~ (Len(data) = n \/ data = sdata[c])
    <2>1. sdata' = [sdata EXCEPT ![c] = data] /\ spc' = spc /\ sout' = sout
      BY <1>5, <1>7
    <2>2. /\ sdata'[c] = data /\ sdata' \in [Clients -> Seq(Nat)]
          /\ \A d \in Clients \ {c} : sdata'[d] = sdata[d]
      BY <2>1 DEF HttpInv, HttpTypes
    <2>3. HttpTypes'
      BY <1>1, <2>1, <2>2 DEF HttpInv, HttpTypes
    <2>4. WorkerAlone(c)
      BY <1>1, <2>1, <2>2, <2>3 DEF WorkerAlone
    <2>5. Bounds(c)' /\ FileStays(c)'
      BY <1>1, <1>2, <1>3, <1>4, <2>1, <2>2 DEF Bounds, FileStays
    <2>6. Talking(c) => RequestFlows(c)' /\ ReplyFlows(c)'
      BY <1>1, <2>1, <2>4, Between
    <2> QED BY <1>1, <2>4, <2>5, <2>6, WorkerMoves
  <1> QED BY <1>6, <1>7

(* A worker writes its reply, as much of it as the socket takes. *)
LEMMA SendReplyStep ==
  ASSUME HttpInv, NEW c \in Clients, SendReply(c)
  PROVE  HttpInv'
  <1>1. server = "up" /\ spc[c] = "send"
    BY DEF SendReply, Working
  <1>2. Bounds(c) /\ FileStays(c)
    BY TypesAt
  <1>3. CASE ClientOpen(c)
    <2>1. /\ asks' = asks /\ cpc' = cpc /\ cout' = cout
          /\ cbuf' = cbuf /\ clen' = clen /\ ccsum' = ccsum /\ cgot' = cgot /\ sbuf' = sbuf
          /\ ssize' = ssize /\ sfd' = sfd /\ sdata' = sdata /\ toServer' = toServer
          /\ spc' = spc /\ reset' = reset /\ server' = server /\ disk' = disk
          /\ written' = written /\ gen' = gen /\ Write(sout, toClient, c)
      BY <1>3 DEF SendReply, client, net, files
    <2>2. PICK k \in 1 .. Len(sout[c]) :
            /\ Len(toClient[c]) + k <= SocketSize
            /\ sout' = [sout EXCEPT ![c] = Cut(@, k)[2]]
            /\ toClient' = [toClient EXCEPT ![c] = @ \o Cut(sout[c], k)[1]]
      BY <2>1 DEF Write
    <2>3. /\ sout' \in [Clients -> Seq(Items)]
          /\ \A d \in Clients \ {c} : sout'[d] = sout[d]
          /\ \A t \in Seq(Items) : Moved(Items, sout[c], t, k, sout'[c],
                                         t \o Cut(sout[c], k)[1])
      <3>1. sout \in [Clients -> Seq(Items)]
        BY DEF HttpInv, HttpTypes
      <3>2. sout' = [sout EXCEPT ![c] = Cut(@, k)[2]]
        BY <2>2
      <3>3. TakenFrom(sout, c, k, sout')
        BY <3>1, <3>2, Taken
      <3> QED BY <3>3, Zenon DEF TakenFrom
    <2>4. PICK v \in Seq(Items) :
            /\ v = toClient[c] \o Cut(sout[c], k)[1]
            /\ Moved(Items, sout[c], toClient[c], k, sout'[c], v)
      <3>1. toClient[c] \in Seq(Items)
        BY TypesAt
      <3>2. Moved(Items, sout[c], toClient[c], k, sout'[c],
                  toClient[c] \o Cut(sout[c], k)[1])
        BY <2>3, <3>1
      <3> QED BY <3>2 DEF Moved
    <2>5. /\ toClient'[c] = v /\ toClient' \in [Clients -> Seq(Items)]
          /\ \A d \in Clients \ {c} : toClient'[d] = toClient[d]
      <3>1. toClient' = [toClient EXCEPT ![c] = v]
        BY <2>2, <2>4
      <3> QED BY <3>1 DEF HttpInv, HttpTypes
    <2>6. Len(toClient'[c]) <= SocketSize /\ toClient'[c] \o sout'[c] = toClient[c] \o sout[c]
      <3>1. Len(v) = Len(toClient[c]) + k /\ v \o sout'[c] = toClient[c] \o sout[c]
        BY <2>4, Zenon DEF Moved
      <3> QED BY <2>2, <2>5, <3>1
    <2>7. HttpTypes'
      BY <2>1, <2>3, <2>5 DEF HttpInv, HttpTypes
    <2>8. WorkerAlone(c)
      BY <2>1, <2>3, <2>5, <2>7 DEF WorkerAlone
    <2>9. Bounds(c)' /\ FileStays(c)'
      BY <1>1, <1>2, <2>1, <2>6 DEF Bounds, FileStays
    <2>10. ASSUME Talking(c) PROVE RequestFlows(c)' /\ ReplyFlows(c)'
      <3>1. RequestFlows(c) /\ ReplyFlows(c)
        BY <2>10, TypesAt
      <3>2. RequestFlows(c)'
        BY <2>1, <3>1 DEF RequestFlows
      <3>3. PICK kind \in {"ok", "error"}, bytes \in Seq(Nat) :
              /\ InReply(c, kind, bytes)
              /\ Untroubled /\ c \in Testers => bytes = Original
        BY <1>1, <3>1 DEF ReplyFlows
      <3>4. InReply(c, kind, bytes)'
        BY <2>1, <2>6, <3>3 DEF InReply
      <3>5. Untroubled' <=> Untroubled
        BY <2>1 DEF Untroubled
      <3>6. ReplyFlows(c)'
        BY <1>1, <2>1, <3>3, <3>4, <3>5 DEF ReplyFlows
      <3> QED BY <3>2, <3>6
    <2>11. StepAt(c)
      BY <1>1, <2>8, <2>9, <2>10, WorkerMoves
    <2> QED BY <2>11, StepAtKeeps
  <1>4. CASE ~ ClientOpen(c)
    <2>1. ~ Untroubled /\ ~ Talking(c)
      BY <1>1, <1>4, SomebodyThere DEF Talking
    <2>2. CASE ServerExits
      BY <2>1, <2>2, ServerExitsStep
    <2>3. CASE ~ ServerExits
      <3>1. /\ asks' = asks /\ cpc' = cpc /\ cout' = cout
            /\ cbuf' = cbuf /\ clen' = clen /\ ccsum' = ccsum /\ cgot' = cgot /\ sbuf' = sbuf
            /\ ssize' = ssize /\ sfd' = sfd /\ sdata' = sdata /\ toServer' = toServer
            /\ toClient' = toClient /\ spc' = spc /\ reset' = reset /\ server' = server
            /\ disk' = disk /\ written' = written /\ gen' = gen
            /\ sout' = [sout EXCEPT ![c] = <<>>]
        BY <1>4, <2>3 DEF SendReply, client, net, files
      <3>2. /\ sout' \in [Clients -> Seq(Items)]
            /\ \A d \in Clients \ {c} : sout'[d] = sout[d]
        <4>1. sout \in [Clients -> Seq(Items)] /\ <<>> \in Seq(Items)
          BY DEF HttpInv, HttpTypes
        <4> QED BY <3>1, <4>1
      <3>3. HttpTypes'
        BY <3>1, <3>2 DEF HttpInv, HttpTypes
      <3>4. WorkerAlone(c)
        BY <3>1, <3>2, <3>3 DEF WorkerAlone
      <3>5. Bounds(c)' /\ FileStays(c)'
        BY <1>1, <1>2, <3>1 DEF Bounds, FileStays
      <3>6. StepAt(c)
        BY <1>1, <2>1, <3>4, <3>5, WorkerMoves
      <3> QED BY <3>6, StepAtKeeps
    <2> QED BY <2>2, <2>3
  <1> QED BY <1>3, <1>4

(* A worker closes the connection. *)
LEMMA CloseConnectionStep ==
  ASSUME HttpInv, NEW c \in Clients, CloseConnection(c)
  PROVE  StepAt(c)
  <1>1. /\ server = "up" /\ spc[c] = "send" /\ sout[c] = <<>>
        /\ asks' = asks /\ cpc' = cpc /\ cout' = cout
        /\ cbuf' = cbuf /\ clen' = clen /\ ccsum' = ccsum /\ cgot' = cgot /\ sbuf' = sbuf
        /\ ssize' = ssize /\ sfd' = sfd /\ sdata' = sdata /\ sout' = sout
        /\ toClient' = toClient /\ server' = server /\ disk' = disk
        /\ written' = written /\ gen' = gen
        /\ spc' = [spc EXCEPT ![c] = "closed"]
        /\ reset' = [reset EXCEPT ![c] = @ \/ toServer[c] # <<>>]
        /\ toServer' = [toServer EXCEPT ![c] = <<>>]
    BY DEF CloseConnection, Working, Goes, client, files
  <1>2. /\ spc'[c] = "closed" /\ \A d \in Clients \ {c} : spc'[d] = spc[d]
        /\ spc' \in [Clients -> {"head", "stat", "open", "read", "send", "closed", "spin"}]
    BY <1>1 DEF HttpInv, HttpTypes
  <1>3. /\ toServer'[c] = <<>> /\ \A d \in Clients \ {c} : toServer'[d] = toServer[d]
        /\ toServer' \in [Clients -> Seq(Items)]
    <2>1. toServer \in [Clients -> Seq(Items)] /\ <<>> \in Seq(Items)
      BY DEF HttpInv, HttpTypes
    <2> QED BY <1>1, <2>1
  <1>4. /\ (toServer[c] = <<>> => reset'[c] = reset[c])
        /\ \A d \in Clients \ {c} : reset'[d] = reset[d]
        /\ reset' \in [Clients -> BOOLEAN]
    <2>1. reset \in [Clients -> BOOLEAN] /\ reset[c] \in BOOLEAN
      BY DEF HttpInv, HttpTypes
    <2>2. PICK b \in BOOLEAN : b = (reset[c] \/ toServer[c] # <<>>)
      OBVIOUS
    <2>3. reset' = [reset EXCEPT ![c] = b]
      BY <1>1, <2>2
    <2>4. reset'[c] = b /\ reset' \in [Clients -> BOOLEAN]
          /\ \A d \in Clients \ {c} : reset'[d] = reset[d]
      BY <2>1, <2>3
    <2>5. toServer[c] = <<>> => b = reset[c]
      BY <2>1, <2>2
    <2> QED BY <2>4, <2>5
  <1>5. HttpTypes'
    BY <1>1, <1>2, <1>3, <1>4 DEF HttpInv, HttpTypes
  <1>6. WorkerAlone(c)
    BY <1>1, <1>2, <1>3, <1>4, <1>5 DEF WorkerAlone
  <1>7. Bounds(c) /\ FileStays(c) /\ Len(<<>>) = 0 /\ 0 <= SocketSize
    BY TypesAt
  <1>8. Bounds(c)' /\ FileStays(c)'
    BY <1>1, <1>2, <1>3, <1>7 DEF Bounds, FileStays
  <1>9. ASSUME Talking(c) PROVE StepAt(c)
    <2>1. RequestFlows(c) /\ ReplyFlows(c)
      BY <1>9, TypesAt
    <2>2. toServer[c] = <<>>
      BY <1>1, <2>1 DEF RequestFlows
    <2>3. RequestFlows(c)'
      BY <1>1, <1>2, <1>3, <1>4, <2>1, <2>2 DEF RequestFlows
    <2>4. PICK kind \in {"ok", "error"}, bytes \in Seq(Nat) :
            /\ InReply(c, kind, bytes)
            /\ Untroubled /\ c \in Testers => bytes = Original
      BY <1>1, <2>1 DEF ReplyFlows
    <2>5. InReply(c, kind, bytes)'
      BY <1>1, <2>4 DEF InReply
    <2>6. Untroubled' <=> Untroubled
      BY <1>1 DEF Untroubled
    <2>7. ReplyFlows(c)'
      BY <1>1, <1>2, <2>4, <2>5, <2>6 DEF ReplyFlows
    <2> QED BY <1>1, <1>6, <1>8, <2>3, <2>7, WorkerMoves
  <1>10. CASE ~ Talking(c)
    BY <1>1, <1>6, <1>8, <1>10, WorkerMoves
  <1> QED BY <1>9, <1>10

-----------------------------------------------------------------------------
(* The specification. *)

LEMMA InitHttpInv ==
  HttpInit => HttpInv
  <1> SUFFICES ASSUME HttpInit PROVE HttpInv
    OBVIOUS
  <1>1. Request \in Seq(Items) /\ Request # <<>> /\ <<>> \in Seq(Items) /\ <<>> \in Seq(Nat)
    BY HeadOfRequest
  <1>2. /\ asks \in [Clients -> {"file", "refused"}]
        /\ \A c \in Testers : asks[c] = "file"
    BY DEF HttpInit
  <1>3. HttpTypes
    BY <1>1, <1>2 DEF HttpInit, HttpTypes
  <1>4. WrittenSoFar
    <2>1. written = <<>> /\ Len(<<>>) = 0 /\ Len(Regenerated) \in Nat
      BY HttpAssumption, LenProperties DEF HttpInit
    <2> QED BY <1>1, <2>1 DEF WrittenSoFar
  <1>5. ASSUME NEW c \in Clients PROVE Conn(c)
    <2>1. /\ cpc[c] = "send" /\ cout[c] = Request /\ cbuf[c] = <<>> /\ cgot[c] = <<>>
          /\ spc[c] = "head" /\ sbuf[c] = <<>> /\ ssize[c] = 0 /\ sdata[c] = <<>>
          /\ sout[c] = <<>> /\ toServer[c] = <<>> /\ toClient[c] = <<>> /\ reset[c] = FALSE
      BY DEF HttpInit
    <2>2. Bounds(c)
      <3>1. Len(<<>>) = 0 /\ 0 <= SocketSize
        BY HttpAssumption
      <3> QED BY <2>1, <3>1 DEF Bounds
    <2>3. RequestFlows(c)
      <3>1. Join(<<>>, Request) = Request
        BY <1>1, JoinLaws
      <3>2. <<>> \o (<<>> \o Request) = Request
        BY <3>1 DEF Join
      <3> QED BY <1>1, <2>1, <3>2 DEF RequestFlows
    <2>4. ReplyFlows(c)
      BY <2>1 DEF ReplyFlows
    <2>5. EndsWell(c)
      BY <2>1 DEF EndsWell, ClientOpen
    <2>6. FileStays(c)
      BY <1>2, <2>1 DEF FileStays
    <2> QED BY <2>2, <2>3, <2>4, <2>5, <2>6 DEF Conn
  <1> QED BY <1>3, <1>4, <1>5 DEF HttpInit, HttpInv

LEMMA NextHttpInv ==
  HttpInv /\ [HttpNext]_httpVars => HttpInv'
  <1> SUFFICES ASSUME HttpInv, [HttpNext]_httpVars PROVE HttpInv'
    OBVIOUS
  <1>1. ASSUME NEW c \in Clients, ClientStep(c) PROVE HttpInv'
    <2>1. StepAt(c)
      BY <1>1, ClientSendStep, HeadReadStep, HeadEofStep, BodyReadStep, BodyEndStep
         DEF ClientStep
    <2> QED BY <2>1, StepAtKeeps
  <1>2. ASSUME NEW c \in Clients, ClientLeaves(c) PROVE HttpInv'
    <2>1. StepAt(c)
      BY <1>2, ClientLeavesStep
    <2> QED BY <2>1, StepAtKeeps
  <1>3. ASSUME NEW c \in Clients, WorkerStep(c) PROVE HttpInv'
    <2>1. CASE OpenFile(c) \/ SendReply(c)
      BY <2>1, OpenFileStep, SendReplyStep
    <2>2. CASE ~ (OpenFile(c) \/ SendReply(c))
      <3>1. StepAt(c)
        BY <1>3, <2>2, RequestReadStep, RequestEofStep, StatFileStep, ReadFileStep,
           CloseConnectionStep DEF WorkerStep
      <3> QED BY <3>1, StepAtKeeps
    <2> QED BY <2>1, <2>2
  <1>4. ASSUME NEW c \in Clients, RequestError(c) PROVE HttpInv'
    <2>1. ServerExits /\ ~ Untroubled
      BY <1>4 DEF RequestError, Untroubled
    <2> QED BY <2>1, ServerExitsStep
  <1>5. CASE Unlink \/ Create \/ WriteFile
    BY <1>5, FilesStep
  <1>6. CASE UNCHANGED httpVars
    <2>1. /\ asks' = asks /\ cpc' = cpc /\ cout' = cout /\ cbuf' = cbuf /\ clen' = clen
          /\ ccsum' = ccsum /\ cgot' = cgot /\ spc' = spc /\ sbuf' = sbuf /\ ssize' = ssize
          /\ sfd' = sfd /\ sdata' = sdata /\ sout' = sout /\ toServer' = toServer
          /\ toClient' = toClient /\ reset' = reset /\ server' = server
          /\ disk' = disk /\ written' = written /\ gen' = gen
      BY <1>6 DEF httpVars, client, worker, net, files
    <2>2. Untroubled' <=> Untroubled
      BY <2>1 DEF Untroubled
    <2>3. ASSUME NEW d \in Clients PROVE Conn(d)'
      <3>1. Conn(d) /\ Kept(d)
        BY <2>1 DEF HttpInv, Kept
      <3> QED BY <2>1, <2>2, <3>1, FrameConn
    <2>4. HttpTypes' /\ WrittenSoFar'
      BY <2>1 DEF HttpInv, HttpTypes, WrittenSoFar
    <2> QED BY <2>1, <2>2, <2>3, <2>4 DEF HttpInv
  <1> QED BY <1>1, <1>2, <1>3, <1>4, <1>5, <1>6 DEF HttpNext

(* What is on its way is always the rest of what was sent, however it was    *)
(* split, and belongs to one request and one reply.                          *)
THEOREM HttpInvariance ==
  HttpSpec => []HttpInv
  <1>1. HttpInit => HttpInv
    BY InitHttpInv
  <1>2. HttpInv /\ [HttpNext]_httpVars => HttpInv'
    BY NextHttpInv
  <1> QED BY <1>1, <1>2, PTL DEF HttpSpec

(* No socket holds more than it can, and no worker reads more of a file      *)
(* than the buffer that request_readfile allocated for it.                   *)
THEOREM HttpTypeCorrectness ==
  HttpSpec => []HttpTypeOK
  <1>1. HttpInv => HttpTypeOK
    BY DEF HttpInv, HttpTypes, Conn, Bounds, HttpTypeOK
  <1> QED BY <1>1, HttpInvariance, PTL

(* If no client is interrupted and no file replaced, no assertion of a       *)
(* client fails, testers get the bytes of the file, the server stays up and  *)
(* no worker loops: for any number of clients, any file and any socket size. *)
THEOREM NothingFailsByItself ==
  HttpSpec => []NoFailureOfItsOwn
  <1>1. HttpInv => NoFailureOfItsOwn
    <2> SUFFICES ASSUME HttpInv, Untroubled
                 PROVE  /\ server = "up"
                        /\ \A c \in Clients : cpc[c] # "failed" /\ spc[c] # "spin"
                        /\ \A c \in Testers : cpc[c] = "done" => cgot[c] = Original
      BY DEF NoFailureOfItsOwn
    <2>1. server = "up"
      BY DEF HttpInv
    <2>2. ASSUME NEW c \in Clients
          PROVE  /\ cpc[c] # "failed" /\ spc[c] # "spin"
                 /\ c \in Testers /\ cpc[c] = "done" => cgot[c] = Original
      <3>1. EndsWell(c)
        BY TypesAt
      <3>2. spc[c] # "spin"
        <4>1. CASE spc[c] = "closed"
          BY <4>1
        <4>2. CASE spc[c] # "closed"
          <5>1. Talking(c)
            BY <2>1, <4>2, SomebodyThere
          <5> QED BY <5>1, TypesAt DEF RequestFlows
        <4> QED BY <4>1, <4>2
      <3> QED BY <3>1, <3>2 DEF EndsWell
    <2>3. Testers \subseteq Clients
      BY DEF Clients
    <2> QED BY <2>1, <2>2, <2>3
  <1> QED BY <1>1, HttpInvariance, PTL

(* Whatever fileset.c does between stat, open and read: a client that gets   *)
(* to its assertions has as many bytes as announced, with that checksum.     *)
THEOREM RepliesAreConsistent ==
  HttpSpec => []ReplyIsConsistent
  <1>1. HttpInv => ReplyIsConsistent
    BY DEF HttpInv, Conn, EndsWell, ReplyIsConsistent
  <1> QED BY <1>1, HttpInvariance, PTL

=============================================================================
