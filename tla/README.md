# Verification of Partial-Operating-System

The repository holds a user-level thread library (`threads/`), a threaded web
server (`webserver/`) and a set of small C exercises (`warmup/`).  This project
models the thread library, the web server with its clients, and the two larger
exercises in TLA+, checks the models with TLC on small instances, and proves with
TLAPS the safety of the scheduler, of the locks and condition variables, of the
request buffer with its refinement, and of the file cache, for any number of threads,
queues, requests and files.

## Inventory

| Part | State | Operations | Interacts through |
|---|---|---|---|
| scheduler, `threads/thread.c` 15-771 | `current_thread`, `existing_threads`, `readyq`, `killq`, the wait queues, saved contexts, the global flag `setcontext_called` | `thread_create`, `thread_yield`, `thread_exit`, `thread_kill`, `thread_sleep`, `thread_wakeup`, `thread_wait`, `thread_stub` | `setcontext`, calls |
| interrupts, `threads/interrupt.c` | the signal mask, a one-shot timer | `interrupts_set`, `interrupt_handler` | SIGALRM calls `thread_yield(THREAD_ANY)` |
| locks and condition variables, `threads/thread.c` 773-894 | `lock`, `holder_id`, a wait queue each | `lock_acquire`, `lock_release`, `cv_wait`, `cv_signal`, `cv_broadcast`, create and destroy | `thread_sleep`, `thread_wakeup` |
| tests of the library, `threads/test_thread.c` | a few globals | programs that call all of the above | the library |
| request buffer, `webserver/server_thread.c` 187-358 | `bufferq`, `in`, `out`, `exiting`, the mutex and two condition variables | `server_init`, `server_request`, `server_response`, `server_exit` | pthreads |
| file cache, `webserver/server_thread.c` 90-183, 361-570 | an open-addressing hash table, an LRU list, the `using` counts, `current_cache` | lookup, insert, evict, fix | the mutex `lo`, called by every worker |
| HTTP request, `webserver/request.c`, buffered I/O, `webserver/common.c` | one request, one buffer per connection | read the request line and headers, read the file, send it | sockets, files |
| server and clients, `webserver/server.c`, `client.c`, `client_simple.c`, `fileset.c` | sockets, a fifo | accept loop; request, check the reply; write the files | TCP, files |
| exercises, `warmup/` | a hash table (`wc.c`); a directory walk (`cpr.c`); nothing (the rest) | word count, recursive copy | files |

What is hard in each part and what makes it correct:

* **Scheduler.** Threads are chained through one `next` field and moved by hand
  between the ready queue, the queue of exited threads and any number of wait
  queues, preempted wherever SIGALRM is not blocked.  Correct means: no thread is
  ever in two queues or in none; who was killed does not come back; queues are
  first in, first out; every ready thread runs; ids come free again; no
  documented call sends the scheduler through NULL.
* **Locks and condition variables.** A release wakes everybody, a test and the
  sleep that follows must not be separated, and a lock holder must stay able to
  run because a waiter that finds no other thread loops with SIGALRM blocked.
  Correct means: mutual exclusion, no sleeper on a free lock, no such loop, no
  lost signal.
* **Request buffer.** Real threads, one mutex, two condition variables, and a
  flag that is not under the mutex.  Correct means: every request is taken once
  and in order, no wakeup is lost, every request is served, `server_exit` returns.
* **File cache.** Counts of users, eviction while files are being sent, an LRU
  list that repeats what the table says.  Correct means: the list and the table
  agree, the size stays within its limit, no file in use is freed.
* **Requests and replies.** Reads and writes that move a part of what they are
  asked for, a connection that ends early, files that change while they are served,
  and errors of one worker that end the process.  Correct means: nothing fails as
  long as nobody leaves and no file changes, each reply agrees with its header,
  and until then every client gets its file.
* **Word count.** A tokeniser that writes over an uninitialised array, and a table
  without wrap-around.  Correct means: every word is printed once, with the number of
  times it was seen.
* **Recursive copy.** Any system call may fail, some without being noticed.  Correct
  means: exit status 0 stands for a whole copy.

## Modules

| Module | Models | State and actions |
|---|---|---|
| `ThreadSched` | the scheduler | `exists`, `current`, `ready`, `killq` and `wq` hold thread ids in the order of the C lists; `ctx[t]` says where the saved context of `t` continues; `stranded` are the threads asleep on a wait queue nobody can reach. One action per function, one more per place at which a thread resumes |
| `ThreadSync` | locks and condition variables, EXTENDS `ThreadSched` | `holder[l]`, the place `at[t]` of each thread inside these functions, and `inside[l]`, who returned from acquiring `l` |
| `CvRing` | the program of `test_cv_signal`, EXTENDS `ThreadSync` | `turn`, and the place of each thread in the test |
| `RequestQueue` | the abstract promise: a bounded queue, each request served once | |
| `RequestBuffer` | `server_thread.c` without the cache, and main's loop | one `pc` per thread, the ring, the mutex, `exiting` |
| `FileCache` | `do_server_request` and the cache behind it, for several workers | `elements` and `recent_list` as in the code, `made` the elements ever created with key, slot and `using`, one `pc` per worker; a section under the mutex `lo` is one action |
| `LinkedQueues` | the lists of the thread library as they lie in memory, and the signal mask | `next[t]`, the heads of `readyq`, `killq` and the wait queues, `size`, `leaked`; `masked`, and per thread the local `enabled` and what its own code asked for. The actions of `ThreadSched`, on pointers |
| `HttpExchange` | `request.c`, rio, `client.c`, `client_simple.c`, `fileset.c` | per connection: the places `cpc` and `spc` of client and worker, what each still has to write and has read, what is in flight; the file |
| `WordCount` | `wc.c` | the text, the hash function, the table, what is printed; one step per word, space and slot |
| `CopyTree` | `cpr.c` | the calls of `copy_dir` that are open, the next system call, the copy so far |
| `QueueLemmas` | lemmas on sequences without duplicates, induction over Nat | no state |
| `ThreadSchedProofs`, `ThreadSyncProofs`, `LinkedQueuesProofs`, `RequestBufferProofs`, `FileCacheProofs`, `HttpExchangeProofs`, `WarmupProofs` | theorems about the module each is named for; `CvRing`'s are in `ThreadSyncProofs`, those of `WordCount` and `CopyTree` in `WarmupProofs` | |
| `MC*` | give the models their names for TLC; `MCWarmup` also says which word begins with which | |

**Steps.** In the thread library a section that runs with SIGALRM blocked is one
step: on one processor nothing can come in between.  It ends at `setcontext`; what
a thread does when it is dispatched again is a step of its own (`ThreadStub`,
`ResumeYield`, `ResumeSleep`, `ResumeWait`).  `InterruptHandler` is enabled
exactly when SIGALRM is unblocked, that is when the current thread is in its own
code, between two calls of `cv_wait`, or between the test of the holder and the
wake-up in `cv_signal` and `cv_broadcast` (the place `"wakeup"`).  In the request buffer a step lies between
two points at which another thread matters: taking or giving up the mutex, and
reading or writing `exiting`.

**The global flag.** `thread_yield` tells a resumed thread from one that has just
saved its context by one global, `setcontext_called`.  The model keeps it.  If a
resumed thread reads 0 it runs its switch a second time with `next_t` pointing to
itself; the queues are then cut, which is the status `"corrupt"` after which the
model stops.  `"segv"` is the NULL dereference of `search_t`, `"wild"` the read
past the end of `existing_threads`.

**Programs.** `Spec` and `SyncSpec` allow any call at any time with any argument,
those that name dead threads included; in `SyncSpec` too a thread may sleep on a queue
of its own or wake it up, and yield to any number (`SchedCall`, `BlockingCall`).  Only
the wait queues within locks and condition variables are not the program's to sleep on:
their structures are private to `thread.c`.  `DisciplinedSpec` yields by name only to
threads that are ready, or to the caller.  The variable `disciplined` of `ThreadSync` is
TRUE as long as the program releases and waits only with a lock it holds; does not, while
it holds one, acquire a lock, sleep on a queue of its own, wait for a thread or exit; and
kills no thread.  Yields and wake-ups are always disciplined.  Each property assumes the
least it needs.

**Lists.** `LinkedQueues` has the steps of `ThreadSched` and splices the lists the
way the code does, in its order: `thread_sleep` and `thread_yield` reset the `next`
field of the thread they took off only after the current one was queued, and
`dequeue` takes a single element whatever it was asked for.  The refinement mapping
reads each chain off its head; a chain in a circle or a thread in two chains would
have no image.  The mask is the part `ThreadSched` leaves to its step size: every
context is saved with SIGALRM blocked, and a resumed call restores the mask from a
local of its own.

**Requests.** A line of a header and a byte of a body are one item each; a line that
came in part has not come, which is how `rio_readlineb` sees it.  Every read and
write moves any number of items that fit.  `rio_readlineb` leaves the buffer alone
at the end of the input, so what `request_init` and `request_read_headers` do then
depends on the line before, or on the stack: `RequestEof` lists the outcomes.  The
checksum is the sum of the bytes, as in the code.  The server has no handler for
SIGPIPE, and `unix_error` and `SYS` call `exit`: any of them ends all connections
(`ServerExits`).

**Exercises.** `str` of `wc_init` is not initialised and the letters of the first word
are written over what it held: `first` is the word that comes out, the word of the text,
another one that begins with it (`Longer`), or no word of the text at all (`Junk`); a text
that begins with a space may find any word there, or none.  The array of the slots is not
initialised either, but it is the second block of a new heap and reads as zero.  `CopyTree` remembers in
`missed` that a call failed whose result `cpr.c` does not check: a short write,
`readdir`, `close`.

**External code.** pthread mutexes and condition variables are modelled from how
`server_thread.c` uses them: waiting gives up the mutex in the same step, a signal
wakes one waiter, any of them, and a waiter may also wake without a signal.

**The cache.** `hash_key` starts from an uninitialised `c`: it gives 5381 if `c`
lies beyond the name, and otherwise a value that depends on `c` and the length.
`Places` is the set of slots a name may get, and each call chooses.
`cache_evict` reads the next field of a list node after `dequeue` freed it; if there is
room by then the loop ends anyway, otherwise it ends or runs into other memory
(`crashed`, after which the model stops).  `dequeue` does not look at the last node,
so `cache_fix` right after an insertion lists the slot twice: the order of the list
is not that of the last uses, and no property claims it.  A removed element leaves a
hole in the searches that passed it; the files behind are inserted a second time.

## Runs

| Run | Configuration | Shows |
|---|---|---|
| `sched_any_arguments` | `SchedAnyArguments.cfg` | with 4 ids and one wait queue: types, `Accounted` (every thread in exactly one place), killed threads stay killed, both queue orders, waiters leave only when their thread exits |
| `sched_disciplined` | `SchedDisciplined.cfg` | with 3 ids: the flag is right at each resumption, the scheduler never goes wrong, ready threads run, ids come free |
| `sync_any_calls` | `SyncAnyCalls.cfg` | with 3 ids, a lock, a condition variable and a queue of the program's own: no sleeper on a free lock whatever is called, kills included; as long as the calls are disciplined: mutual exclusion, the holder can always run and nobody loops with SIGALRM blocked, sleepers are on the queue that will wake them |
| `ring_nobody_lapped` | `RingNobodyLapped.cfg` | no thread of the test gets a round ahead |
| `buffer` | `Buffer.cfg` | the buffer implements `RequestQueue`; requests are in exactly one place; no lost wakeup; accepted requests are served unless the server exits |
| `linked_queues` | `LinkedQueues.cfg` | with 4 ids and one wait queue: the lists implement `ThreadSched`, no pointer leads to a freed thread, the sizes of wait queues are their lengths, each call returns with the mask it was made with |
| `http_exchange` | `HttpExchange.cfg` | however the I/O is split: no assertion of a client fails, the server stays up and no worker loops, unless a client leaves or the file is written anew; then still every reply is as long as announced, with the checksum announced; every client ends content, unless some client was interrupted or the file written anew |
| `warmup` | `Warmup.cfg` | each behaviour is one of `wc` or one of `cpr`: what is printed is printed once and counts how often a space found it in `str`, a word is lost only if the table is full from its slot on, a copy that ends with 0 is whole unless an unchecked call failed, and a directory gets its mode last |
| `file_cache` | `FileCache.cfg` | the counts of users stay exact, `current_cache` is the size of all elements made and not freed, lost ones included, no file is freed while it is sent or still in the table, every cached file has a node in the list |

Three runs end in a violation: they check what a comment or header of the repository
says and show what the code does instead.

| Run | What the source says | What happens |
|---|---|---|
| `sched_none_stranded` | thread.h:115, wait until the thread exits | waiting for a thread that has exited but is not reaped: a yield reaps it and the waiter is forgotten |
| `ring_turn_holder_is_awake` | thread.h:152, a signal wakes one waiting thread | `cv_wait` is preempted between its release and its sleep, the signal is lost |
| `buffer_exit_completes` | server_thread.c:311, wake up all sleeping consumers so that they can exit | a worker that has tested `exiting` but not yet gone to sleep misses the broadcast, `server_exit` never returns |

More divergences are visible in the models without a run of their own:

* thread.h:59 says that `thread_yield` rejects an invalid tid; with two ready threads
  `search_t` dereferences NULL (thread.c:167).  That is the status `"segv"` of
  `ThreadSched`, which `NeverGoesWrong` excludes for disciplined programs only.
* thread.c:394 says that the flag is 1 "in stack"; it is a global, a rejected yield
  leaves it 0, and a thread resumed by a sleep or an exit repeats its switch: the
  status `"corrupt"`.
* server_thread.c:235 limits the cache to `max_cache_size`; a file in use is not
  evicted and the next one is inserted all the same (452).
* thread.h:55 has `thread_yield` return the id of the thread that ran; for `THREAD_ANY`
  it returns the id of its caller (thread.c:372).  thread.h:115 has `thread_wait` return
  after the thread exited; when no other thread is ready it returns at once, with the
  same value (thread.c:766).  The second is the last disjunct of `ThreadWait`.
* `lock_release` does not check who holds the lock (thread.h:135, thread.c:830).
* main accepts `max_requests` 0 (server.c:74), for which the ring is full and empty at
  once: with workers the first request then waits forever.
* wc.h:20-22 asks for "a count of the number of times each word has been seen".  A word
  is inserted at the space behind it, so the one that a text ends with stays in `str`:
  "a b a" prints `a:1` (wc.c:69).  `OutputIsExact` states the counts that the code gives.
  A word that finds the table full from its slot to the end is missing altogether, and
  what the uninitialised `str` makes of the first word may be there in its place, or
  raise the count of another word.
  `wc_destroy` does not free the array of the slots (wc.h:36).
* common.h:18 of `warmup/` has every system call checked; `readdir`, `close` and short
  writes are not, and the top directory never gets the mode of its source.
* `client.c` checks only sums and lengths: a file with the bytes in another order
  would pass.

### Bounds

`MaxThreads` is 1024 in the code and 3 or 4 here: with four threads one can run,
one be ready, one asleep and one exited at once, and a ready queue of three has a
head, a middle and a tail, so every branch of the list code is taken.  One wait
queue besides those of the threads suffices for the scheduler since a queue only
interacts with the ready queue; the lock and the condition variable have one each, and the
program of `sync_any_calls` one more to sleep on while others hold the lock.
The ring has three threads and two rounds, so that the turn passes everybody and
returns.  The buffer has two workers, at most two
waiting requests and four clients: the indices wrap, the buffer is full and empty,
both workers sleep at once, and one is woken after the other took the request.
`server_init` chooses the number of workers, 0 included.
The cache of size 2 gets files of sizes 1, 1, 2 and 3: two fit, one fills it, one is
too big.  Five requests (`MaxLoads`) are enough to fill it, evict, insert a file
twice and replace an element; two workers hold, insert and evict at once.  Its table
has more slots than requests can fill, as that of 2200000 slots has in practice, so
that every search ends.

The lists have four threads, of which one may be killed and one may block SIGALRM:
killing is the same write to a saved context whoever the victim is, and the mask is
per thread.  HTTP has one client of each kind, two items in flight and a file of one
byte that becomes one of two: a read can bring the blank line together with the body,
a write can stop within the header, and the file can be found absent, empty, half
written and longer than `stat` said.  Only the simple client is interrupted, so that
the tester sees what an interruption does to others.  Texts of six items over three
words contain repeated, adjacent-in-the-table and unterminated words and runs of
spaces, and one word begins with another, so that the stack can turn it into that; hash values up to 3 reach every slot.  The tree has a file of three bytes, a
directory, and a leaf below it, with every assignment of kinds to the leaves.

`MaxAccepted` bounds the clients, `MayExit` whether the exit is ever requested.
Runs with `CHECK_DEADLOCK FALSE` are those in which the program may stop: no
client or request comes any more, or the exit of the server hangs.

### Fairness

`Fairness` in `ThreadSched`: a dispatched thread goes on (weak), and a thread that
is again and again in its own code is preempted again and again (strong).
`interrupt_handler` re-arms the timer each time (interrupt.c:162) and a SIGALRM
that comes while blocked stays pending, so it is delivered as soon as a thread unblocks
it.  Nothing is assumed of the program: it need not call anything.  Liveness is
checked for disciplined programs, the only ones that cannot end in undefined
behaviour.

`BufFairness` in `RequestBuffer`: threads that can go on do (weak), and a thread
that wants a mutex that is given up again and again gets it (strong).  The latter
is an assumption about the pthread library: POSIX leaves the order to the
scheduling policy.  Clients, the exit request and spurious wakeups have no
fairness.

`HttpFairness`: clients and workers are threads of an operating system and go on
when they can (weak, per client and per worker).  Interruptions, errors and the file
generator have no fairness.

## Proofs

The theorems hold for every value of the constants that the named assumptions of the
modules allow.  Each component has one inductive invariant, checked by TLC before it
was proved, with one step per action; the properties that the runs check follow from it.

**Scheduler** (`ThreadSchedProofs`, for every `MaxThreads \in Nat \ {0}` and every set
of queues that contains no thread id):

* `Invariance`: the inductive invariant `IInv`.  `Accounted` alone is not
  inductive.  `IInv` adds that the wait queues of free ids are empty (or
  `thread_create`, which starts with an empty queue, would lose the sleepers) and
  that at most one exited thread awaits its reaping (which bounds what
  `thread_exit` splices onto the ready queue).  Both hold by the bookkeeping of the
  model and are lemmas of the proof only (`OneZombie`, `FreeIdHasNoWaiters`).
* From it `TypeCorrectness` and `ThreadsAccounted`, and two action properties:
  `KilledNeverRuns` and `WaitersWaitForExit`.
* The two orders, `ReadyQueueIsFifo` and `SleepersWakeInOrder`.  What every action
  does to a queue is composed of taking the head, removing one element and
  appending, each of which keeps the order of those that stay (`TailOrder`,
  `RemoveOrder`, `AppendOrder`, `ConcatOrder`, joined by `OrderComposed`).  That a
  thread has one place in a queue, without which "before" says nothing, is
  `Accounted`.
* `DisciplinedNeverGoesWrong` and `FlagServesResumption`: for programs that yield
  by name only to ready threads, `IInv` together with "some thread that yielded
  exists only if the flag is set".

The argument is by cases on the actions; what each does to the queues comes from
`QueueLemmas`: appending a new element, taking the head, removing one, splicing
two disjoint sequences and flattening at most one keep a sequence free of
duplicates and its range what one expects.

**Locks and condition variables** (`ThreadSyncProofs`, the locks and condition
variables any two disjoint sets of queues): `SyncInvariance`.  `SyncSpec` does not
imply `Spec`, since a resumed `lock_acquire` may sleep again in the same step, so
`SyncIInv` carries the accounts of the queues along and reuses the lemmas of the
scheduler action by action.  For disciplined programs it adds what makes mutual
exclusion inductive: a thread is inside one lock at most, a thread that waits for
anything is inside none, and no thread is marked as killed.  That the holder of a
lock is awake then follows, and with it that `lock_acquire` never runs out of threads
to switch to.  `FreeLocksHaveNoSleepers` needs none of the discipline.  What the
scheduler does on its own concerns locks only in so far as it empties their queues and
keeps who is awake awake (`Quiet`), or lets the current thread leave (`Leaves`); one lemma,
`LocksStay`, covers all of these steps.

**`test_cv_signal`** (the last parts of `ThreadSyncProofs`, any number of threads and
loops): `NobodyIsLapped`.  The assumption of `CvRing` on its constants is cited there and
nowhere before.  The ring runs on the model of the library, and its invariant `RingIInv` contains that
of the library.  The property compares counters; the invariant says why they agree.  All
threads have passed the turn equally often, those whose turn was already in this round
once more (`RoundsAgree`).  A thread that has passed the turn and not yet counted it is
the last to have done so, and is not asleep (`FlightIsRecent`), and who is in the critical
section and does not wait there holds the lock (`SectionIsLocked`).

**Lists** (`LinkedQueuesProofs`, any number of threads and wait queues, `MaxThreads \in
Nat \ {0}`, no wait queue of the program's own an id): `ListsImplementQueues`, so what is
proved of the queues of `ThreadSched` holds of the lists in memory.  That no chain runs in a
circle is stated without ranks: no nonempty set of threads keeps its `next` fields
(`Acyclic`).  Then each pointer starts exactly one list, and `Chain` is that list.  The
lemmas say what cutting, hanging and bypassing a thread do to circles and to a list,
and that a list none of whose threads is written to stays as it is.  The invariant
`LInv` adds to `Acyclic` the types, the sizes, `next[current] = NULL` (which
`wait_enqueue` relies on, for it does not reset the field), and the invariant of
`ThreadSched` itself, taken over the refinement mapping: that the lists are disjoint is
not proved a second time.  `SizesAreKept` and `PointersAreValid` follow.
`MaskSurvivesCalls` needs `MaskInv` besides: whoever gave up the processor in a call has in
its `enabled` what it asked for, a new thread asked for nothing, and no other thread than
the current one is in its own code.

**Request buffer** (`RequestBufferProofs`, any capacity, any finite set of workers, any
number of clients): `BufInvariance`.  `EachRequestOnce` counts, and no count is
inductive; `BufIInv` says where each request is: the ring holds the consecutive
requests up to the last one admitted, main the one after, each serving worker one
before the ring, no two the same, and all others before the ring are served.  The
arithmetic of `in` and `out` modulo the size is in lemmas of its own.  Five effect
lemmas (nothing moved, one arrived, one arrived and another was taken, one taken, one
served) tell what a step does to the requests; they are used for the invariant and again
for `Implementation`, by which the buffer refines `RequestQueue`.  `NoWakeupLost` holds
although a signal may wake a worker for whom nothing is left: some worker is on its
way to the test of the ring.

**File cache** (`FileCacheProofs`, any files, sizes, table and finite set of workers,
with fewer requests than slots): `CacheInvariance`.  The searches of the table end since
each element fills one slot at most (`LoadsCovered`, by counting).  An element is freed
only by the eviction that took it out of the table when nobody used it, and a worker
finds elements through the table only; `HasWhatItNeeds` ties the place of each worker to the
element it holds.  That `current_cache` never becomes negative needs the exact sum:
`Balanced` says that partial sums over all elements ever made exist and end in
`current_cache`, which each step can update, and `SizesAreAccounted` shows by induction
that these are the values of the recursive function `Allocated`.

**HTTP** (`HttpExchangeProofs`, any finite or infinite set of clients, any file contents,
any socket size): `HttpInvariance`.  None of the properties says where a byte is, so none
is inductive.  `HttpInv` does: as long as client and worker are both there, what the worker
has read, what is in flight and what the client has still to write are together the
request (`RequestFlows`), and what the client has read, what is in flight and what
the worker has still to write are together one reply (`ReplyFlows`).  A read or a write of any
length moves a part from one to the next, which changes nothing in the whole
(`WriteMoves`).  Once the header has been taken off, `InReply` says of the rest that it is
the body (`HeadOfReply`).  If one side is gone a client was interrupted or the file was
replaced, and the rest of the invariant (`EndsWell`, `FileStays`) says what still
holds.  `NothingFailsByItself` and `RepliesAreConsistent` follow.  The checksum is a fold, whose
value for every input is out of reach; that it is a number at all (`CsumIsNat`) is shown by
induction over the indices, in the form below.

**Recursive copy** (`WarmupProofs`, any finite or infinite tree, any files): `CprInvariance`
and `CopiesAreFaithful`.  The property speaks of everything below a directory, the program
only ever sees the entries of one; `CprInv` says what holds between two system calls.  The
open directories are a path from the top, each an entry of the one before and none of them
with its mode yet (`FramesOK`); what `readdir` has given of them is copied, but for the next
directory of the path and the node at hand (`GivenAreCopied`); a node that has its mode is
copied and so are its children (`ModesLast`).  So the nodes that are done are closed under
children, and `Under` is the least such set.  The lemmas turn on one fact: the node at
hand is neither an open directory, nor left in one, nor below a node that has its mode
(`AtHandApart`), so a change of its copy touches nothing the invariant says of others.

**Word count** (`WarmupProofs`, any words, texts, hash function and any relation `Longer`
of what the stack may make of a word): `WcInvariance`, `OutputsAreExact` and
`WordsAreLostOnlyWhenFull`.  `WcInv` relates the table to what was read so far (`Counted`):
each word, and `Junk`, was inserted `Inserted` times, once for each place where it has a
space behind it, but that the first space finds `first`; the word has one slot
with that number, with no free slot between its own and that one, or it has none
and then was never inserted or finds all slots from its own to the end taken.
That last part is what makes one slot per word inductive: a search that stopped early
would open a second one.  `PrintedOK` then keeps what was printed true while
`wc_destroy` clears the table.

The provers cannot instantiate the induction theorems of the library, which take an
operator.  `QueueLemmas` proves induction in the form of a set (`SetInduction`: a set that
contains 0 and with each number the next contains `Nat`) from the well-foundedness of
finite sets; the set is then the set of the numbers for which the claim holds.

Every safety property the runs check is proved.  Model-checked only: the liveness
properties (liveness under fairness and ENABLED are beyond the prover).

## Not modelled

* The `size` fields of `readyq` and `killq`, which nothing reads; allocation and
  freeing of threads, stacks, queues, locks and condition variables, and their
  creation and destruction (a program that uses one after `*_destroy` is on its own).
* The ids and error codes the library's functions return, the number of threads
  `thread_wakeup` woke excepted: nothing in the library depends on them.
* The contents of saved contexts beyond where they continue.
* Set-up of sockets, the fifo, option parsing, random numbers, timing; the choice of
  one file among many by the clients, HTTP requests while the cache is on.
* The remaining tests of the library: programs whose calls are among those
  `ThreadSched` and `ThreadSync` allow.  The context demonstrations and the small
  exercises print or compute a few values.
* A copy whose destination lies within its source (`cpr.c`), text buffers and their
  lengths.
* `os-097`, the grader's scripts and logs: copies and data.

## Plan

Done: the scheduler with its theorems, locks and condition variables, the ring test,
the request buffer and its abstract queue, the file cache, the lists with their
refinement, HTTP with its clients, the exercises.  Left:

1. What the functions of the library return when a thread resumes, against `thread.h`.
