# A TLA+ model of c-web-server

The repository is a small HTTP/1.x server library in C (`src/shared`), a program that uses it
(`src/main/main.c`) and its tests (`src/shared_test`).  This directory holds TLA+ modules of the
library, the TLC configurations that check them and proofs for TLAPS.  Line numbers are those of
the files under `src/shared` unless another directory is named.

## 1. Inventory

### Components

| component | state | operations | used by |
|---|---|---|---|
| worker thread pool, `worker_thread_pool.c` | pending list, pool (free list) of task structures, `tasks_mutex`, `tasks_semaphore`, a semaphore and two flags in each task, `running` of each thread | `init`, `enqueue` (blocks until the job is done or its timeout passes), `dealloc`; the loop of a worker | HTTP server |
| TCP listener, `tcp_socket_wrapper.c` | listening socket, `running`, one thread | `init`, `dealloc`; the thread's loop `select` / `accept` / callback | HTTP server |
| HTTP server, `http.c` 632-820 | pool of `task_data` (request, response, descriptor, streams) with its mutex, the listener, the worker pool | `init`, `dealloc`, the callback of the listener (`http_server_socket_accept`), the job (`http_server_task`), `http_server_finalize_task` | `main.c` |
| HTTP request parser, `http.c` 175-353 | the bytes read so far, the position of the scan, the headers found, `max_read_length` | `http_request_parse` | HTTP server |
| headers and responses, `http.c` 1-174, 354-631 | header array with a capacity, values per header, a response's status and body | add, find, clear, write | HTTP server, handlers |
| streams and buffers, `stream.c`, `buffer.c` | position, length and capacity | read, write, seek, position, set length | parser, responses |
| strings, `string.c` | data, length, capacity | append, substring, find, split, trim, compare | everything |
| URIs, `uri.c` | a flag and a string for each component | parse, print, percent-encode and decode | handlers |
| base64, `base64.c` | none but the caller's memory | encode, decode | handlers |
| log, `log.c` | level | print | everything |
| `main.c` | the flag a SIGINT handler sets | starts the server, polls the flag, stops the server | |

### How they interact

`main` starts a server (port 8000, two workers, a queue of ten, a timeout of five seconds) and
sleeps.  `http_server_init` starts the listener first and the worker pool second.  The listener's
thread waits with `select` for half a second at a time, looks at `running`, and calls
`http_server_socket_accept` for each connection.  That callback takes a `task_data` from the
server's free list, or allocates one, puts the descriptor in it and calls
`worker_thread_pool_enqueue`, **which blocks the accepting thread until the job is done, or until
the timeout**.  A worker runs `http_server_task`: parse, handler, then
`http_server_finalize_task`, which writes the response, shuts the connection down, closes the
descriptor and returns the `task_data`.  When enqueue returns an error the accepting thread
finalizes the *same* `task_data` itself; after a timeout the worker may still be using it.
`http_server_dealloc` stops and joins the listener, then the pool, then frees the list.

Inside the worker pool three things are shared by two or more threads: the two lists and the
flags of the tasks (under `tasks_mutex`), the semaphores, and three fields used without the lock:
`running`, `task->result` and `*task->result`.

### Hard behaviours and what makes each component correct

* **Pool.**  A caller's timeout races the completion of its job; the two threads decide under the
  lock who releases the task (63-88, 261-293).  The wakeup is posted after the unlock (246), and a
  worker takes work without taking a token when it sees a pending task (17-27), so tokens and
  tasks drift apart: no task may be left without a wakeup.  A task structure that timed out is
  reused with its old semaphore, whose value must then be 0.  Every exit of five critical sections
  has to unlock.  Correct: a task is in one place, each call is answered once and truthfully,
  jobs run once and in the order they were accepted, every call and `dealloc` return.
* **Listener and server.**  Correct: a `task_data` has one owner; the descriptor in it is that of
  the connection it serves; a connection is answered once, with its own response; shutdown leaves
  nothing behind but what was still queued; every accepted connection is closed eventually, a
  handler that never returns cannot stop the accepting thread when there is a timeout.
* **Parser.**  `read` may split the bytes of a request anywhere, also inside a line end, and the
  connection stays open after the request, so that one `read` too many never returns.  Correct:
  the result depends on the bytes, not on how they are split; the body is the `Content-Length`
  bytes after the blank line; the loop stops when it has them.
* **Headers and responses.**  A `task_data` serves connection after connection: header slots,
  body memory and stream position are those of the last response until they are overwritten.
  Correct: a response has the headers and bytes of its own handler, and one `Content-Length`, from
  which its body's length is read whatever the handler did.
* **Streams and buffers.**  Short reads, a failed read whose -1 becomes the largest `size_t`, going
  back in what was read, memory beyond the length that comes back when the length grows.
  Correct: a reader gives the bytes of its input in order, a copy is exact.
* **Strings.**  A buffer with a terminator that its length counts, cut, moved and grown in place;
  positions that may be beyond the end, searches that count down past 0, a limit on the pieces of
  a split.  Correct: a string holds what the calls say and no more; a search finds the first or
  last match; pieces and delimiters together are the text.
* **Base64, URIs.**  The exact number of bytes a conversion needs; padding; escapes that are cut
  off; a source inside the string it is appended to; a structure that is parsed into again.
  Correct: decoding undoes encoding and accepts nothing else; nothing is written past the room
  given; the components of a URI make its text; what is printed is parsed into the same.

`PROJECT.json` lists the hazards one by one, each with its line and the properties aimed at it.

## 2. Modules

| module | models | correspondence |
|---|---|---|
| `JobQueue` | what the worker pool promises, without threads | abstract specification: `Accept`, `Refuse`, `Start`, `Finish`, `Answer`, `Close`, `Discard` |
| `WorkerThreadPool` | `worker_thread_pool.c` | a program counter per thread; one action per step between two points of interference: taking the lock, a critical section up to its unlock, a semaphore operation, an unlocked access |
| `WorkerThreadPool_proofs` | | theorems about `WorkerThreadPool`: its invariants; wakeups, results and that it implements `JobQueue` |
| `Lists`, `Lists_proofs` | linked lists as sequences: what is on one, that nothing is twice | lemmas about lists and induction that all the proofs share |
| `TcpSocketWrapper` | `tcp_socket_wrapper.c`: the thread, `init`, `dealloc`; the kernel's backlog and descriptor table as the code uses them | actions only, no next-state relation of its own |
| `HttpServer` | `http.c` 632-820 and the finalization 604-629: extends `TcpSocketWrapper`, uses the pool through `JobQueue` | one action per step of a thread between two accesses to a `task_data`, a descriptor or the pool |
| `HttpServer_proofs` | | theorems about `HttpServer` |
| `HttpHeaders` | `http_header`, `http_headers` (`http.c` 1-174) | operators on an array of slots and a length; clearing keeps the slots |
| `HttpRequest` | `http_request_parse` (`http.c` 175-353) | `Read`, `ReadEnd`, `ReadFails`, `ReadEnough` are the turns of the outer loop, `Scan...` those of the inner one; `WholeRequest` defines a request without reads |
| `BufferStream` | `buffer.c` and the stream over a buffer (`stream.c`) | operators on memory and a length; memory added by `realloc` is `Garbage` |
| `HttpResponse` | `http_response` and `http_response_write` (`http.c` 354-602) | what a handler may do to a response, the `Content-Length` fix-up, a write that may fail at any of its parts |
| `HttpExchange` | `http_server_task` as one `task_data` sees it: extends `HttpRequest` and `HttpResponse` | parse, clear, handler, finalize, again for the next connection |
| `HttpExchange_proofs` | | theorems about the responses and about the parser of `HttpExchange` |
| `Streams` | the buffered reader and `stream_read_all_into_buffer` (`stream.c`): extends `BufferStream` | one action per call of a user, one per turn of the copying loop |
| `StringSearch` | the functions of `string.c` that change nothing (175-435) | one operator per function, or per family of functions that differ in the type of an argument; a loop is a recursive function of its index |
| `Strings` | the functions of `string.c` that change a string: extends `BufferStream` and `StringSearch` | an operator on the buffer per function, an action per call on one of two strings, which may be the same |
| `HttpLines` | how `http_request_parse` takes a request line (205-263) and a header line (290-324) apart: extends `StringSearch` | the `found_` flags are a phase; a header line is two uses of `string_split` |
| `Strings_proofs` | | theorems about `Strings`, `StringSearch` and `HttpLines` |
| `Base64` | `base64.c` | the two functions on two areas of memory; the tables by their ranges |
| `Buffers_proofs` | | theorems about `Streams` and `Base64` |
| `UriEscapes` | `uri_append_encoded_*`, `uri_append_decoded_*` (`uri.c` 7-125) | the loops as operators; the actions append to a string a part of that string |
| `Uri` | the parser and printer of `uri.c` (127-458): extends `UriEscapes` | the parser's position after each component is an operator of the text |
| `Uri_proofs` | | theorems about `UriEscapes` and the parser of `Uri` |
| `UriPrinter_proofs` | | the theorem about the printer of `Uri` |
| `MC...` | | symmetry sets, messages and texts for TLC; `MCSequential` runs one of `HttpExchange`, `Streams`, `Strings`, `HttpLines`, `Base64`, `UriEscapes`, `Uri`, which share nothing |

`WorkerThreadPool` keeps the names of the code.  `pending` and `pool` are the two linked lists as
sequences; `task`, `sem` are the fields of a task structure; `tokens` is `tasks_semaphore`;
`cur[t]` is the local `task` of a thread; `call[c]` holds the arguments and `wait_error` of a call;
`phase` is the thread that inits and deallocs.  `accepted`, `done`, `answer` and `written` are
history variables: nothing reads them but the properties.  The worker's store of a result is two
steps (check 62, store 63) because the caller may clear the pointer between them.

`HttpServer` composes two components by sharing variables: the actions of `TcpSocketWrapper` are
conjoined with the callback's (`AcceptConnection` is `Accept` together with the start of
`http_server_socket_accept`), and those of `Pool!` (`JobQueue` over the same variables) with the
steps of the accepting thread and the workers.  `data`, `next` and `taskPool` are the `task_data`
and their linked list; `fd` is the kernel's table, in which a closed descriptor may be handed out
again; `worker[c]` is where the worker is that runs the job of connection `c`.  A message is
abstracted to the connection it answers and its status.

`HttpServer` and `HttpExchange` model the same job at two levels.  `HttpServer` has the threads and
descriptors and abstracts the messages; `HttpExchange` follows the messages with one user of the
`task_data`, which `OneOwner` of `HttpServer` justifies up to the first timeout.

`HttpRequest` keeps the locals of the parser.  A byte is CR, LF or any other.  What a line says is
data of the message (whether it has the three words of a request line, or a header's name and
values), looked up by the place where the parser found the line, so a line found at a wrong place
says nothing.  That the lines are those of the bytes is `LinesOfHead`, an assumption about every
message; it includes what `HttpLines` shows of a line, that an empty one has no words and no name
and that a header with a name has a value.  A value is a length or `NotANumber`.  In `HttpResponse`
a value is what `http_response_write` learns of it: the number that `sscanf` scans at its start (-1
for none) and whether the value is exactly that number as `%zu` prints it.  So "2" and "2x" are two
values from which 2 is scanned, and both are kept for a body of two bytes; `asked` is a history
variable, what the handler asked to be sent under each name; a byte of a body is the number of the
exchange whose handler wrote it.  In `Streams` a `size_t` is a number modulo `SizeMax + 1`; a
behaviour ends at the first copy from beyond the reader's memory, which is undefined.

In the modules of strings, lines, base64 and URIs a character is the number of its byte, and a
position counts from 0 as in the code; `NotFound` is the `size_t` -1.  `Strings` keeps the memory
beyond the length of each buffer, so that a text that grows again would show what an earlier one
left; `value` is what the calls so far mean, worked out on plain sequences by what `string.h` says
of each.  One case is left out of it: after `string_set_substr` of a string to an empty range of
itself the code keeps the text, which is not what `string.h:82` says (section 6), and `value` goes
on from the text as it is.  `HttpLines` says of one line what `HttpRequest` has as data of its
messages: the words of a request line, the name and values of a header.  `Uri` has the strings of
the structure by their text, as `StringsAreValues` of `Strings` allows.

### Abstractions

* Time: a timed wait may end by its timeout at any moment, a poll at any moment.
* A callback of the pool is one step in which it ends; the handler of a connection likewise.
* Writing a response is one step (the code makes several `write` calls).  A write to a connection
  shut down by either side raises SIGPIPE, for which the program installs no handler: `alive`
  becomes FALSE.
* Left out of the pool: failing `malloc`, `pthread_mutex_init` and `sem_init` in `init`, a NULL
  callback, and the waits ended by EINTR (282-286): `main` installs its handler with `signal()`,
  which restarts interrupted calls.
* A whole string is not appended to itself or set to itself: `string_append_str` copies from a
  buffer that it has reallocated and whose terminator it has cut off.  No caller does.  `memcpy`
  onto an overlapping range (`string_set_substr` in place) is taken to do what glibc's does.
* A text that `printf` formats is given; the decimal of a port is the only one worked out.
* A port is read as `sscanf` does with `%i`: white space of six kinds is skipped, the number may be
  signed, octal or hexadecimal, it is brought into the range of a `long` and cut to an `int`.
  `IntLimit` and `LongLimit` are 2^31 and 2^63 there.
* `string_split` has no `results_capacity`: its callers (`http.c` 294, 309, 318) pass a capacity that
  is the limit on the pieces, so that what it does beyond its array (379, 388, 401) is not reached.
* A text to decode from base64 is ASCII: the code indexes its table with a `char`, negative from
  128 on.  A text that is parsed as a URI ends with a 0, which the parser reads (192, 307).
* In the copy that `uri.c:18` would not make, freed memory reads as 0.
* Clients connect after `http_server_init` has returned.  The listener accepts already while the
  pool is being initialised; that window is listed as a hazard and not modelled.

## 3. Runs

Every passing run exhausts its state space.  `Stopped /\ UNCHANGED vars` makes the end of the
program explicit, so deadlock is checked everywhere.

| run | question | bounds |
|---|---|---|
| `pool_safety` | Do locks, lists, wakeups, completions and results stay right when more callers arrive than fit the queue and the workers?  Are task structures that timed out reused safely, and does the pool implement `JobQueue`? | 3 clients of 1 call, 2 workers, 3 task structures, queue of 2, all timeouts, both threads of a timeout race |
| `pool_liveness` | Does every call return, `dealloc` return, every accepted job run? | 1 client of 2 calls, 2 workers |
| `http_safety` | Is each connection served with its own `task_data` and descriptor, answered once, and everything released at shutdown? | 3 connections, 2 descriptors, 3 `task_data`, 2 workers, queue of 1, up to the first timeout |
| `http_liveness` | Is every accepted connection closed, and does shutdown end? | 2 connections, one of which may hang up, no finite timeout |
| `http_timeout` | With a timeout, does the accepting thread come back whatever the handlers do? | 2 connections whose handlers may hang, 1 worker, 1 descriptor, 1 `task_data` |
| `sequential` | Does the parser accept exactly whole requests, is each response its own handler's and of the declared length, does a reader give its input and a copy copy it?  Do strings hold what they should, are searches, splits, lines, base64, escapes and URIs exact? | see below |
| `pool_late_result`, `pool_leak`, `http_late_write`, `exchange_cut`, `read_error`, `content_length` | the findings of section 6 | 1 or 2 clients; 2 connections; the messages, readers and header values of `sequential` |

The bounds of `sequential`:

| component | bounds |
|---|---|
| exchange | 2 exchanges, 14 messages, chunks of 3 bytes, heads of up to 12, 2 things a handler does, bodies of up to 2 bytes; header values that are a number, that are none, and a number with more behind it |
| streams | inputs of 0 and 5 bytes, 4 calls, `SIZE_MAX` of 15, reads of 1, 2 and 4 bytes |
| strings | all texts of up to 4 and 2 characters of two, and one beyond ASCII; 2 calls out of all functions with all positions up to one beyond the end |
| lines | all request lines of up to 9 characters, blank or not; all header lines of up to 5 of blank, letter, colon and comma |
| base64 | up to 6 bytes, all one- and two-byte texts of 0 and 255; all four-character texts of a letter, padding and an illegal character, also before and after another block; every `dst_len` up to 9; 2 calls |
| escapes | all texts of up to 3 of percent, a digit, a hex letter, blank and a byte beyond ASCII; results of up to 8 |
| URIs | all texts of up to 4 of `A : / @ ? # 1`, all authorities of up to 4, all paths of up to 5 with escapes; a first parse of a text with every component, or none; a port in hexadecimal with a capital, after a line feed, beyond an `int` and beyond a `long` (of 5 and 7 bits); ports below 9 |

Why the bounds are enough.  Interference in the pool is between a caller, the worker that has its
task, and a third thread that takes the lock between them: three clients and two workers give each
of these, a queue of 2 lets the queue be full while both workers are busy.  Reuse needs a task that
timed out, was pooled and comes back to a second call while a first is unfinished: three calls,
which the three clients may also make one after another.
In the server, a descriptor or `task_data` can be used again only by a later connection while an
earlier one is unfinished: with a timeout of 0 three connections overlap in a queue of 1 and two
workers, and two descriptors force the reuse.  `MaxCalls` (calls per client) is the only bound on
a counter there; it is a guard of `Enqueue`.

A chunk of 3 bytes splits every line end, blank line and body of the messages in every way, since a
read may also return 1 or 2 bytes.  Among the messages are one whose body looks like a header line,
repeated headers, every reason to reject a request, too many and too few bytes, a head that is as
long as what the parser reads of one (12), and a longer one.  What one exchange leaves in a
`task_data` can only show in the next one that uses the same slot, so two exchanges are enough; two
things done by the handler are enough to set a `Content-Length` and to write, to write twice, or to
write and seek back.  A reader needs a read, a seek back and a read or copy that spans what it has
and what it has not: three calls, and one more.

The second of two calls on a string finds whatever the first has left in the buffer; a third could
leave nothing new, since a buffer is its memory and a length.  Searches and splits look at one
position at a time and at the limits of the text: four characters and a two-character pattern have
each limit, an overlap and a piece of every length up to the limit.  A request line has six
changes of phase, and blanks at its start and end: nine characters.  Base64 treats its last
block alone, so two blocks are enough, and each kind of last block occurs with each `dst_len` at
and around what it needs.  The parser of URIs keeps no more than the last separators it has seen:
texts of four characters have every order of three of them with a character between or at an end,
and the texts of the other two sets go further in the places where there is more to tell apart.

`http_safety` stops at the first call that times out (`CONSTRAINT NoTimeouts`, and the same guard
in the properties): after it two threads own one `task_data`, as finding 3 shows, and its
invariants do not hold.  `http_timeout` explores what happens after.  The properties of `Streams`
say something up to the first failed read, for the reason of finding 5.
`RejectedOnlyIfCut` excludes exactly the cases of finding 4.

### Fairness

* Worker threads, threads inside a call, the accepting thread and the thread in `dealloc` are
  scheduled when they can take a step (weak fairness per thread): they are POSIX threads and
  nothing in the code starves them deliberately.
* Strong fairness for taking `tasks_mutex` in `enqueue` and at the end of a task: other threads
  take the lock again only after a callback, a timed sleep or a return to their caller, so it is
  free again and again.  POSIX does not promise more; a mutex that starves a thread forever would
  break `CallsReturn`.
* Callbacks of the pool return.  In the server this is not assumed of the handlers in `hanging`.
  A client sends its request or hangs up.
* Nothing is assumed of the clients' calls, of `dealloc` being called, of time-outs happening or of
  allocations succeeding.

## 4. Proofs

Eight modules hold theorems.  Each is proved for every value of the constants: any number of
workers, clients, connections, descriptors and structures, any queue size, any messages, texts,
inputs, chunk and block sizes, any number of calls.  `Lists_proofs` has only lemmas the others
share.  The fourth column says which run checks the same property on a small instance.

| module | theorem | states | run |
|---|---|---|---|
| `WorkerThreadPool_proofs` | `TypeCorrect` | `[]TypeOK`, and with it that the queue never exceeds `queue_size` | `pool_safety` |
| | `LockCorrect` | `[]LockDiscipline` | |
| | `OwnershipCorrect` | `[]TaskInOnePlace` | |
| | `WaitingCorrect` | `[]WaitedTaskIsOwn` | |
| | `ReuseCorrect` | `[]PooledTasksAreClean` | |
| | `SignalCorrect` | `[]SignalledMeansCompleted` | |
| | `CompletionCorrect` | `[]NoLostCompletion` | |
| | `WakeupCorrect` | `[]NoLostWakeup` | |
| | `ResultCorrect` | `[]ResultIsDelivered` | |
| | `Refinement` | `ImplementsJobQueue`: the pool implements `JobQueue` | |
| `HttpServer_proofs` | `TypeCorrect` | `[]TypeOK` | `http_safety` |
| | `ListeningCorrect` | `[]ListensWhileOpen` | |
| | `OwnerCorrect` | `[]OneOwner` | |
| | `DescriptorCorrect` | `[]OwnDescriptor` | |
| | `AnswerCorrect` | `[]AnsweredOnce` | |
| | `ShutdownCorrect` | `[]ShutdownReleases` | |
| `HttpExchange_proofs` | `LengthCorrect` | `[]ContentLengthIsRight` | `sequential` |
| | `HeadersCorrect` | `[]HeadersAreAsked` | |
| | `FreshCorrect` | `[]ResponseIsFresh` | |
| | `TypeCorrect` | `[]TypeOK` of `HttpExchange` | |
| | `AcceptedCorrect` | `[]AcceptedIsWhole` | |
| | `WaitingCorrect` | `[]NeverWaitsForMore` | |
| | `RejectionCorrect` | `[]RejectedOnlyIfCut` | |
| `Buffers_proofs` | `ReadsCorrect` | `[]ReadGivesInput` | `sequential` |
| | `CopiesCorrect` | `[]CopyIsExact` | |
| | `TypeCorrect` | `[]Base64TypeOK` | |
| | `DecoderCorrect` | `[]DecoderIsExact` | |
| | `WritesCorrect` | `WritesStayInside` | |
| `Strings_proofs` | `ValuesCorrect` | `[]StringsAreValues` | `sequential` |
| | `SearchesCorrect` | `[]SearchesAreExact` | |
| | `SplitCorrect` | `[]SplitIsExact` | |
| | `LinesCorrect` | `[]LinesAreTakenApart` | |
| `Uri_proofs` | `EscapesCorrect` | `[]EscapesAreExact` | `sequential` |
| | `ComponentsCorrect` | `[]ComponentsAreTheText` | |
| `UriPrinter_proofs` | `PrintedCorrect` | `[]PrintedParsesBack` | `sequential` |

The theorems of the last five modules are about the specification of one component (`Spec` of
`HttpExchange`, `StreamSpec`, `StringSpec`, `Base64Spec`, `EscapesSpec`, `UriSpec`, `LinesSpec`);
the run `sequential` checks the same properties of the same actions in `MCSequential`, which runs
one component or another.

### Assumptions

Only the named assumptions of the modules, which TLC evaluates on every run: threads and tasks are
different things, workers and clients are finite sets and the queue has room for one task
(`WorkerThreadPool`); the pointer `NoOne` is no `task_data`, connection or descriptor, and there
are finitely many `task_data` (`HttpServer`, `TcpSocketWrapper`); a timeout is one of the three
kinds (`Timeouts`); `SIZE_MAX` can count the input and what users ask for (`Streams`); texts and
characters are without a 0 (`Strings`, `HttpLines`, `UriEscapes`, `Uri`); a port is an `int` and an
`int` is a `long` (`Uri`); a header value that a handler sets is a `HeaderText` (`HttpResponse`); a
text to decode from base64 is ASCII and fits its area with its 0 (`Base64`); lengths are numbers
(`HttpResponse`, `HttpExchange`). `MessageAssumption` of `HttpRequest` says what a message is:
bytes of three kinds, and lines that are those of the bytes (`LinesOfHead`: each line ends at the
next line end, the head at the first empty line).  It describes the data the model has instead of
text, not what a client may send.

### Arguments

**Ownership in the pool** (`OwnInv`).  Five of the properties need one another and more.  `OwnInv`
adds to them that a thread inside a critical part holds a task (`PointersValid`), that clients are
inside a call only while the pool is up (`CallsWhileUp`), what the flags and semaphore of a task
that is pending or held can be (`UnfinishedTasks`) and what those of a task waited for can be
(`WaitingClients`): that a task is completed and signalled only once, by the worker that held it,
and is pooled by that worker only if its caller had timed out, which is what makes its semaphore 0
when it is reused.  One step per action; actions that touch no list and no task go through one
lemma (`OwnQuiet`), and the two ways of adding a task through another (`OwnAppendTask`).

**Wakeups** (`WakeInv`).  `NoLostWakeup` is a count: while the pool is up there are no more pending
tasks than tokens, callers about to post and workers that will look at the queue before they sleep
again.  The code takes work without a token (17-27), so an equality would be false.  The count is
not inductive by itself: a worker that wakes and finds `running` cleared leaves without a look at
the queue, and the count has to hold when the pool opens.  `WakeInv` adds that `running` of every
started worker is set, that all are started once the pool is up and that nothing is pending before.
The counts are cardinalities, so each step says which threads enter or leave the two sets.

**Jobs and the refinement** (`JobInv`).  Each call that was accepted has its task in exactly one
stage: `JobsOfTasks` ties the task of a call to `accepted` and `done`, `JobsOfCalls` the place of a
client in `enqueue` to its call, `JobsDone` what a worker past the callback has done.
`ResultIsDelivered` is a part of it: between the end of a job and the answer the worker has
passed the unlocked store, or the caller has given the pointer up.  With it each step of `Next`
is mapped under `ImplementsJobQueue`: appending the task is `Accept`, the refusals are `Refuse`,
taking it is `Start`, the end of the callback `Finish`, the return of a call `Answer`, the two
ends of the pool `Close` and `Discard`; all other steps stutter.  The proof of `Refinement` has one
step per action.

**The server** (`ServerInv`).  `PhaseInv` ties the main thread to the two threads it starts and
joins, `ConnInv` a connection to the places it can be in.  `TaskInv` holds until the first call
that times out, for the reason of finding 3.  It has three parts.  `OwnerInv`: the linked list
`next` from `task_pool` is some sequence without repetition, none of its elements belongs to an
unfinished job or to the accepting thread, and no two jobs share one.  `DescriptorInv`: the
descriptor in an owned `task_data` is open for its connection until its owner has closed it, and
each open descriptor has such an owner.  `AnswerInv`: no response is sent before the finalization,
which has the response to the connection's own request.  The proof is done action by action, once
for each part; that `accept` may hand out a closed descriptor at once is the case that needs
`DescriptorInv` and `OwnerInv` together.  The server proof uses the actions of `JobQueue`, which
`Refinement` justifies.

**Readers and copies** (`StreamInv`).  `ReaderInv`: what the reader has buffered is what its input
has up to the input's position, and the reader's position is not beyond it; `CopyInv`: what the
copying loop has added so far is the part of the input from where it started, never more than the
limit.  The arithmetic of `size_t` is modulo `SizeMax + 1`; the proof shows that nothing wraps
until a read fails.

**Responses** (`ResponseInv`).  Header names are in use once; what is in use under a name is what
the handler asked for (`asked`); each byte of the body was written by the handler of this
exchange (`BodyInv`), although the buffer keeps its memory and the array its slots; when the
server answers with 400 or 500 itself, nothing a handler wrote is left (`StatusInv`).  The
`Content-Length` is fixed after the handler, from the body's length.  `LengthInv` says that until
then the values under that name are those the handler gave, so that a value which is kept and is
more than a number can only be the handler's one value (`OnlyAsked`), which is the exception of
`ContentLengthIsRight` and finding 6.

**The parser** (`RequestInv`).  `ScanInv` relates the scan to the message: there is a number `k` of
lines that have been scanned, the scan stands at the start of the next, and the headers in use are
the values of those lines in order; after the empty line the body starts where the message has it.
`ReadInv` says what may still be asked for.  `AcceptedIsWhole` and `NeverWaitsForMore` follow.
The off-by-two of finding 4 appears where the proof needs it: a read that ends one or two bytes
before the end of the body is the only way a whole request is rejected (`RejectedOnlyIfCut`).

**Strings** (`StringInv`).  `Holds(b, text)` says that a buffer starts with the text, that its
length is that of the text and one more, and that a 0 follows; what lies beyond is anything,
`Garbage` included.  One lemma per function of `string.c` says that it leaves a buffer that holds
the text the call says, in place or not (an empty range of itself aside, where it holds the text
from which `value` goes on); the trims need the searches first.  `UpwardsIs` and
`DownwardsIs` are about the loops of all searches: each is the first or last element of the set of
hits, by induction over the index.  `ComparesAre` needs the arithmetic of a signed `char`
(`DiffersIs`).  `PiecesSplit` says what the loop of `string_split` adds from an index on, given how
many pieces there are: it is proved from the end of the text backwards, where one more piece
(`OneMorePiece`) is put before what the rest of the loop gives.

**Base64** (`Base64Inv`).  The two properties need only that the area the decoder reads holds a
text of ASCII and its 0.  The work is in the blocks: `BitsOf`, `QuadIs` and `TripleIs` are about
the bits of one block of three bytes and four characters (division and remainder by powers of two),
`FlattenIs` for the text that the blocks make, and then that the characters the decoder finds in
memory are those of `Code`, that `Code` has padding in its last block only and as much as the bytes
that are missing there, and the converse: a text of whole blocks with such padding is accepted if
there is room.  `WritesStayInside` is an action property of the same steps.

**Lines** (`LinesInv`).  What was made of the line is what one of the two parsers makes of it, so
the theorem is about the two parsers.  For the request line, the `found_` flags are a phase that
only grows (`PhasesUnfold`, `Moves`): it has a place for each of its six changes, between which
the characters are all blank or all not, and these places are the ends of the three words.  For
the header line the value list is unfolded from the end of the line backwards: the values with
commas between them are what follows the colon, and a comma stays in a value only as the
last character of the last one, because `string_split` overlooks a delimiter at the very end.

**Escapes** (`EscapesInv`).  `DecodeOfEncode` is an induction over the length of the text: the
first character of a text is encoded as itself or as three characters that are one escape, and
decoding takes off as much.  That a string's own part is copied first (`uri.c:18`) is what
makes `OwnTextIsCopied` inductive.

**Components** (`UriInv`).  The structure is what the parser makes of the text it was last given
(`IsParse`), because the parser clears what was there.  `PlacesAre` and `AuthorityAtIs` say where
the separators are: each part of the text ends at the first character of a set, or at the end.
The text is then cut at those places (`TextCuts`), and decoded part by part: `DecodeJoin` allows
that only where no escape is cut in two, which holds at each separator because it is no
hex digit (`MarkSevers`).  The proof showed that the property as it had been stated was false for
a port in hexadecimal with a capital (`//a:0X1`, whose text keeps its case while the property
expected lower case): it is now stated up to the case of the port too, and the run has that text.

**Printing** (`PrintedBack`).  `Fits` collects what every accepted structure satisfies: no
character in a component that would have ended it, a scheme and host in small letters, a host
without blanks at its ends unless it has taken in what was no port, a port below `PortLimit`, a
path that starts with a slash.  `IsPrint` and `IsLaid` give the place of each of the seven pieces
of the printed text, and one lemma per separator shows that the parser, which looks for it from the
left, the right or over the whole text, finds it at the end of its piece and nowhere before: this
is where the four exceptions of `PrintedParsesBack` are needed, and no others.  What is between two
places is decoded to what was encoded (`DecodeOfEncode`), and the decimal of a port is read as the
port (`DecimalReads`), since a port is below `PortLimit` and so not cut by `IntOf`.

### Induction

The library's `NatInduction` takes the induction hypothesis as an operator, which the installed
provers cannot instantiate.  `InductionOnNat` of `Lists_proofs` states it with a set, and is proved
from the well-foundedness of strict inclusion on finite sets.  With it the loops of the searches
and of the split, the values of header lines, the folds over headers, the escapes, the blocks of
base64 and the digits of a port are proved about for every input.  A loop is a recursive function,
which is a `CHOOSE`: each proof first shows that a function with its equation exists.

### What only TLC checks

All liveness (`CallsReturn` and the others of the `_liveness` and `http_timeout` runs), which needs
ENABLED under fairness and is beyond the prover; `SequentialTypeOK`, which is about the
composition that only exists to be checked; and the six violations of section 6.

## 5. What is not modelled

See `components` in `PROJECT.json`.  Reason phrases and the wording of the status line are left
out, as are short `write` calls (the code makes one call per part and checks for -1 only), printing
requests and responses for the log (where `http.c:136` uses a header value as the format of a
`printf`), seeking in a file and opening one, and the address a listener
binds to.  `log.c` only prints.  `main.c` is modelled as the thread that calls `http_server_init`
and, later, `http_server_dealloc`; its one option besides the usage is the port.  Memory
that the sequential components fail to free is not modelled: `uri_parse_cstr_len` initialises
`scheme` and `authority` again without freeing them (209, 253).

## 6. Findings

1. `pool_late_result`.  `worker_thread_pool.c:276` says of a timeout that the "result pointer may
   now be invalid, the caller moved on".  Line 62 checks `task->result` and line 63 stores through
   it, without the lock: a caller that times out between the two gets a store through a pointer it
   has given up, or the worker stores through NULL.
2. `pool_leak`.  `worker_thread_pool.h:79` says that `dealloc` "Frees all resources".  A task that
   was completed before its caller returned is put on no list (79-88, 287-290): it is never freed.
3. `http_late_write`.  `http.c:616-617` says that after a timeout response later writes to the
   socket fail.  By then the descriptor has been closed, and may be that of the next connection,
   to which the late handler then writes its response.
4. `exchange_cut`.  `http.c:268-269` says that after the blank line "we know exactly how many more
   bytes to read".  Line 283 computes `i + Content-Length`, but the body starts at `i + 2`: a
   request whose body's last one or two bytes come in a read of their own is rejected with 400,
   and accepted if the same bytes come together.
5. `read_error`.  `stream.h:77` says that "negative values indicate errors".  `stream.c:126` keeps
   the result of a read in a `size_t`, which is never negative: the buffered reader never reports
   a failed read.  With nothing buffered it returns as many bytes as were asked for, from beyond
   its buffer; with something buffered, one byte too few.
6. `content_length`.  `http.c:531` checks "if the content length header is already set to the correct
   value".  `sscanf` with `%zu` (538) reads the number at the start of the value: a handler's `2x` or
   `2.5` with a body of two bytes is taken for correct and sent as it is.  What does hold is
   `ContentLengthIsRight`.

Other things that were seen while modelling and have no run:

* Server.  `worker_thread_pool.h:15` gives `ERROR` and `ERROR_QUEUE_FULL` the same value, so
  `http.c:731-735` answers every error of enqueue with 503 and never with 500 (`ErrorOf`).
* Parser.  Bytes after a request make it rejected if they come in the same read as its end, and
  are ignored if they come later.  A header with nothing after its colon is rejected, and so is a
  request line whose protocol version is one character at the end of the line.
* `string_split`.  A delimiter at the very end of the text is not found (386 stops before the last
  place it can be); a limit of one piece with a delimiter in the text counts two and writes one;
  an empty delimiter never ends.  `SplitsExactly` has these as its exceptions.
* Strings.  `string.h:82` says that `string_set_substr` "Replaces the contents of dst with a portion
  of src".  If they are the same string and the range is empty it returns at once
  (`string.c:159-161`) and leaves the text as it was; from another string it makes `dst` empty.
  `StringsAreValues` and its theorem leave the first case out.  `string_compare_*` return a difference
  cut to a `char`, which orders ASCII only.
* `http_server_init` never stores its `callback_data`, and `stream_file_descriptor_close` has no
  return statement; the model depends on neither.
* Base64.  The decoder asks for room for the padding as well, so that a `dst_len` that is exactly
  what `base64.h` says is enough ("big enough to store the full output") can be refused.
* URIs.  A lone `?` or `#` at the end is rejected; `?#x` is a query `#x` and no fragment, since a
  query's first character is not looked at.  A host can contain `:` and `@`, although `uri.h`
  says "excluding any "@" or ":"": a port that is no number becomes part of the host, and only
  the first `@` separates.  Ports are read with `%i`: `010` is port 8, and
  a number beyond an `int` is cut to one, so that 4294967297 is port 1.  For a text that ends in `?`
  line 346 reads the byte after the terminator, without effect.  The printer writes no `//`
  before an authority that had no scheme and does not escape `?` and `#` in a path, so that what
  it prints can be parsed into other components; `PrintedParsesBack` names those cases.

## 7. Plan

Done: the modules of section 2, and proofs of every safety property of the pool, the server, the
parser, the responses, the streams, the strings, base64, the lines and the escapes, and of the
components and the printing of a URI.  Next, in this order:

1. The start-up window of `http_server_init`, and EINTR in `enqueue` as a variant.
2. Two requests on one connection and bytes after a request; short writes of a body.
