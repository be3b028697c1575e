--------------------------- MODULE HttpServer_proofs ---------------------------
(***************************************************************************)
(* Theorems about HttpServer, for every number of connections,             *)
(* descriptors, task_data and worker threads and every size of the queue.  *)
(***************************************************************************)
EXTENDS HttpServer, Lists_proofs

-----------------------------------------------------------------------------
(* server->task_pool as a list.                                            *)

\* s holds what the next pointers lead to from task_pool.
Linked(s) ==
    /\ s \in Seq(Datas) /\ Distinct(s)
    /\ taskPool = IF s = <<>> THEN NoOne ELSE s[1]
    /\ \A i \in 1..Len(s) : next[s[i]] = IF i = Len(s) THEN NoOne ELSE s[i + 1]

\* A list of task_data is not longer than there are task_data.
LEMMA ListIsBounded ==
    ASSUME NEW s \in Seq(Datas), Distinct(s)
    PROVE  Len(s) <= Cardinality(Datas)
<1>1. Len(s) \in Nat /\ s \in Injection(1..Len(s), Datas)
  <2>1. Len(s) \in Nat /\ s \in [1..Len(s) -> Datas] /\ DOMAIN s = 1..Len(s)
    OBVIOUS
  <2>2. \A i, j \in 1..Len(s) : s[i] = s[j] => i = j
    BY DEF Distinct
  <2>3. IsInjective(s)
    BY <2>1, <2>2 DEF IsInjective
  <2>4. QED
    BY <2>1, <2>3 DEF Injection
<1>2. IsFiniteSet(1..Len(s)) /\ Cardinality(1..Len(s)) = Len(s)
  <2>1. \A b \in Nat : IsFiniteSet(1..b) /\ Cardinality(1..b) = IF 1 > b THEN 0 ELSE b - 1 + 1
    BY FS_Interval, 1 \in Int, \A b \in Nat : b \in Int
  <2>2. QED
    BY <1>1, <2>1
<1>3. QED
  BY <1>1, <1>2, DataAssumption, FS_Injection

\* The recursive definition of PoolElement walks along the list.
LEMMA PoolElementIsList ==
    ASSUME NEW s, Linked(s)
    PROVE  PoolElement = [n \in 0..Cardinality(Datas) |-> IF n < Len(s) THEN s[n + 1] ELSE NoOne]
<1> DEFINE K == Cardinality(Datas)
           f == [n \in 0..K |-> IF n < Len(s) THEN s[n + 1] ELSE NoOne]
           Walk(g) == [n \in 0..K |-> IF n = 0 THEN taskPool
                                      ELSE IF g[n - 1] = NoOne THEN NoOne ELSE next[g[n - 1]]]
<1>1. K \in Nat /\ Len(s) \in Nat
  BY DataAssumption, FS_CardinalityType DEF Linked
<1>2. f = Walk(f)
  <2>1. ASSUME NEW n \in 0..K PROVE f[n] = Walk(f)[n]
    <3>1. CASE n = 0
      BY <1>1, <3>1 DEF Linked
    <3>2. CASE n # 0
      <4>1. n - 1 \in 0..K /\ f[n - 1] = IF n - 1 < Len(s) THEN s[n] ELSE NoOne
        BY <1>1, <3>2
      <4>2. CASE n - 1 < Len(s)
        <5>1. n \in 1..Len(s) /\ s[n] # NoOne
          BY <1>1, <3>2, <4>2, DataAssumption DEF Linked
        <5>2. next[s[n]] = IF n = Len(s) THEN NoOne ELSE s[n + 1]
          BY <5>1 DEF Linked
        <5>3. QED
          BY <1>1, <3>2, <4>1, <4>2, <5>1, <5>2
      <4>3. CASE ~(n - 1 < Len(s))
        BY <1>1, <3>2, <4>1, <4>3
      <4>4. QED
        BY <4>2, <4>3
    <3>3. QED
      BY <3>1, <3>2
  <2>2. QED
    BY <2>1
<1>3. ASSUME NEW g, g = Walk(g) PROVE g = f
  <2> DEFINE S == {n \in Nat : n \in 0..K => g[n] = f[n]}
  <2>1. \A n \in 0..K : g[n] = Walk(g)[n] /\ f[n] = Walk(f)[n]
    BY <1>2, <1>3
  <2>2. 0 \in S
    BY <1>1, <2>1
  <2>3. ASSUME NEW n \in S PROVE n + 1 \in S
    <3>1. CASE n + 1 \in 0..K
      <4>1. n \in 0..K /\ g[n] = f[n] /\ n + 1 # 0 /\ (n + 1) - 1 = n
        BY <1>1, <3>1
      <4>2. Walk(g)[n + 1] = Walk(f)[n + 1]
        BY <3>1, <4>1
      <4>3. QED
        BY <2>1, <3>1, <4>2
    <3>2. QED
      BY <3>1
  <2>4. S = Nat
    BY <2>2, <2>3, InductionOnNat
  <2>5. ASSUME NEW n \in 0..K PROVE g[n] = f[n]
    <3>1. n \in Nat
      BY <1>1
    <3>2. QED
      BY <2>4, <3>1
  <2>6. QED
    BY <1>3, <2>5
<1>4. PoolElement = CHOOSE g : g = Walk(g)
  BY DEF PoolElement
<1>5. PoolElement = Walk(PoolElement)
  BY <1>2, <1>4
<1>6. QED
  BY <1>3, <1>5

LEMMA PooledIsList ==
    ASSUME NEW s, Linked(s)
    PROVE  Pooled = Elements(s) /\ PoolElement[Cardinality(Datas)] = NoOne
<1> DEFINE K == Cardinality(Datas)
<1>1. /\ K \in Nat /\ Len(s) \in Nat /\ Len(s) <= K
      /\ \A i \in 1..Len(s) : s[i] \in Datas /\ s[i] # NoOne
  BY DataAssumption, FS_CardinalityType, ListIsBounded DEF Linked
<1>2. \A n \in 0..K : PoolElement[n] = IF n < Len(s) THEN s[n + 1] ELSE NoOne
  BY PoolElementIsList
<1>3. PoolElement[K] = NoOne
  BY <1>1, <1>2
<1>4. Pooled \subseteq Elements(s)
  <2>1. ASSUME NEW n \in 0..K, PoolElement[n] # NoOne PROVE PoolElement[n] \in Elements(s)
    <3>1. n < Len(s) /\ PoolElement[n] = s[n + 1]
      BY <1>2, <2>1
    <3>2. n + 1 \in 1..Len(s)
      BY <1>1, <3>1
    <3>3. QED
      BY <3>1, <3>2 DEF Elements
  <2>2. QED
    BY <2>1 DEF Pooled
<1>5. Elements(s) \subseteq Pooled
  <2>1. ASSUME NEW i \in 1..Len(s) PROVE s[i] \in Pooled
    <3>1. i - 1 \in 0..K /\ i - 1 < Len(s) /\ (i - 1) + 1 = i
      BY <1>1
    <3>2. PoolElement[i - 1] = s[i] /\ s[i] # NoOne
      BY <1>1, <1>2, <3>1
    <3>3. QED
      BY <3>1, <3>2 DEF Pooled
  <2>2. QED
    BY <2>1 DEF Elements
<1>6. QED
  BY <1>3, <1>4, <1>5

\* Nothing is on the list that the list does not lead to.
LEMMA LinkedKept ==
    ASSUME NEW s, Linked(s), next' = next, taskPool' = taskPool
    PROVE  Linked(s)'
BY DEF Linked

\* PushTaskData.
LEMMA LinkedPush ==
    ASSUME NEW s, Linked(s), NEW d \in Datas, d \notin Elements(s),
           next \in [Datas -> Datas \union {NoOne}],
           next' = [next EXCEPT ![d] = taskPool], taskPool' = d
    PROVE  Linked(<<d>> \o s)' /\ Elements(<<d>> \o s) = Elements(s) \union {d}
<1> DEFINE r == <<d>> \o s
<1>1. /\ s \in Seq(Datas) /\ Distinct(s) /\ Len(s) \in Nat
      /\ \A i \in 1..Len(s) : s[i] # d /\ s[i] \in Datas
  BY DEF Linked, Elements
<1>2. r \in Seq(Datas) /\ Elements(r) = Elements(s) \union {d} /\ Distinct(r)
  BY <1>1, ConsElements, DistinctCons
<1>3. Len(r) = Len(s) + 1 /\ r[1] = d /\ \A i \in 1..Len(s) : r[i + 1] = s[i]
  BY <1>1
<1>4. r # <<>>
  BY <1>3
<1> HIDE DEF r
<1>5. ASSUME NEW i \in 1..Len(r)
      PROVE  next'[r[i]] = IF i = Len(r) THEN NoOne ELSE r[i + 1]
  <2>1. CASE i = 1
    <3>1. next'[r[i]] = taskPool
      BY <1>3, <2>1
    <3>2. CASE s = <<>>
      BY <1>3, <2>1, <3>1, <3>2 DEF Linked
    <3>3. CASE s # <<>>
      <4>1. taskPool = s[1] /\ 1 \in 1..Len(s)
        BY <1>1, <3>3 DEF Linked
      <4>2. QED
        BY <1>1, <1>3, <2>1, <3>1, <4>1
    <3>4. QED
      BY <3>2, <3>3
  <2>2. CASE i # 1
    <3>1. PICK j \in 1..Len(s) : i = j + 1
      BY <1>1, <1>3, <2>2
    <3>2. r[i] = s[j] /\ s[j] # d /\ s[j] \in Datas
      BY <1>1, <1>3, <3>1
    <3>3. next'[r[i]] = IF j = Len(s) THEN NoOne ELSE s[j + 1]
      BY <3>2 DEF Linked
    <3>4. j # Len(s) => j + 1 \in 1..Len(s)
      BY <1>1
    <3>5. QED
      BY <1>1, <1>3, <3>1, <3>3, <3>4
  <2>3. QED
    BY <2>1, <2>2
<1>6. Linked(r)'
  BY <1>2, <1>3, <1>4, <1>5 DEF Linked
<1>7. QED
  BY <1>2, <1>6 DEF r

\* TakeTaskData and DeallocTaskData.
LEMMA LinkedPop ==
    ASSUME NEW s, Linked(s), taskPool # NoOne, next' = next, taskPool' = next[taskPool]
    PROVE  /\ s # <<>> /\ taskPool \in Datas
           /\ Linked(Tail(s))'
           /\ taskPool \notin Elements(Tail(s))
           /\ Elements(s) = Elements(Tail(s)) \union {taskPool}
<1>1. s \in Seq(Datas) /\ s # <<>> /\ taskPool = s[1]
  BY DEF Linked
<1>2. Head(s) = s[1]
  BY <1>1
<1>0. PICK t : t = Tail(s)
  OBVIOUS
<1>3. /\ s[1] \in Datas /\ t \in Seq(Datas) /\ Len(t) = Len(s) - 1
      /\ Elements(s) = Elements(t) \union {s[1]}
      /\ \A i \in 1..Len(t) : t[i] = s[i + 1]
  BY <1>0, <1>1, <1>2, TailElements
<1>4. Distinct(t) /\ s[1] \notin Elements(t)
  BY <1>0, <1>1, <1>2, DistinctTail DEF Linked
<1>5. Len(s) \in Nat \ {0}
  BY <1>1
<1>6. taskPool' = IF t = <<>> THEN NoOne ELSE t[1]
  <2>1. next[s[1]] = IF 1 = Len(s) THEN NoOne ELSE s[2]
    BY <1>5 DEF Linked
  <2>2. CASE Len(s) = 1
    <3>1. t = <<>>
      BY <1>3, <2>2
    <3>2. QED
      BY <1>1, <2>1, <2>2, <3>1
  <2>3. CASE Len(s) # 1
    <3>1. t # <<>> /\ t[1] = s[2]
      BY <1>3, <1>5, <2>3
    <3>2. QED
      BY <1>1, <2>1, <2>3, <3>1
  <2>4. QED
    BY <2>2, <2>3
<1>7. ASSUME NEW i \in 1..Len(t)
      PROVE  next'[t[i]] = IF i = Len(t) THEN NoOne ELSE t[i + 1]
  <2>1. /\ i + 1 \in 1..Len(s) /\ t[i] = s[i + 1]
        /\ i # Len(t) => i + 1 \in 1..Len(t) /\ t[i + 1] = s[i + 1 + 1]
    BY <1>3, <1>5
  <2>2. next[s[i + 1]] = IF i + 1 = Len(s) THEN NoOne ELSE s[i + 1 + 1]
    BY <2>1 DEF Linked
  <2>3. QED
    BY <1>3, <1>5, <2>1, <2>2
<1>8. QED
  BY <1>0, <1>1, <1>3, <1>4, <1>6, <1>7 DEF Linked

-----------------------------------------------------------------------------
(* The inductive invariants.                                               *)

\* What JobQueue keeps, whatever its users do.
QueueInv == /\ accepted \subseteq Conns /\ executing \subseteq Conns /\ done \subseteq accepted
            /\ queue \in Seq(Conns) /\ Distinct(queue)
            /\ answer \in [Conns -> Pool!Answers] /\ open \in BOOLEAN
            /\ Elements(queue) \union executing \subseteq accepted \ done
            /\ Elements(queue) \intersect executing = {}

\* A thread that is about to dereference a pointer or use a descriptor has one.
UsersTyped ==
    /\ sent \in [Conns -> Seq(Response)]
    /\ executing = {c \in Conns : worker[c] # "none"}
    /\ \A c \in accepted : jobData[c] \in Datas /\ data[jobData[c]].socket \in Fds
    /\ accepting # "none" =>
          serving \in Conns /\ taskData \in Datas /\ data[taskData].socket \in Fds

TypeInv == TypeOK /\ QueueInv /\ UsersTyped

\* Which threads run in each phase of http_server_init and http_server_dealloc.
PhaseInv == /\ thread = "callback" <=> accepting # "none"
            /\ thread \notin {"unborn", "exited"} => socket = "open"
            /\ owner = "tcp_init" => thread = "unborn"
            /\ owner \in {"pool_dealloc", "pool_joining", "free", "down"} => thread = "exited"
            /\ open <=> owner \notin {"pool_joining", "free", "down"}
            /\ owner \in {"free", "down"} => queue = <<>> /\ executing = {}
            /\ owner = "down" => taskPool = NoOne

\* The connections that have not been accepted from the listening socket.
Unseen(c) == c \notin arrived \/ c \in backlog

\* A connection is served once, under one descriptor.
ConnInv ==
    /\ \A c \in Conns : Unseen(c) => /\ c \notin accepted /\ sent[c] = <<>>
                                     /\ \A f \in Fds : fd[f] # c
                                     /\ accepting # "none" => serving # c
    /\ \A f, g \in Fds : fd[f] = fd[g] /\ fd[f] # NoOne => f = g
    /\ Keeps /\ serving \in accepted => answer[serving] = "timeout"
    /\ timeout = "infinite" =>
          \A c \in accepted : c \in done \/ (accepting = "waiting" /\ serving = c)

\* The jobs that have a task_data: queued, executing or abandoned by the shutdown.
Unfinished == accepted \ done

\* What OneOwner says of the list s, and what is allocated.
Owners(s) ==
    /\ Linked(s)
    /\ \A c \in Unfinished : jobData[c] \notin Elements(s)
    /\ \A b, c \in Unfinished : jobData[b] = jobData[c] => b = c
    /\ Keeps => taskData \notin Elements(s) /\ \A c \in Unfinished : jobData[c] # taskData
    /\ heap = Elements(s) \union {jobData[c] : c \in Unfinished}
              \union (IF Keeps THEN {taskData} ELSE {})

OwnerInv == \E s : Owners(s)

\* A descriptor is open for the connection that is to be answered through it.
DescriptorInv ==
    /\ \A c \in Unfinished : worker[c] # "push" => fd[data[jobData[c]].socket] = c
    /\ Keeps /\ accepting # "push" => fd[data[taskData].socket] = serving
    /\ \A f \in Fds : fd[f] # NoOne => \/ fd[f] \in Unfinished /\ worker[fd[f]] # "push"
                                       \/ Keeps /\ accepting # "push" /\ fd[f] = serving

\* A connection has no response before its task is finalized, and the task_data holds
\* the response to its request when it is.
AnswerInv ==
    /\ \A c \in Conns : /\ Len(sent[c]) <= 1
                        /\ \A i \in 1..Len(sent[c]) : sent[c][i].about = c
    /\ \A c \in Unfinished :
          /\ worker[c] \in {"none", "parse", "handle", "write"} => sent[c] = <<>>
          /\ worker[c] = "handle" => data[jobData[c]].request = c
          /\ worker[c] = "write" => data[jobData[c]].response.about = c
    /\ accepting \in {"enqueue", "respond", "write"} => sent[serving] = <<>>
    /\ accepting = "write" => data[taskData].response.about = serving

\* All this holds until a call times out.
TaskInv == NoTimeouts => OwnerInv /\ DescriptorInv /\ AnswerInv

-----------------------------------------------------------------------------
(* Type correctness.                                                       *)

LEMMA QueueAccept == ASSUME QueueInv, NEW c \in Conns, Pool!Accept(c) PROVE QueueInv'
<1>1. /\ c \notin accepted /\ accepted' = accepted \union {c} /\ queue' = Append(queue, c)
      /\ UNCHANGED <<executing, done, answer, open>>
  BY DEF Pool!Accept
<1>2. queue \in Seq(Conns) /\ Distinct(queue) /\ c \notin Elements(queue)
  BY <1>1 DEF QueueInv
<1>3. /\ queue' \in Seq(Conns) /\ Distinct(queue')
      /\ Elements(queue') = Elements(queue) \union {c}
  BY <1>1, <1>2, AppendElements, DistinctAppend
<1>4. QED
  BY <1>1, <1>3 DEF QueueInv

LEMMA QueueStart ==
    ASSUME QueueInv, Pool!Start
    PROVE  /\ QueueInv' /\ Head(queue) \in Elements(queue) /\ Head(queue) \in Conns
           /\ executing' = executing \union {Head(queue)}
           /\ Elements(queue') \subseteq Elements(queue)
           /\ UNCHANGED <<accepted, done, answer, open>>
<1>1. /\ queue # <<>> /\ executing' = executing \union {Head(queue)} /\ queue' = Tail(queue)
      /\ UNCHANGED <<accepted, done, answer, open>>
  BY DEF Pool!Start
<1>2. queue \in Seq(Conns) /\ Distinct(queue)
  BY DEF QueueInv
<1>3. /\ Head(queue) \in Conns /\ queue' \in Seq(Conns)
      /\ Elements(queue) = Elements(queue') \union {Head(queue)}
  BY <1>1, <1>2, TailElements
<1>4. Distinct(queue') /\ Head(queue) \notin Elements(queue')
  BY <1>1, <1>2, DistinctTail
<1>5. QED
  BY <1>1, <1>3, <1>4 DEF QueueInv

LEMMA QueueFinish ==
    ASSUME QueueInv, NEW c \in Conns, Pool!Finish(c)
    PROVE  /\ QueueInv' /\ c \in executing /\ executing' = executing \ {c}
           /\ done' = done \union {c} /\ UNCHANGED <<accepted, queue, answer, open>>
BY DEF QueueInv, Pool!Finish

LEMMA QueueAnswers ==
    ASSUME QueueInv, NEW c \in Conns, NEW a \in Pool!Answers, answer' = [answer EXCEPT ![c] = a],
           UNCHANGED <<accepted, queue, executing, done, open>>
    PROVE  QueueInv'
BY DEF QueueInv

LEMMA QueueCloses ==
    ASSUME QueueInv, open' \in BOOLEAN, UNCHANGED <<accepted, executing, done, answer>>,
           queue' = queue \/ queue' = <<>>
    PROVE  QueueInv'
<1>1. CASE queue' = <<>>
  <2>1. Elements(queue') = {} /\ Distinct(queue') /\ queue' \in Seq(Conns)
    BY <1>1 DEF Elements, Distinct
  <2>2. QED
    BY <2>1 DEF QueueInv
<1>2. QED
  BY <1>1 DEF QueueInv

\* The assignments to the fields of one task_data.
LEMMA DataSocket ==
    ASSUME data \in [Datas -> Data], NEW d \in Datas, NEW f \in Fds,
           data' = [data EXCEPT ![d].socket = f]
    PROVE  /\ data' \in [Datas -> Data] /\ data'[d].socket = f
           /\ \A e \in Datas : e # d => data'[e] = data[e]
BY DEF Data

LEMMA DataRespond ==
    ASSUME data \in [Datas -> Data], NEW d \in Datas,
           NEW about \in Conns \union {NoOne}, NEW status \in {200, 400, 500, 503},
           Respond(d, about, status)
    PROVE  /\ data' \in [Datas -> Data] /\ data'[d].response.about = about
           /\ data'[d].socket = data[d].socket
           /\ \A e \in Datas : e # d => data'[e] = data[e]
BY DEF Data, Response, Respond

LEMMA DataParsed ==
    ASSUME data \in [Datas -> Data], NEW d \in Datas, NEW c \in Conns,
           data' = [data EXCEPT ![d].request = c,
                                ![d].response = [about |-> NoOne, status |-> 200]]
    PROVE  /\ data' \in [Datas -> Data] /\ data'[d].request = c
           /\ data'[d].socket = data[d].socket
           /\ \A e \in Datas : e # d => data'[e] = data[e]
<1>1. data[d] \in Data
  OBVIOUS
<1>2. DOMAIN data' = Datas /\ \A e \in Datas : e # d => data'[e] = data[e]
  OBVIOUS
<1>3. data'[d] = [socket |-> data[d].socket, request |-> c,
                  response |-> [about |-> NoOne, status |-> 200]]
  BY <1>1 DEF Data
<1>4. data'[d] \in Data
  BY <1>1, <1>3 DEF Data, Response
<1>5. data' = [e \in Datas |-> data'[e]]
  BY <1>2
<1>6. QED
  BY <1>2, <1>3, <1>4, <1>5

LEMMA TypeInit == Init => TypeInv
<1> SUFFICES ASSUME Init PROVE TypeInv
  OBVIOUS
<1> USE DEF Init, TcpInit, Pool!Init
<1>1. TypeOK
  <2>1. TcpTypeOK
    BY DEF TcpTypeOK, ThreadPCs
  <2>2. data \in [Datas -> Data]
    BY DEF Data, Response
  <2>3. \A c \in Conns : Len(sent[c]) = 0
    OBVIOUS
  <2>4. QED
    BY <2>1, <2>2, <2>3, TimeoutAssumption DEF TypeOK, AcceptingPCs, WorkerPCs
<1>2. QueueInv
  BY DEF QueueInv, Elements, Distinct, Pool!Answers
<1>3. UsersTyped
  BY DEF UsersTyped
<1>4. QED
  BY <1>1, <1>2, <1>3 DEF TypeInv

\* A step of no job and of no call of the callback.
LEMMA TypeQuiet ==
    ASSUME TypeInv, TypeOK', QueueInv', UNCHANGED <<sent, accepted, executing, jobData, worker>>,
           \A d \in Datas : data'[d].socket = data[d].socket,
           accepting' # "none" => accepting # "none" /\ UNCHANGED <<serving, taskData>>
    PROVE  TypeInv'
BY DEF TypeInv, UsersTyped

LEMMA TypeWrite ==
    ASSUME TypeInv, NEW d \in Datas, data[d].socket \in Fds, WriteResponse(d)
    PROVE  sent' \in [Conns -> Seq(Response)] /\ alive' \in BOOLEAN /\ UNCHANGED <<shut, gone>>
<1>1. /\ UNCHANGED <<shut, gone>> /\ sent \in [Conns -> Seq(Response)] /\ alive \in BOOLEAN
      /\ data[d].response \in Response /\ fd[data[d].socket] \in Conns \union {NoOne}
  BY DEF WriteResponse, TypeInv, UsersTyped, TypeOK, TcpTypeOK, Data
<1>2. CASE fd[data[d].socket] # NoOne
  <2>1. PICK c \in Conns : c = fd[data[d].socket]
    BY <1>1, <1>2
  <2>2. Append(sent[c], data[d].response) \in Seq(Response)
    BY <1>1
  <2>3. \/ sent' = [sent EXCEPT ![c] = Append(sent[c], data[d].response)] /\ alive' = alive
        \/ sent' = sent /\ alive' = FALSE
    BY <1>2, <2>1 DEF WriteResponse
  <2>4. QED
    BY <1>1, <2>2, <2>3
<1>3. CASE fd[data[d].socket] = NoOne
  BY <1>1, <1>3 DEF WriteResponse
<1>4. QED
  BY <1>2, <1>3

\* A worker's step that is not its last changes only data, descriptors and responses.
LEMMA TypeWork ==
    ASSUME TypeInv, NEW c \in Conns, worker[c] # "none",
           worker' \in [Conns -> WorkerPCs],
           \A b \in Conns : worker'[b] = "none" <=> worker[b] = "none",
           UNCHANGED <<poolVars, environment, owner, acceptVars, jobData, next, taskPool, heap>>,
           UNCHANGED <<running, socket, thread, current, arrived, backlog>>,
           fd' \in [Fds -> Conns \union {NoOne}],
           data' \in [Datas -> Data], \A d \in Datas : data'[d].socket = data[d].socket,
           shut' \subseteq Conns, gone' \subseteq Conns, alive' \in BOOLEAN,
           sent' \in [Conns -> Seq(Response)]
    PROVE  TypeInv'
<1> USE DEF poolVars, environment, acceptVars
<1>1. TypeOK'
  BY DEF TypeInv, TypeOK, TcpTypeOK
<1>2. executing' = {b \in Conns : worker'[b] # "none"}
  BY DEF TypeInv, UsersTyped
<1>3. UsersTyped'
  BY <1>2 DEF TypeInv, UsersTyped
<1>4. QueueInv'
  BY DEF TypeInv, QueueInv
<1>5. QED
  BY <1>1, <1>3, <1>4 DEF TypeInv

LEMMA AtWorkerKept ==
    ASSUME NEW c \in Conns, NEW from, NEW to \in WorkerPCs, from # "none", to # "none",
           worker \in [Conns -> WorkerPCs], AtWorker(c, from, to)
    PROVE  /\ worker' \in [Conns -> WorkerPCs] /\ worker[c] # "none"
           /\ \A b \in Conns : worker'[b] = "none" <=> worker[b] = "none"
BY DEF AtWorker

LEMMA TypeStep == TypeInv /\ [Next]_vars => TypeInv'
<1> SUFFICES ASSUME TypeInv, [Next]_vars PROVE TypeInv'
  OBVIOUS
<1> USE DEF others, tcpVars, poolVars, dataVars, kernelVars, environment, acceptVars, threadVars,
            AtWorker, AtAccepting, AtOwner
<1>1. QueueInv /\ TypeOK
  BY DEF TypeInv
<1>2. UNCHANGED poolVars => QueueInv'
  BY <1>1 DEF QueueInv
<1>3. ASSUME NEW c \in Conns, worker[c] # "none"
      PROVE  jobData[c] \in Datas /\ data[jobData[c]].socket \in Fds
  BY <1>3 DEF TypeInv, UsersTyped, QueueInv
<1>t1. CASE Listening
  <2>1. TypeOK' /\ UNCHANGED <<others, owner>>
    BY <1>1, <1>t1 DEF Listening, ThreadLoop, SelectTimesOut, SelectReady, AcceptFails, TypeOK,
                       TcpTypeOK, ThreadPCs
  <2>2. QED
    BY <1>2, <2>1, TypeQuiet
<1>t2. ASSUME NEW c \in Conns, NEW f \in Fds, NEW d \in Datas, AcceptConnection(c, f, d)
       PROVE  TypeInv'
  <2>1. /\ data' \in [Datas -> Data] /\ data'[d].socket = f
        /\ \A e \in Datas : e # d => data'[e] = data[e]
    BY <1>1, <1>t2, DataSocket DEF AcceptConnection, TypeOK
  <2>2. TcpTypeOK'
    BY <1>1, <1>t2 DEF AcceptConnection, Accept, TypeOK, TcpTypeOK, ThreadPCs
  <2>3. taskPool' \in Datas \union {NoOne} /\ heap' \subseteq Datas
    BY <1>1, <1>t2 DEF AcceptConnection, TakeTaskData, TypeOK
  <2>4. /\ accepting' = "enqueue" /\ serving' = c /\ taskData' = d
        /\ UNCHANGED <<poolVars, environment, owner, worker, jobData, next, kernelVars>>
    BY <1>t2 DEF AcceptConnection
  <2>5. TypeOK'
    BY <1>1, <2>1, <2>2, <2>3, <2>4 DEF TypeOK, AcceptingPCs
  <2>6. \A e \in Datas : data[e].socket \in Fds => data'[e].socket \in Fds
    BY <2>1
  <2>7. UsersTyped'
    BY <2>1, <2>4, <2>6 DEF TypeInv, UsersTyped
  <2>8. QED
    BY <1>2, <2>4, <2>5, <2>7 DEF TypeInv
<1>t3. CASE Enqueue
  <2>1. serving \in Conns /\ taskData \in Datas /\ data[taskData].socket \in Fds
    BY <1>t3 DEF Enqueue, TypeInv, UsersTyped
  <2>2. /\ Pool!Accept(serving) /\ jobData' = [jobData EXCEPT ![serving] = taskData]
        /\ accepting' = "waiting"
        /\ UNCHANGED <<tcpVars, environment, owner, serving, taskData, worker, dataVars,
                       kernelVars>>
    BY <1>t3 DEF Enqueue
  <2>3. accepted' = accepted \union {serving} /\ UNCHANGED executing
    BY <2>2 DEF Pool!Accept
  <2>4. TypeOK'
    BY <1>1, <2>1, <2>2 DEF TypeOK, TcpTypeOK, AcceptingPCs
  <2>5. UsersTyped'
    BY <1>1, <2>1, <2>2, <2>3 DEF TypeInv, UsersTyped, TypeOK
  <2>6. QED
    BY <1>1, <2>1, <2>2, <2>4, <2>5, QueueAccept DEF TypeInv
<1>t4. CASE EnqueueRefused
  <2>1. serving \in Conns
    BY <1>t4 DEF EnqueueRefused, TypeInv, UsersTyped
  <2>2. PICK a \in {"full", "error"} : Pool!Refuse(serving, a)
    BY <1>t4 DEF EnqueueRefused
  <2>3. QueueInv' /\ UNCHANGED <<accepted, executing>>
    BY <1>1, <2>1, <2>2, QueueAnswers DEF Pool!Refuse, Pool!Answers
  <2>4. TypeOK'
    BY <1>1, <1>t4 DEF EnqueueRefused, TypeOK, TcpTypeOK, AcceptingPCs
  <2>5. QED
    BY <1>t4, <2>3, <2>4, TypeQuiet DEF EnqueueRefused
<1>t5. ASSUME NEW a \in {"success", "detached", "timeout"}, EnqueueReturns(a) PROVE TypeInv'
  <2>1. serving \in Conns /\ accepting = "waiting"
    BY <1>t5 DEF EnqueueReturns, TypeInv, UsersTyped
  <2>2. QueueInv' /\ UNCHANGED <<accepted, executing>>
    BY <1>1, <1>t5, <2>1, QueueAnswers DEF EnqueueReturns, Pool!Answer, Pool!Answers
  <2>3. accepting' \in {"none", "respond"} /\ TcpTypeOK'
    BY <1>1, <1>t5 DEF EnqueueReturns, CallbackReturns, TypeOK, TcpTypeOK, ThreadPCs
  <2>4. UNCHANGED <<environment, owner, serving, taskData, worker, jobData, dataVars, kernelVars>>
    BY <1>t5 DEF EnqueueReturns
  <2>5. TypeOK'
    BY <1>1, <2>3, <2>4 DEF TypeOK, AcceptingPCs
  <2>6. QED
    BY <2>1, <2>2, <2>4, <2>5, TypeQuiet
<1>t6. CASE RespondError
  <2>1. serving \in Conns /\ taskData \in Datas /\ accepting = "respond"
    BY <1>t6 DEF RespondError, TypeInv, UsersTyped
  <2>2. PICK status \in {503, 500} : Respond(taskData, serving, status)
    BY <1>t6 DEF RespondError, StatusOf
  <2>3. /\ data' \in [Datas -> Data] /\ \A d \in Datas : data'[d].socket = data[d].socket
    BY <1>1, <2>1, <2>2, DataRespond DEF TypeOK
  <2>4. accepting' = "write" /\ UNCHANGED <<tcpVars, poolVars, environment, owner, serving, taskData,
               worker, jobData, next, taskPool, heap, kernelVars>>
    BY <1>t6 DEF RespondError
  <2>5. TypeOK'
    BY <1>1, <2>3, <2>4 DEF TypeOK, TcpTypeOK, AcceptingPCs
  <2>6. QED
    BY <1>2, <2>1, <2>3, <2>4, <2>5, TypeQuiet
<1>t7. CASE ErrorWrites
  <2>1. taskData \in Datas /\ data[taskData].socket \in Fds /\ accepting = "write"
    BY <1>t7 DEF ErrorWrites, TypeInv, UsersTyped
  <2>2. sent' \in [Conns -> Seq(Response)] /\ alive' \in BOOLEAN /\ UNCHANGED <<shut, gone>>
    BY <1>t7, <2>1, TypeWrite DEF ErrorWrites
  <2>3. accepting' = "shutdown" /\ UNCHANGED <<tcpVars, poolVars, environment, owner, serving,
               taskData, worker, jobData, dataVars>>
    BY <1>t7 DEF ErrorWrites
  <2>4. TypeOK'
    BY <1>1, <2>2, <2>3 DEF TypeOK, TcpTypeOK, AcceptingPCs
  <2>5. QED
    BY <1>2, <2>1, <2>2, <2>3, <2>4 DEF TypeInv, UsersTyped
<1>t8. CASE ErrorShutsDown
  <2>1. taskData \in Datas /\ data[taskData].socket \in Fds
    BY <1>t8 DEF ErrorShutsDown, TypeInv, UsersTyped
  <2>2. TypeOK'
    BY <1>1, <1>t8, <2>1 DEF ErrorShutsDown, ShutDown, TypeOK, TcpTypeOK, AcceptingPCs
  <2>3. QED
    BY <1>2, <1>t8, <2>2, TypeQuiet DEF ErrorShutsDown, ShutDown
<1>t9. CASE ErrorCloses
  <2>1. taskData \in Datas /\ data[taskData].socket \in Fds
    BY <1>t9 DEF ErrorCloses, TypeInv, UsersTyped
  <2>2. TypeOK'
    BY <1>1, <1>t9, <2>1 DEF ErrorCloses, CloseDescriptor, TypeOK, TcpTypeOK, AcceptingPCs
  <2>3. QED
    BY <1>2, <1>t9, <2>2, TypeQuiet DEF ErrorCloses
<1>t10. CASE ErrorPushes
  <2>1. taskData \in Datas
    BY <1>t10 DEF ErrorPushes, TypeInv, UsersTyped
  <2>2. TypeOK'
    BY <1>1, <1>t10, <2>1
    DEF ErrorPushes, PushTaskData, CallbackReturns, TypeOK, TcpTypeOK, AcceptingPCs, ThreadPCs
  <2>3. QED
    BY <1>2, <1>t10, <2>2, TypeQuiet DEF ErrorPushes, PushTaskData
<1>w0. CASE StartTask
  <2>1. PICK c \in Conns : c = Head(queue) /\ c \in Elements(queue)
    BY <1>1, <1>w0, QueueStart DEF StartTask
  <2>2. /\ QueueInv' /\ executing' = executing \union {c} /\ UNCHANGED accepted
        /\ worker' = [worker EXCEPT ![c] = "parse"]
        /\ UNCHANGED <<tcpVars, environment, owner, acceptVars, jobData, dataVars, kernelVars>>
    BY <1>1, <1>w0, <2>1, QueueStart DEF StartTask
  <2>3. TypeOK'
    BY <1>1, <2>2 DEF TypeOK, TcpTypeOK, WorkerPCs
  <2>4. UsersTyped'
    BY <1>1, <2>2 DEF TypeInv, UsersTyped, TypeOK
  <2>5. QED
    BY <2>2, <2>3, <2>4 DEF TypeInv
<1>w2. /\ sent \in [Conns -> Seq(Response)] /\ fd \in [Fds -> Conns \union {NoOne}]
       /\ data \in [Datas -> Data] /\ shut \subseteq Conns /\ gone \subseteq Conns
       /\ alive \in BOOLEAN /\ worker \in [Conns -> WorkerPCs]
  BY DEF TypeInv, UsersTyped, TypeOK, TcpTypeOK
<1>w3. ASSUME NEW c \in Conns, Parse(c) PROVE TypeInv'
  <2>1. /\ worker[c] # "none" /\ worker' \in [Conns -> WorkerPCs]
        /\ \A b \in Conns : worker'[b] = "none" <=> worker[b] = "none"
    BY <1>w2, <1>w3, AtWorkerKept DEF Parse, WorkerPCs
  <2>2. /\ jobData[c] \in Datas /\ data[jobData[c]].socket \in Fds
        /\ UNCHANGED <<tcpVars, poolVars, environment, owner, acceptVars, jobData,
                       next, taskPool, heap, kernelVars>>
    BY <1>3, <1>w3, <2>1 DEF Parse
  <2>3. /\ data' \in [Datas -> Data] /\ \A d \in Datas : data'[d].socket = data[d].socket
    <3>1. CASE Respond(jobData[c], c, 400)
      BY <1>w2, <2>2, <3>1, DataRespond
    <3>2. CASE /\ fd[data[jobData[c]].socket] # NoOne
               /\ data' = [data EXCEPT ![jobData[c]].request = fd[data[jobData[c]].socket],
                              ![jobData[c]].response = [about |-> NoOne, status |-> 200]]
      <4>1. fd[data[jobData[c]].socket] \in Conns
        BY <1>w2, <2>2, <3>2
      <4>2. QED
        BY <1>w2, <2>2, <3>2, <4>1, DataParsed
    <3>3. QED
      BY <1>w3, <3>1, <3>2 DEF Parse
  <2>4. QED
    BY <1>w2, <2>1, <2>2, <2>3, TypeWork
<1>w4. ASSUME NEW c \in Conns, Handle(c) PROVE TypeInv'
  <2>1. /\ worker[c] # "none" /\ worker' \in [Conns -> WorkerPCs]
        /\ \A b \in Conns : worker'[b] = "none" <=> worker[b] = "none"
    BY <1>w2, <1>w4, AtWorkerKept DEF Handle, WorkerPCs
  <2>2. /\ jobData[c] \in Datas
        /\ UNCHANGED <<tcpVars, poolVars, environment, owner, acceptVars, jobData,
                       next, taskPool, heap, kernelVars>>
    BY <1>3, <1>w4, <2>1 DEF Handle
  <2>3. PICK d \in Datas, about \in Conns \union {NoOne}, status \in {200, 400, 500, 503} :
            Respond(d, about, status)
    <3>1. data[jobData[c]].request \in Conns \union {NoOne}
      BY <1>w2, <2>2 DEF Data
    <3>2. QED
      BY <1>w4, <2>2, <3>1 DEF Handle
  <2>4. data' \in [Datas -> Data] /\ \A e \in Datas : data'[e].socket = data[e].socket
    <3>1. /\ data' \in [Datas -> Data] /\ data'[d].socket = data[d].socket
          /\ \A e \in Datas : e # d => data'[e] = data[e]
      BY <1>w2, <2>3, DataRespond
    <3>2. QED
      BY <3>1
  <2>5. QED
    BY <1>w2, <2>1, <2>2, <2>4, TypeWork
<1>w5. ASSUME NEW c \in Conns, WorkerWrites(c) PROVE TypeInv'
  <2>1. /\ worker[c] # "none" /\ worker' \in [Conns -> WorkerPCs]
        /\ \A b \in Conns : worker'[b] = "none" <=> worker[b] = "none"
    BY <1>w2, <1>w5, AtWorkerKept DEF WorkerWrites, WorkerPCs
  <2>2. /\ WriteResponse(jobData[c])
        /\ UNCHANGED <<tcpVars, poolVars, environment, owner, acceptVars, jobData, dataVars>>
    BY <1>w5 DEF WorkerWrites
  <2>3. sent' \in [Conns -> Seq(Response)] /\ alive' \in BOOLEAN /\ UNCHANGED <<shut, gone>>
    BY <1>3, <2>1, <2>2, TypeWrite
  <2>4. QED
    BY <1>w2, <2>1, <2>2, <2>3, TypeWork
<1>w6. ASSUME NEW c \in Conns, WorkerShutsDown(c) PROVE TypeInv'
  <2>1. /\ worker[c] # "none" /\ worker' \in [Conns -> WorkerPCs]
        /\ \A b \in Conns : worker'[b] = "none" <=> worker[b] = "none"
    BY <1>w2, <1>w6, AtWorkerKept DEF WorkerShutsDown, WorkerPCs
  <2>2. /\ UNCHANGED <<tcpVars, poolVars, environment, owner, acceptVars, jobData, dataVars,
                       gone, sent, alive>>
        /\ shut' = shut \union ({fd[data[jobData[c]].socket]} \ {NoOne})
    BY <1>w6 DEF WorkerShutsDown, ShutDown
  <2>3. shut' \subseteq Conns
    BY <1>3, <1>w2, <2>1, <2>2
  <2>4. QED
    BY <1>w2, <2>1, <2>2, <2>3, TypeWork
<1>w7. ASSUME NEW c \in Conns, WorkerCloses(c) PROVE TypeInv'
  <2>1. /\ worker[c] # "none" /\ worker' \in [Conns -> WorkerPCs]
        /\ \A b \in Conns : worker'[b] = "none" <=> worker[b] = "none"
    BY <1>w2, <1>w7, AtWorkerKept DEF WorkerCloses, WorkerPCs
  <2>2. /\ UNCHANGED <<running, socket, thread, current, arrived, backlog, poolVars, environment,
                       owner, acceptVars, jobData, dataVars, kernelVars>>
        /\ fd' = [fd EXCEPT ![data[jobData[c]].socket] = NoOne]
    BY <1>w7 DEF WorkerCloses, CloseDescriptor
  <2>3. QED
    BY <1>w2, <2>1, <2>2, TypeWork
<1>w8. ASSUME NEW c \in Conns, WorkerPushes(c) PROVE TypeInv'
  <2>1. /\ worker[c] # "none" /\ worker' = [worker EXCEPT ![c] = "none"]
        /\ Pool!Finish(c) /\ next' = [next EXCEPT ![jobData[c]] = taskPool]
        /\ taskPool' = jobData[c]
        /\ UNCHANGED <<tcpVars, environment, owner, acceptVars, jobData, kernelVars, data, heap>>
    BY <1>w8 DEF WorkerPushes, PushTaskData
  <2>2. QueueInv' /\ executing' = executing \ {c} /\ UNCHANGED accepted
    BY <1>1, <2>1, QueueFinish
  <2>3. TypeOK'
    BY <1>1, <1>3, <2>1 DEF TypeOK, TcpTypeOK, WorkerPCs
  <2>4. UsersTyped'
    BY <1>1, <2>1, <2>2 DEF TypeInv, UsersTyped, TypeOK
  <2>5. QED
    BY <2>2, <2>3, <2>4 DEF TypeInv
<1>c1. ASSUME NEW c \in Conns, Connect(c) PROVE TypeInv'
  <2>1. TypeOK'
    BY <1>1, <1>c1 DEF Connect, ClientConnects, TypeOK, TcpTypeOK
  <2>2. QED
    BY <1>2, <1>c1, <2>1, TypeQuiet DEF Connect
<1>c2. ASSUME NEW c \in Conns, HangUp(c) PROVE TypeInv'
  <2>1. TypeOK'
    BY <1>1, <1>c2 DEF HangUp, TypeOK, TcpTypeOK
  <2>2. QED
    BY <1>2, <1>c2, <2>1, TypeQuiet DEF HangUp
<1>m1. CASE InitSocket \/ InitSocketFails \/ InitPool \/ InitPoolFails \/ InitFailed
            \/ Dealloc \/ DeallocSocket \/ DeallocDone
  <2>1. UNCHANGED others
    BY <1>m1 DEF InitSocket, InitSocketFails, InitPool, InitPoolFails, InitFailed, Dealloc,
                 DeallocSocket, DeallocDone
  <2>2. TcpTypeOK'
    BY <1>1, <1>m1, <2>1
    DEF InitSocket, InitSocketFails, InitPool, InitPoolFails, InitFailed, Dealloc, DeallocSocket,
        DeallocDone, TcpStart, TcpStop, TcpJoin, TypeOK, TcpTypeOK, ThreadPCs
  <2>3. owner' \in {"pool_init", "failed", "up", "failing", "joining", "pool_dealloc", "down"}
    BY <1>m1 DEF InitSocket, InitSocketFails, InitPool, InitPoolFails, InitFailed, Dealloc,
                 DeallocSocket, DeallocDone
  <2>4. TypeOK'
    BY <1>1, <2>1, <2>2, <2>3 DEF TypeOK
  <2>5. QED
    BY <1>2, <2>1, <2>4, TypeQuiet
<1>m2. CASE DeallocPool \/ DeallocPoolJoined
  <2>1. TypeOK' /\ UNCHANGED <<tcpVars, environment, threadVars, dataVars, kernelVars>>
    BY <1>1, <1>m2 DEF DeallocPool, DeallocPoolJoined, TypeOK, TcpTypeOK
  <2>2. QueueInv' /\ UNCHANGED <<accepted, executing>>
    BY <1>1, <1>m2, QueueCloses
    DEF DeallocPool, DeallocPoolJoined, Pool!Close, Pool!Discard, QueueInv
  <2>3. QED
    BY <2>1, <2>2, TypeQuiet
<1>m3. CASE DeallocTaskData
  <2>1. TypeOK'
    BY <1>1, <1>m3 DEF DeallocTaskData, TypeOK, TcpTypeOK
  <2>2. QED
    BY <1>2, <1>m3, <2>1, TypeQuiet DEF DeallocTaskData
<1>u. CASE UNCHANGED vars
  <2>1. TypeOK'
    BY <1>1, <1>u DEF vars, TypeOK, TcpTypeOK
  <2>2. QED
    BY <1>2, <1>u, <2>1, TypeQuiet DEF vars
<1>q. QED
  BY <1>t1, <1>t2, <1>t3, <1>t4, <1>t5, <1>t6, <1>t7, <1>t8, <1>t9, <1>t10, <1>w0, <1>w3, <1>w4,
     <1>w5, <1>w6, <1>w7, <1>w8, <1>c1, <1>c2, <1>m1, <1>m2, <1>m3, <1>u
  DEF Next, AcceptThread, WorkerThread, Main, Stopping

\* Every variable of the server keeps its type, also after a call has timed out: a thread
\* that uses a task_data has a pointer to one, with a descriptor in it.
THEOREM TypeCorrect == Spec => []TypeOK
<1>1. TypeInv => TypeOK
  BY DEF TypeInv
<1>2. QED
  BY <1>1, TypeInit, TypeStep, PTL DEF Spec

-----------------------------------------------------------------------------
(* The phases of the server.                                               *)

LEMMA PhaseInit == Init => PhaseInv
BY DEF Init, TcpInit, Pool!Init, PhaseInv

\* A step that none of the flags of PhaseInv is about.
LEMMA PhaseQuiet ==
    ASSUME PhaseInv, UNCHANGED <<thread, socket, owner, open, accepting, executing, queue>>,
           owner # "down" \/ UNCHANGED taskPool
    PROVE  PhaseInv'
BY DEF PhaseInv

LEMMA PhaseStep == TypeInv /\ PhaseInv /\ [Next]_vars => PhaseInv'
<1> SUFFICES ASSUME TypeInv, PhaseInv, [Next]_vars PROVE PhaseInv'
  OBVIOUS
<1> USE DEF others, tcpVars, poolVars, dataVars, kernelVars, environment, acceptVars, threadVars,
            AtWorker, AtAccepting, AtOwner
<1>1. ASSUME NEW c \in Conns, worker[c] # "none" PROVE owner # "down"
  <2>1. c \in executing
    BY <1>1 DEF TypeInv, UsersTyped
  <2>2. QED
    BY <2>1 DEF PhaseInv
<1>2. accepting # "none" => owner \notin {"tcp_init", "pool_dealloc", "pool_joining", "free", "down"}
  BY DEF PhaseInv
<1>t1. CASE Listening
  BY <1>t1 DEF Listening, ThreadLoop, SelectTimesOut, SelectReady, AcceptFails, PhaseInv
<1>t2. ASSUME NEW c \in Conns, NEW f \in Fds, NEW d \in Datas, AcceptConnection(c, f, d)
       PROVE  PhaseInv'
  BY <1>t2 DEF AcceptConnection, Accept, PhaseInv
<1>t3. CASE Enqueue
  BY <1>2, <1>t3 DEF Enqueue, Pool!Accept, PhaseInv
<1>t4. CASE EnqueueRefused
  BY <1>2, <1>t4 DEF EnqueueRefused, Pool!Refuse, PhaseInv
<1>t5. ASSUME NEW a \in {"success", "detached", "timeout"}, EnqueueReturns(a) PROVE PhaseInv'
  BY <1>2, <1>t5 DEF EnqueueReturns, Pool!Answer, CallbackReturns, PhaseInv
<1>t6. CASE RespondError
  BY <1>t6 DEF RespondError, PhaseInv
<1>t7. CASE ErrorWrites
  BY <1>t7 DEF ErrorWrites, PhaseInv
<1>t8. CASE ErrorShutsDown
  BY <1>t8 DEF ErrorShutsDown, PhaseInv
<1>t9. CASE ErrorCloses
  BY <1>t9 DEF ErrorCloses, PhaseInv
<1>t10. CASE ErrorPushes
  BY <1>2, <1>t10 DEF ErrorPushes, CallbackReturns, PhaseInv
<1>w0. CASE StartTask
  <2>1. queue # <<>> /\ UNCHANGED <<thread, socket, owner, open, accepting, taskPool>>
    BY <1>w0 DEF StartTask, Pool!Start
  <2>2. QED
    BY <2>1 DEF PhaseInv
<1>w1. ASSUME NEW c \in Conns, Parse(c) \/ Handle(c) \/ WorkerWrites(c) \/ WorkerShutsDown(c)
                               \/ WorkerCloses(c)
       PROVE  PhaseInv'
  BY <1>w1, PhaseQuiet DEF Parse, Handle, WorkerWrites, WorkerShutsDown, WorkerCloses
<1>w2. ASSUME NEW c \in Conns, WorkerPushes(c) PROVE PhaseInv'
  <2>1. /\ owner # "down" /\ executing' = executing \ {c}
        /\ UNCHANGED <<thread, socket, owner, open, accepting, queue>>
    BY <1>1, <1>w2 DEF WorkerPushes, Pool!Finish
  <2>2. QED
    BY <2>1 DEF PhaseInv
<1>c1. ASSUME NEW c \in Conns, Connect(c) \/ HangUp(c) PROVE PhaseInv'
  BY <1>c1, PhaseQuiet DEF Connect, ClientConnects, HangUp
<1>m1. CASE InitSocket \/ InitSocketFails \/ InitPool \/ InitPoolFails \/ InitFailed
            \/ Dealloc \/ DeallocSocket
  BY <1>m1 DEF InitSocket, InitSocketFails, InitPool, InitPoolFails, InitFailed, Dealloc,
               DeallocSocket, TcpStart, TcpStop, TcpJoin, PhaseInv
<1>m2. CASE DeallocPool
  BY <1>m2 DEF DeallocPool, Pool!Close, PhaseInv
<1>m3. CASE DeallocPoolJoined
  BY <1>m3 DEF DeallocPoolJoined, Pool!Discard, PhaseInv
<1>m4. CASE DeallocTaskData
  BY <1>m4, PhaseQuiet DEF DeallocTaskData
<1>m5. CASE DeallocDone
  BY <1>m5 DEF DeallocDone, PhaseInv
<1>u. CASE UNCHANGED vars
  BY <1>u, PhaseQuiet DEF vars
<1>q. QED
  BY <1>t1, <1>t2, <1>t3, <1>t4, <1>t5, <1>t6, <1>t7, <1>t8, <1>t9, <1>t10, <1>w0, <1>w1, <1>w2,
     <1>c1, <1>m1, <1>m2, <1>m3, <1>m4, <1>m5, <1>u
  DEF Next, AcceptThread, WorkerThread, Main, Stopping

LEMMA PhaseAlways == Spec => [](TypeInv /\ PhaseInv)
<1>1. Init => TypeInv /\ PhaseInv
  BY TypeInit, PhaseInit
<1>2. TypeInv /\ PhaseInv /\ [Next]_vars => TypeInv' /\ PhaseInv'
  BY TypeStep, PhaseStep
<1>3. QED
  BY <1>1, <1>2, PTL DEF Spec

\* tcp_socket_wrapper_thread uses the listening socket only while it is open, however
\* http_server_init fails and whenever http_server_dealloc is called.
THEOREM ListeningCorrect == Spec => []ListensWhileOpen
<1>1. PhaseInv => ListensWhileOpen
  BY DEF PhaseInv, ListensWhileOpen
<1>2. QED
  BY <1>1, PhaseAlways, PTL

-----------------------------------------------------------------------------
(* Connections and descriptors.                                            *)

LEMMA ConnInit == Init => ConnInv
BY ConnectionAssumption DEF Init, TcpInit, Pool!Init, ConnInv, Keeps

\* A step in which no connection is accepted and no call of the callback gets further
\* than writing, shutting down or closing.
LEMMA ConnQuiet ==
    ASSUME TypeInv, ConnInv, \A c \in Conns : Unseen(c)' => Unseen(c) /\ sent'[c] = sent[c],
           \A f \in Fds : fd'[f] = fd[f] \/ fd'[f] = NoOne,
           done \subseteq done', UNCHANGED <<accepted, answer, timeout>>,
           accepting' # "none" => accepting # "none" /\ serving' = serving,
           accepting' = "waiting" <=> accepting = "waiting"
    PROVE  ConnInv'
<1>1. ASSUME NEW c \in Conns, Unseen(c)'
      PROVE  /\ c \notin accepted' /\ sent'[c] = <<>> /\ \A f \in Fds : fd'[f] # c
             /\ accepting' # "none" => serving' # c
  <2>1. Unseen(c) /\ c # NoOne
    BY <1>1, ConnectionAssumption
  <2>2. QED
    BY <1>1, <2>1 DEF ConnInv
<1>2. \A f, g \in Fds : fd'[f] = fd'[g] /\ fd'[f] # NoOne => f = g
  BY DEF ConnInv
<1>3. Keeps' => Keeps /\ serving' = serving
  BY DEF Keeps
<1>4. Keeps' /\ serving' \in accepted' => answer'[serving'] = "timeout"
  BY <1>3 DEF ConnInv
<1>5. timeout' = "infinite" =>
          \A c \in accepted' : c \in done' \/ (accepting' = "waiting" /\ serving' = c)
  BY DEF ConnInv
<1>6. QED
  BY <1>1, <1>2, <1>4, <1>5 DEF ConnInv

\* A response is written to a connection that has been accepted.
LEMMA ConnWrite ==
    ASSUME TypeInv, ConnInv, NEW d \in Datas, data[d].socket \in Fds, WriteResponse(d)
    PROVE  \A c \in Conns : Unseen(c) => sent'[c] = sent[c]
<1>1. ASSUME NEW c \in Conns, Unseen(c) PROVE sent'[c] = sent[c]
  <2>1. fd[data[d].socket] # c
    BY <1>1 DEF ConnInv
  <2>2. sent \in [Conns -> Seq(Response)]
    BY DEF TypeInv, UsersTyped
  <2>3. QED
    BY <2>1, <2>2 DEF WriteResponse
<1>2. QED
  BY <1>1

LEMMA ConnStep == TypeInv /\ TypeInv' /\ PhaseInv /\ ConnInv /\ [Next]_vars => ConnInv'
<1> SUFFICES ASSUME TypeInv, TypeInv', PhaseInv, ConnInv, [Next]_vars PROVE ConnInv'
  OBVIOUS
<1> USE DEF others, tcpVars, poolVars, dataVars, kernelVars, environment, acceptVars, threadVars,
            AtWorker, AtAccepting, AtOwner
<1>1. /\ backlog \subseteq arrived /\ arrived \subseteq Conns
      /\ fd \in [Fds -> Conns \union {NoOne}]
  BY DEF TypeInv, TypeOK, TcpTypeOK
<1>2. UNCHANGED <<arrived, backlog>> => \A c \in Conns : Unseen(c)' => Unseen(c)
  BY DEF Unseen
<1>t1. CASE Listening
  <2>1. arrived' = arrived /\ backlog' \subseteq backlog /\ UNCHANGED <<fd, others>>
    BY <1>t1 DEF Listening, ThreadLoop, SelectTimesOut, SelectReady, AcceptFails
  <2>2. \A c \in Conns : Unseen(c)' => Unseen(c)
    BY <2>1 DEF Unseen
  <2>3. QED
    BY <2>1, <2>2, ConnQuiet
<1>t2. ASSUME NEW c \in Conns, NEW f \in Fds, NEW d \in Datas, AcceptConnection(c, f, d)
       PROVE  ConnInv'
  <2>1. /\ accepting = "none" /\ accepting' = "enqueue" /\ serving' = c
        /\ c \in backlog /\ backlog' = backlog \ {c} /\ arrived' = arrived
        /\ fd[f] = NoOne /\ fd' = [fd EXCEPT ![f] = c]
        /\ UNCHANGED <<poolVars, environment, sent>>
    BY <1>t2 DEF AcceptConnection, Accept
  <2>2. Unseen(c) /\ \A b \in Conns : Unseen(b)' => Unseen(b) /\ b # c
    BY <1>1, <2>1 DEF Unseen
  <2>3. c \notin accepted /\ \A g \in Fds : fd[g] # c
    BY <2>2 DEF ConnInv
  <2>4. \A g \in Fds : fd'[g] = IF g = f THEN c ELSE fd[g]
    BY <1>1, <2>1
  <2>5. ASSUME NEW b \in Conns, Unseen(b)'
        PROVE  b \notin accepted' /\ sent'[b] = <<>> /\ (\A g \in Fds : fd'[g] # b) /\ serving' # b
    BY <2>1, <2>2, <2>4, <2>5 DEF ConnInv
  <2>6. \A g, h \in Fds : fd'[g] = fd'[h] /\ fd'[g] # NoOne => g = h
    BY <2>3, <2>4 DEF ConnInv
  <2>7. timeout' = "infinite" => \A b \in accepted' : b \in done'
    BY <2>1 DEF ConnInv
  <2>8. QED
    BY <2>1, <2>3, <2>5, <2>6, <2>7 DEF ConnInv
<1>t3. CASE Enqueue
  <2>1. /\ accepting = "enqueue" /\ accepting' = "waiting" /\ accepted' = accepted \union {serving}
        /\ UNCHANGED <<tcpVars, environment, serving, sent, done>>
    BY <1>t3 DEF Enqueue, Pool!Accept
  <2>2. \A b \in Conns : Unseen(b)' => Unseen(b) /\ b # serving
    BY <1>2, <2>1 DEF ConnInv
  <2>3. QED
    BY <2>1, <2>2 DEF ConnInv, Keeps
<1>t4. CASE EnqueueRefused
  <2>1. /\ accepting = "enqueue" /\ accepting' = "respond" /\ serving \notin accepted
        /\ UNCHANGED <<tcpVars, environment, serving, sent, accepted, done>>
    BY <1>t4 DEF EnqueueRefused, Pool!Refuse
  <2>2. \A b \in Conns : Unseen(b)' => Unseen(b)
    BY <1>2, <2>1
  <2>3. QED
    BY <2>1, <2>2 DEF ConnInv, Keeps
<1>t5. ASSUME NEW a \in {"success", "detached", "timeout"}, EnqueueReturns(a) PROVE ConnInv'
  <2>1. /\ accepting = "waiting" /\ serving \in accepted /\ a \in Endings
        /\ answer' = [answer EXCEPT ![serving] = a]
        /\ a = "success" => serving \in done
        /\ UNCHANGED <<arrived, backlog, fd, environment, serving, sent, accepted, done>>
    BY <1>t5 DEF EnqueueReturns, Pool!Answer, CallbackReturns
  <2>2. accepting' = "none" \/ (accepting' = "respond" /\ a = "timeout")
    BY <1>t5 DEF EnqueueReturns, ErrorOf, SUCCESS
  <2>3. \A b \in Conns : Unseen(b)' => Unseen(b)
    BY <1>2, <2>1
  <2>4. accepting' = "respond" => answer'[serving'] = "timeout"
    <3>1. answer \in [Conns -> Pool!Answers] /\ serving \in Conns /\ serving' = serving
      BY <2>1 DEF TypeInv, QueueInv
    <3>2. answer'[serving] = a
      BY <2>1, <3>1
    <3>3. QED
      BY <2>2, <3>1, <3>2
  <2>5. timeout = "infinite" => serving \in done
    <3>1. timeout = "infinite" => Endings = {"success"}
      BY DEF Endings
    <3>2. QED
      BY <2>1, <3>1
  <2>6. timeout' = "infinite" => \A b \in accepted' : b \in done'
    BY <2>1, <2>5 DEF ConnInv
  <2>7. ASSUME NEW b \in Conns, Unseen(b)'
        PROVE  /\ b \notin accepted' /\ sent'[b] = <<>> /\ \A g \in Fds : fd'[g] # b
               /\ accepting' # "none" => serving' # b
    BY <2>1, <2>3, <2>7 DEF ConnInv
  <2>8. QED
    BY <2>1, <2>2, <2>4, <2>6, <2>7 DEF ConnInv, Keeps
<1>t6. CASE RespondError
  BY <1>2, <1>t6, ConnQuiet DEF RespondError
<1>t7. CASE ErrorWrites
  <2>1. \A c \in Conns : Unseen(c) => sent'[c] = sent[c]
    BY <1>t7, ConnWrite DEF ErrorWrites, TypeInv, UsersTyped
  <2>2. QED
    BY <1>2, <1>t7, <2>1, ConnQuiet DEF ErrorWrites
<1>t8. CASE ErrorShutsDown
  BY <1>2, <1>t8, ConnQuiet DEF ErrorShutsDown, ShutDown
<1>t9. CASE ErrorCloses
  <2>1. \A f \in Fds : fd'[f] = fd[f] \/ fd'[f] = NoOne
    BY <1>1, <1>t9 DEF ErrorCloses, CloseDescriptor
  <2>2. QED
    BY <1>2, <1>t9, <2>1, ConnQuiet DEF ErrorCloses
<1>t10. CASE ErrorPushes
  BY <1>2, <1>t10, ConnQuiet DEF ErrorPushes, CallbackReturns
<1>w0. CASE StartTask
  BY <1>2, <1>w0, ConnQuiet DEF StartTask, Pool!Start
<1>w1. ASSUME NEW c \in Conns, Parse(c) \/ Handle(c) \/ WorkerShutsDown(c) PROVE ConnInv'
  BY <1>2, <1>w1, ConnQuiet DEF Parse, Handle, WorkerShutsDown, ShutDown
<1>w2. ASSUME NEW c \in Conns, WorkerWrites(c) PROVE ConnInv'
  <2>1. jobData[c] \in Datas /\ data[jobData[c]].socket \in Fds
    BY <1>w2 DEF WorkerWrites, TypeInv, UsersTyped, QueueInv
  <2>2. \A b \in Conns : Unseen(b) => sent'[b] = sent[b]
    BY <1>w2, <2>1, ConnWrite DEF WorkerWrites
  <2>3. QED
    BY <1>2, <1>w2, <2>2, ConnQuiet DEF WorkerWrites
<1>w3. ASSUME NEW c \in Conns, WorkerCloses(c) PROVE ConnInv'
  <2>1. \A f \in Fds : fd'[f] = fd[f] \/ fd'[f] = NoOne
    BY <1>1, <1>w3 DEF WorkerCloses, CloseDescriptor
  <2>2. QED
    BY <1>2, <1>w3, <2>1, ConnQuiet DEF WorkerCloses
<1>w4. ASSUME NEW c \in Conns, WorkerPushes(c) PROVE ConnInv'
  BY <1>2, <1>w4, ConnQuiet DEF WorkerPushes, Pool!Finish
<1>c1. ASSUME NEW c \in Conns, Connect(c) PROVE ConnInv'
  <2>1. /\ c \notin arrived /\ arrived' = arrived \union {c}
        /\ UNCHANGED <<fd, poolVars, environment, acceptVars, sent>>
    BY <1>c1 DEF Connect, ClientConnects
  <2>2. \A b \in Conns : Unseen(b)' => Unseen(b)
    BY <1>c1 DEF Connect, ClientConnects, Unseen
  <2>3. QED
    BY <2>1, <2>2, ConnQuiet
<1>c2. ASSUME NEW c \in Conns, HangUp(c) PROVE ConnInv'
  BY <1>2, <1>c2, ConnQuiet DEF HangUp
<1>m1. CASE InitSocket \/ InitSocketFails \/ InitPool \/ InitPoolFails \/ InitFailed
            \/ Dealloc \/ DeallocSocket \/ DeallocDone
  <2>1. arrived' = arrived /\ backlog' \subseteq backlog /\ UNCHANGED <<fd, others>>
    BY <1>m1 DEF InitSocket, InitSocketFails, InitPool, InitPoolFails, InitFailed, Dealloc,
                 DeallocSocket, DeallocDone, TcpStart, TcpStop, TcpJoin
  <2>2. \A c \in Conns : Unseen(c)' => Unseen(c)
    BY <2>1 DEF Unseen
  <2>3. QED
    BY <2>1, <2>2, ConnQuiet
<1>m2. CASE DeallocPool \/ DeallocPoolJoined
  BY <1>2, <1>m2, ConnQuiet DEF DeallocPool, DeallocPoolJoined, Pool!Close, Pool!Discard
<1>m3. CASE DeallocTaskData
  BY <1>2, <1>m3, ConnQuiet DEF DeallocTaskData
<1>u. CASE UNCHANGED vars
  BY <1>2, <1>u, ConnQuiet DEF vars
<1>q. QED
  BY <1>t1, <1>t2, <1>t3, <1>t4, <1>t5, <1>t6, <1>t7, <1>t8, <1>t9, <1>t10, <1>w0, <1>w1, <1>w2,
     <1>w3, <1>w4, <1>c1, <1>c2, <1>m1, <1>m2, <1>m3, <1>u
  DEF Next, AcceptThread, WorkerThread, Main, Stopping

LEMMA ConnAlways == Spec => [](TypeInv /\ PhaseInv /\ ConnInv)
<1>1. Init => TypeInv /\ PhaseInv /\ ConnInv
  BY TypeInit, PhaseInit, ConnInit
<1>2. TypeInv /\ PhaseInv /\ ConnInv /\ [Next]_vars => TypeInv' /\ PhaseInv' /\ ConnInv'
  BY TypeStep, PhaseStep, ConnStep
<1>3. QED
  BY <1>1, <1>2, PTL DEF Spec

-----------------------------------------------------------------------------
(* The task_data until a call times out.                                   *)

\* What a call has returned stays: it is answered once.
LEMMA AnswersStay ==
    ASSUME TypeInv, [Next]_vars
    PROVE  NoTimeouts' => NoTimeouts
<1> USE DEF others, tcpVars, poolVars, dataVars, kernelVars, environment, acceptVars, threadVars,
            AtWorker, AtAccepting, AtOwner
<1>1. UNCHANGED answer => (NoTimeouts' => NoTimeouts)
  BY DEF NoTimeouts
<1>2. ASSUME NEW j, NEW a, answer[j] = "none", answer' = [answer EXCEPT ![j] = a], NoTimeouts'
      PROVE  NoTimeouts
  <2>1. \A c \in Conns : c # j => answer'[c] = answer[c]
    BY <1>2 DEF TypeInv, QueueInv
  <2>2. QED
    BY <1>2, <2>1 DEF NoTimeouts
<1>t4. CASE EnqueueRefused
  <2>1. PICK j \in Conns, a \in {"full", "error"} : j = serving /\ Pool!Refuse(j, a)
    BY <1>t4 DEF EnqueueRefused, TypeInv, UsersTyped
  <2>2. QED
    BY <1>2, <2>1 DEF Pool!Refuse
<1>t5. ASSUME NEW a, EnqueueReturns(a) PROVE NoTimeouts' => NoTimeouts
  <2>1. PICK j : j = serving
    OBVIOUS
  <2>2. answer[j] = "none" /\ answer' = [answer EXCEPT ![j] = a]
    BY <1>t5, <2>1 DEF EnqueueReturns, Pool!Answer
  <2>3. QED
    BY <1>2, <2>2
<1>r1. CASE Listening \/ Enqueue \/ RespondError \/ ErrorWrites \/ ErrorShutsDown \/ ErrorCloses
            \/ ErrorPushes \/ StartTask
  BY <1>1, <1>r1
  DEF Listening, Enqueue, RespondError, ErrorWrites, ErrorShutsDown, ErrorCloses, ErrorPushes,
      StartTask, Pool!Accept, Pool!Start
<1>r2. ASSUME NEW c \in Conns, NEW f \in Fds, NEW d \in Datas, AcceptConnection(c, f, d)
       PROVE  UNCHANGED answer
  BY <1>r2 DEF AcceptConnection
<1>r3. ASSUME NEW c \in Conns, WorkerThread(c) \/ Connect(c) \/ HangUp(c) PROVE UNCHANGED answer
  BY <1>r3
  DEF WorkerThread, Parse, Handle, WorkerWrites, WorkerShutsDown, WorkerCloses, WorkerPushes,
      Pool!Finish, Connect, HangUp
<1>r4. CASE Main
  BY <1>1, <1>r4
  DEF Main, Stopping, InitSocket, InitSocketFails, InitPool, InitPoolFails, InitFailed, Dealloc,
      DeallocSocket, DeallocPool, DeallocPoolJoined, DeallocTaskData, DeallocDone, Pool!Close,
      Pool!Discard
<1>u. CASE UNCHANGED vars
  BY <1>1, <1>u DEF vars
<1>q. QED
  BY <1>1, <1>t4, <1>t5, <1>r1, <1>r2, <1>r3, <1>r4, <1>u DEF Next, AcceptThread

\* What the invariants say of those who use a task_data.
LEMMA Users ==
    ASSUME TypeInv, ConnInv, NoTimeouts
    PROVE  /\ Keeps => /\ serving \in Conns \ accepted /\ taskData \in Datas
                       /\ data[taskData].socket \in Fds
           /\ \A c \in Unfinished : /\ c \in Conns /\ jobData[c] \in Datas
                                    /\ data[jobData[c]].socket \in Fds
           /\ \A c \in Conns : worker[c] # "none" => c \in Unfinished
           /\ done \subseteq accepted /\ accepted \subseteq Conns
<1>1. Keeps => serving \notin accepted /\ accepting # "none"
  BY DEF ConnInv, NoTimeouts, TypeInv, QueueInv, UsersTyped, Keeps
<1>2. done \subseteq accepted /\ accepted \subseteq Conns /\ executing \subseteq accepted \ done
  BY DEF TypeInv, QueueInv
<1>3. QED
  BY <1>1, <1>2 DEF TypeInv, UsersTyped, Unfinished

\* What the invariants of the task_data are about.
taskVars == <<fd, data, next, taskPool, heap, jobData, worker, accepted, done, acceptVars, sent>>

\* A step of a thread that uses no task_data.
LEMMA Bystanders ==
    ASSUME \/ Listening \/ UNCHANGED vars
           \/ \E c \in Conns : Connect(c) \/ HangUp(c)
           \/ InitSocket \/ InitSocketFails \/ InitPool \/ InitPoolFails \/ InitFailed \/ Dealloc
           \/ DeallocSocket \/ DeallocPool \/ DeallocPoolJoined \/ DeallocDone
    PROVE  UNCHANGED taskVars
<1> USE DEF others, tcpVars, poolVars, dataVars, kernelVars, environment, acceptVars, threadVars,
            AtOwner, taskVars, TcpStart, TcpStop, TcpJoin
<1>1. CASE Listening
  BY <1>1 DEF Listening, ThreadLoop, SelectTimesOut, SelectReady, AcceptFails
<1>2. CASE UNCHANGED vars
  BY <1>2 DEF vars
<1>3. ASSUME NEW c \in Conns, Connect(c) \/ HangUp(c) PROVE UNCHANGED taskVars
  BY <1>3 DEF Connect, ClientConnects, HangUp
<1>4. CASE InitSocket \/ InitSocketFails \/ InitPool \/ InitPoolFails \/ InitFailed
  BY <1>4 DEF InitSocket, InitSocketFails, InitPool, InitPoolFails, InitFailed
<1>5. CASE Dealloc \/ DeallocSocket \/ DeallocPool \/ DeallocPoolJoined \/ DeallocDone
  BY <1>5 DEF Dealloc, DeallocSocket, DeallocPool, DeallocPoolJoined, DeallocDone, Pool!Close,
              Pool!Discard
<1>6. QED
  BY <1>1, <1>2, <1>3, <1>4, <1>5

LEMMA OwnersKept ==
    ASSUME NEW s, Owners(s), Keeps' => Keeps, Keeps => Keeps',
           UNCHANGED <<next, taskPool, heap, jobData, taskData, accepted, done>>
    PROVE  Owners(s)'
<1>1. Linked(s)' /\ Unfinished' = Unfinished
  BY LinkedKept DEF Owners, Unfinished
<1>2. QED
  BY <1>1 DEF Owners

LEMMA OwnerStep ==
    ASSUME TypeInv, PhaseInv, ConnInv, NoTimeouts, NoTimeouts', OwnerInv, [Next]_vars
    PROVE  OwnerInv'
<1> USE DEF others, tcpVars, poolVars, dataVars, kernelVars, environment, acceptVars, threadVars,
            AtWorker, AtAccepting, AtOwner
<1>s. PICK s : Owners(s)
  BY DEF OwnerInv
<1>1. /\ Keeps => /\ serving \in Conns \ accepted /\ taskData \in Datas
      /\ \A c \in Unfinished : c \in Conns /\ jobData[c] \in Datas
      /\ \A c \in Conns : worker[c] # "none" => c \in Unfinished
      /\ done \subseteq accepted /\ accepted \subseteq Conns
  BY Users
<1>2. next \in [Datas -> Datas \union {NoOne}] /\ jobData \in [Conns -> Datas \union {NoOne}]
  BY DEF TypeInv, TypeOK
<1>3. /\ Linked(s)
      /\ \A c \in Unfinished : jobData[c] \notin Elements(s)
      /\ \A b, c \in Unfinished : jobData[b] = jobData[c] => b = c
      /\ Keeps => taskData \notin Elements(s) /\ \A c \in Unfinished : jobData[c] # taskData
      /\ heap = Elements(s) \union {jobData[c] : c \in Unfinished}
                \union (IF Keeps THEN {taskData} ELSE {})
  BY <1>s DEF Owners
<1>o. ASSUME NEW r, Owners(r)' PROVE OwnerInv'
  BY <1>o DEF OwnerInv
<1>k. ASSUME UNCHANGED <<next, taskPool, heap, jobData, taskData, accepted, done>>,
             Keeps' <=> Keeps
      PROVE  OwnerInv'
  BY <1>s, <1>o, <1>k, OwnersKept
<1>b. CASE UNCHANGED taskVars
  BY <1>k, <1>b DEF taskVars, Keeps
<1>t2. ASSUME NEW c \in Conns, NEW f \in Fds, NEW d \in Datas, AcceptConnection(c, f, d)
       PROVE  OwnerInv'
  <2>1. /\ ~Keeps /\ Keeps' /\ taskData' = d
        /\ UNCHANGED <<next, jobData, accepted, done>> /\ Unfinished' = Unfinished
    BY <1>t2 DEF AcceptConnection, Keeps, Unfinished
  <2>2. CASE taskPool # NoOne /\ d = taskPool /\ taskPool' = next[d] /\ UNCHANGED heap
    <3>1. PICK t : t = Tail(s)
      OBVIOUS
    <3>2. /\ Linked(t)' /\ d \notin Elements(t) /\ Elements(s) = Elements(t) \union {d}
      BY <1>3, <2>1, <2>2, <3>1, LinkedPop
    <3>3. Owners(t)'
      BY <1>3, <2>1, <2>2, <3>2 DEF Owners
    <3>4. QED
      BY <1>o, <3>3
  <2>3. CASE taskPool = NoOne /\ d \notin heap /\ heap' = heap \union {d} /\ UNCHANGED taskPool
    <3>1. Linked(s)'
      BY <1>3, <2>1, <2>3, LinkedKept
    <3>2. Owners(s)'
      BY <1>3, <2>1, <2>3, <3>1 DEF Owners
    <3>3. QED
      BY <1>o, <3>2
  <2>4. QED
    BY <1>t2, <2>2, <2>3 DEF AcceptConnection, TakeTaskData
<1>t3. CASE Enqueue
  <2>1. /\ Keeps /\ ~Keeps' /\ accepted' = accepted \union {serving}
        /\ jobData' = [jobData EXCEPT ![serving] = taskData]
        /\ UNCHANGED <<next, taskPool, heap, taskData, done>>
    BY <1>t3 DEF Enqueue, Pool!Accept, Keeps
  <2>2. Unfinished' = Unfinished \union {serving} /\ serving \notin Unfinished
    BY <1>1, <2>1 DEF Unfinished
  <2>3. jobData'[serving] = taskData /\ \A c \in Unfinished : jobData'[c] = jobData[c]
    BY <1>1, <1>2, <2>1, <2>2
  <2>4. {jobData'[c] : c \in Unfinished'} = {jobData[c] : c \in Unfinished} \union {taskData}
    BY <2>2, <2>3
  <2>5. Linked(s)'
    BY <1>3, <2>1, LinkedKept
  <2>6. /\ \A c \in Unfinished' : jobData'[c] \notin Elements(s)
        /\ \A b, c \in Unfinished' : jobData'[b] = jobData'[c] => b = c
    BY <1>3, <2>1, <2>2, <2>3
  <2>7. Owners(s)'
    BY <1>3, <2>1, <2>4, <2>5, <2>6 DEF Owners
  <2>8. QED
    BY <1>o, <2>7
<1>t4. CASE EnqueueRefused
  BY <1>k, <1>t4 DEF EnqueueRefused, Pool!Refuse, Keeps
<1>t5. ASSUME NEW a \in {"success", "detached", "timeout"}, EnqueueReturns(a) PROVE OwnerInv'
  <2>1. /\ accepting = "waiting" /\ serving \in Conns
        /\ answer' = [answer EXCEPT ![serving] = a]
        /\ UNCHANGED <<next, taskPool, heap, jobData, taskData, accepted, done>>
    BY <1>t5 DEF EnqueueReturns, Pool!Answer, TypeInv, UsersTyped
  <2>2. a # "timeout"
    BY <2>1 DEF NoTimeouts, TypeInv, QueueInv
  <2>3. accepting' = "none"
    BY <1>t5, <2>2 DEF EnqueueReturns, ErrorOf, SUCCESS
  <2>4. QED
    BY <1>k, <2>1, <2>3 DEF Keeps
<1>t6. CASE RespondError \/ ErrorWrites \/ ErrorShutsDown \/ ErrorCloses
  BY <1>k, <1>t6 DEF RespondError, ErrorWrites, ErrorShutsDown, ErrorCloses, Keeps
<1>t7. CASE ErrorPushes
  <2>1. /\ Keeps /\ ~Keeps' /\ next' = [next EXCEPT ![taskData] = taskPool]
        /\ taskPool' = taskData /\ UNCHANGED <<heap, jobData, accepted, done>>
        /\ Unfinished' = Unfinished
    BY <1>t7 DEF ErrorPushes, PushTaskData, Keeps, Unfinished
  <2>2. PICK d \in Datas : d = taskData
    BY <1>1, <2>1
  <2>3. PICK r : r = <<d>> \o s
    OBVIOUS
  <2>4. Linked(r)' /\ Elements(r) = Elements(s) \union {d}
    BY <1>2, <1>3, <2>1, <2>2, <2>3, LinkedPush
  <2>5. Owners(r)'
    BY <1>3, <2>1, <2>2, <2>4 DEF Owners
  <2>6. QED
    BY <1>o, <2>5
<1>w0. CASE StartTask
  BY <1>k, <1>w0 DEF StartTask, Pool!Start, Keeps
<1>w1. ASSUME NEW c \in Conns,
              Parse(c) \/ Handle(c) \/ WorkerWrites(c) \/ WorkerShutsDown(c) \/ WorkerCloses(c)
       PROVE  OwnerInv'
  BY <1>k, <1>w1 DEF Parse, Handle, WorkerWrites, WorkerShutsDown, WorkerCloses, Keeps
<1>w2. ASSUME NEW c \in Conns, WorkerPushes(c) PROVE OwnerInv'
  <2>1. /\ next' = [next EXCEPT ![jobData[c]] = taskPool] /\ taskPool' = jobData[c]
        /\ done' = done \union {c} /\ Keeps' = Keeps /\ worker[c] = "push"
        /\ UNCHANGED <<heap, jobData, accepted, taskData>>
    BY <1>w2 DEF WorkerPushes, PushTaskData, Pool!Finish, Keeps
  <2>2. c \in Unfinished /\ Unfinished' = Unfinished \ {c}
    BY <1>1, <2>1 DEF Unfinished
  <2>3. PICK d \in Datas : d = jobData[c]
    BY <1>1, <2>2
  <2>4. PICK r : r = <<d>> \o s
    OBVIOUS
  <2>5. Linked(r)' /\ Elements(r) = Elements(s) \union {d}
    BY <1>2, <1>3, <2>1, <2>2, <2>3, <2>4, LinkedPush
  <2>6. {jobData[b] : b \in Unfinished} = {jobData'[b] : b \in Unfinished'} \union {d}
    BY <2>1, <2>2, <2>3
  <2>7. \A b \in Unfinished' : jobData'[b] # d /\ jobData'[b] \notin Elements(s)
    BY <1>3, <2>1, <2>2, <2>3
  <2>8. Owners(r)'
    BY <1>3, <2>1, <2>2, <2>3, <2>5, <2>6, <2>7 DEF Owners
  <2>9. QED
    BY <1>o, <2>8
<1>m. CASE DeallocTaskData
  <2>1. ~Keeps /\ owner = "free"
    BY <1>m DEF DeallocTaskData, PhaseInv, Keeps
  <2>2. PICK t : t = Tail(s)
    OBVIOUS
  <2>3. /\ taskPool # NoOne
        /\ UNCHANGED <<next, jobData, accepted, done, accepting, taskData>>
    BY <1>m DEF DeallocTaskData
  <2>4. CASE taskPool \in heap /\ heap' = heap \ {taskPool} /\ taskPool' = next[taskPool]
    <3>1. /\ Linked(t)' /\ taskPool \notin Elements(t)
          /\ Elements(s) = Elements(t) \union {taskPool}
      BY <1>3, <2>2, <2>3, <2>4, LinkedPop
    <3>2. Unfinished' = Unfinished /\ ~Keeps'
      BY <2>1, <2>3 DEF Unfinished, Keeps
    <3>3. Owners(t)'
      BY <1>3, <2>1, <2>3, <2>4, <3>1, <3>2 DEF Owners
    <3>4. QED
      BY <1>o, <3>3
  <2>5. CASE UNCHANGED <<heap, taskPool>>
    BY <1>k, <2>3, <2>5 DEF Keeps
  <2>6. QED
    BY <1>m, <2>4, <2>5 DEF DeallocTaskData
<1>q. QED
  BY <1>b, <1>t2, <1>t3, <1>t4, <1>t5, <1>t6, <1>t7, <1>w0, <1>w1, <1>w2, <1>m, Bystanders
  DEF Next, AcceptThread, WorkerThread, Main, Stopping

\* What parsing and handling leave in the task_data.
LEMMA WorkerData ==
    ASSUME TypeInv, NEW c \in Conns, NEW d \in Datas, d = jobData[c], data[d].socket \in Fds,
           Parse(c) \/ Handle(c)
    PROVE  /\ \A e \in Datas : e # d => data'[e] = data[e]
           /\ data'[d].socket = data[d].socket
           /\ worker'[c] = "handle" => data'[d].request = fd[data[d].socket]
           /\ worker'[c] = "write" => \/ data'[d].response.about = c
                                     \/ /\ worker[c] = "handle"
                                        /\ data'[d].response.about = data[d].request
<1>1. /\ data \in [Datas -> Data] /\ worker \in [Conns -> WorkerPCs]
      /\ fd[data[d].socket] \in Conns \union {NoOne} /\ data[d].request \in Conns \union {NoOne}
  BY DEF TypeInv, TypeOK, TcpTypeOK, Data
<1>2. CASE /\ worker' = [worker EXCEPT ![c] = "handle"] /\ fd[data[d].socket] # NoOne
           /\ data' = [data EXCEPT ![d].request = fd[data[d].socket],
                                   ![d].response = [about |-> NoOne, status |-> 200]]
  <2>1. PICK from \in Conns : from = fd[data[d].socket]
    BY <1>1, <1>2
  <2>0. data' = [data EXCEPT ![d].request = from,
                             ![d].response = [about |-> NoOne, status |-> 200]]
    BY <1>2, <2>1
  <2>2. /\ data' \in [Datas -> Data] /\ data'[d].request = from
        /\ data'[d].socket = data[d].socket
        /\ \A e \in Datas : e # d => data'[e] = data[e]
    <3>1. data \in [Datas -> Data]
      BY <1>1
    <3>2. QED
      BY <2>0, <3>1, DataParsed
  <2>3. worker'[c] = "handle"
    BY <1>1, <1>2
  <2>4. QED
    BY <2>1, <2>2, <2>3
<1>3. ASSUME NEW about \in Conns \union {NoOne}, NEW status \in {200, 400, 500},
             Respond(d, about, status), worker' = [worker EXCEPT ![c] = "write"],
             about = c \/ (worker[c] = "handle" /\ about = data[d].request)
      PROVE  /\ \A e \in Datas : e # d => data'[e] = data[e]
             /\ data'[d].socket = data[d].socket
             /\ worker'[c] = "handle" => data'[d].request = fd[data[d].socket]
             /\ worker'[c] = "write" => \/ data'[d].response.about = c
                                       \/ /\ worker[c] = "handle"
                                          /\ data'[d].response.about = data[d].request
  <2>1. /\ data'[d].response.about = about /\ data'[d].socket = data[d].socket
        /\ \A e \in Datas : e # d => data'[e] = data[e]
    BY <1>1, <1>3, DataRespond
  <2>2. worker'[c] = "write"
    BY <1>1, <1>3
  <2>3. QED
    BY <1>3, <2>1, <2>2
<1>4. CASE Handle(c)
  <2>1. PICK status \in {200, 500} : Respond(d, data[d].request, status)
    BY <1>4 DEF Handle
  <2>2. worker[c] = "handle" /\ worker' = [worker EXCEPT ![c] = "write"]
    BY <1>4 DEF Handle, AtWorker
  <2>3. QED
    BY <1>1, <1>3, <2>1, <2>2
<1>5. CASE Respond(d, c, 400) /\ worker' = [worker EXCEPT ![c] = "write"]
  BY <1>3, <1>5
<1>6. QED
  BY <1>2, <1>4, <1>5 DEF Parse, AtWorker

LEMMA DescriptorKept ==
    ASSUME DescriptorInv, \A d \in Datas : data'[d].socket = data[d].socket,
           Keeps' => Keeps /\ accepting # "push" /\ accepting' # "push",
           Keeps => Keeps', UNCHANGED <<fd, jobData, serving, taskData, accepted, done>>,
           \A c \in Conns : worker'[c] = "push" <=> worker[c] = "push",
           fd \in [Fds -> Conns \union {NoOne}], Keeps => taskData \in Datas,
           \A c \in Unfinished : c \in Conns /\ jobData[c] \in Datas
    PROVE  DescriptorInv'
<1>1. Unfinished' = Unfinished
  BY DEF Unfinished
<1>2. \A c \in Unfinished' : worker'[c] # "push" => fd'[data'[jobData'[c]].socket] = c
  BY <1>1 DEF DescriptorInv
<1>3. Keeps' /\ accepting' # "push" => fd'[data'[taskData'].socket] = serving'
  BY DEF DescriptorInv
<1>4. \A f \in Fds : fd'[f] # NoOne => \/ fd'[f] \in Unfinished' /\ worker'[fd'[f]] # "push"
                                       \/ Keeps' /\ accepting' # "push" /\ fd'[f] = serving'
  BY <1>1 DEF DescriptorInv
<1>5. QED
  BY <1>2, <1>3, <1>4 DEF DescriptorInv

LEMMA DescriptorStep ==
    ASSUME TypeInv, TypeInv', PhaseInv, ConnInv, NoTimeouts, NoTimeouts', OwnerInv, DescriptorInv,
           [Next]_vars
    PROVE  DescriptorInv'
<1> USE DEF others, tcpVars, poolVars, dataVars, kernelVars, environment, acceptVars, threadVars,
            AtWorker, AtAccepting, AtOwner
<1>s. PICK s : Owners(s)
  BY DEF OwnerInv
<1>1. /\ Keeps => /\ serving \in Conns \ accepted /\ taskData \in Datas
                  /\ data[taskData].socket \in Fds
      /\ \A c \in Unfinished : c \in Conns /\ jobData[c] \in Datas /\ data[jobData[c]].socket \in Fds
      /\ \A c \in Conns : worker[c] # "none" => c \in Unfinished
      /\ done \subseteq accepted /\ accepted \subseteq Conns
  BY Users
<1>2. /\ fd \in [Fds -> Conns \union {NoOne}] /\ worker \in [Conns -> WorkerPCs]
      /\ data \in [Datas -> Data] /\ jobData \in [Conns -> Datas \union {NoOne}]
      /\ NoOne \notin Conns
  BY ConnectionAssumption DEF TypeInv, TypeOK, TcpTypeOK
<1>3. /\ \A c \in Unfinished : jobData[c] \in heap
      /\ \A b, c \in Unfinished : jobData[b] = jobData[c] => b = c
      /\ Keeps => \A c \in Unfinished : jobData[c] # taskData
      /\ taskPool # NoOne => \A c \in Unfinished : jobData[c] # taskPool
  <2>1. taskPool # NoOne => taskPool \in Elements(s)
    BY <1>s DEF Owners, Linked, Elements
  <2>2. QED
    BY <1>s, <2>1 DEF Owners
<1>4. /\ \A c \in Unfinished : worker[c] # "push" => fd[data[jobData[c]].socket] = c
      /\ Keeps /\ accepting # "push" => fd[data[taskData].socket] = serving
      /\ \A f \in Fds : fd[f] # NoOne => \/ fd[f] \in Unfinished /\ worker[fd[f]] # "push"
                                         \/ Keeps /\ accepting # "push" /\ fd[f] = serving
  BY DEF DescriptorInv
<1>5. \A f, g \in Fds : fd[f] = fd[g] /\ fd[f] # NoOne => f = g
  BY DEF ConnInv
<1>b. CASE UNCHANGED taskVars
  BY <1>4, <1>b DEF taskVars, DescriptorInv, Keeps, Unfinished
<1>t2. ASSUME NEW c \in Conns, NEW f \in Fds, NEW d \in Datas, AcceptConnection(c, f, d)
       PROVE  DescriptorInv'
  <2>1. /\ ~Keeps /\ Keeps' /\ accepting' = "enqueue" /\ taskData' = d /\ serving' = c
        /\ fd[f] = NoOne /\ fd' = [fd EXCEPT ![f] = c]
        /\ UNCHANGED <<jobData, accepted, done, worker>> /\ Unfinished' = Unfinished
    BY <1>t2 DEF AcceptConnection, Accept, Keeps, Unfinished
  <2>2. data'[d].socket = f /\ \A e \in Datas : e # d => data'[e] = data[e]
    BY <1>2, <1>t2, DataSocket DEF AcceptConnection
  <2>3. \A b \in Unfinished : jobData[b] # d
    BY <1>3, <1>t2 DEF AcceptConnection, TakeTaskData
  <2>4. fd'[f] = c /\ \A g \in Fds : g # f => fd'[g] = fd[g]
    BY <1>2, <2>1
  <2>5. ASSUME NEW b \in Unfinished, worker[b] # "push"
        PROVE  fd'[data'[jobData[b]].socket] = b
    <3>1. data'[jobData[b]] = data[jobData[b]] /\ fd[data[jobData[b]].socket] = b /\ b # NoOne
      BY <1>1, <1>2, <1>4, <2>2, <2>3, <2>5
    <3>2. data[jobData[b]].socket # f /\ data[jobData[b]].socket \in Fds
      BY <1>1, <2>1, <3>1
    <3>3. QED
      BY <2>4, <3>1, <3>2
  <2>6. \A g \in Fds : fd'[g] # NoOne => \/ fd'[g] \in Unfinished /\ worker[fd'[g]] # "push"
                                         \/ fd'[g] = c
    BY <1>4, <2>1, <2>4
  <2>7. QED
    BY <2>1, <2>2, <2>4, <2>5, <2>6 DEF DescriptorInv
<1>t3. CASE Enqueue
  <2>1. /\ Keeps /\ accepting = "enqueue" /\ ~Keeps' /\ accepted' = accepted \union {serving}
        /\ jobData' = [jobData EXCEPT ![serving] = taskData]
        /\ UNCHANGED <<fd, data, serving, taskData, done, worker>>
    BY <1>t3 DEF Enqueue, Pool!Accept, Keeps
  <2>2. Unfinished' = Unfinished \union {serving} /\ serving \notin Unfinished
    BY <1>1, <2>1 DEF Unfinished
  <2>3. worker[serving] = "none"
    BY <1>1, <2>1, <2>2
  <2>4. jobData'[serving] = taskData /\ \A c \in Unfinished : jobData'[c] = jobData[c]
    BY <1>1, <1>2, <2>1, <2>2
  <2>5. \A c \in Unfinished' : worker'[c] # "push" => fd'[data'[jobData'[c]].socket] = c
    BY <1>4, <2>1, <2>2, <2>4
  <2>6. \A g \in Fds : fd'[g] # NoOne => fd'[g] \in Unfinished' /\ worker'[fd'[g]] # "push"
    BY <1>4, <2>1, <2>2, <2>3
  <2>7. QED
    BY <2>1, <2>5, <2>6 DEF DescriptorInv
<1>k. ASSUME \A d \in Datas : data'[d].socket = data[d].socket,
             Keeps' => Keeps /\ accepting # "push" /\ accepting' # "push",
             Keeps => Keeps', UNCHANGED <<fd, jobData, serving, taskData, accepted, done>>,
             \A c \in Conns : worker'[c] = "push" <=> worker[c] = "push"
      PROVE  DescriptorInv'
  BY <1>1, <1>2, <1>k, DescriptorKept
<1>t4. CASE EnqueueRefused
  BY <1>k, <1>t4 DEF EnqueueRefused, Pool!Refuse, Keeps
<1>t5. ASSUME NEW a \in {"success", "detached", "timeout"}, EnqueueReturns(a)
       PROVE  DescriptorInv'
  <2>1. /\ accepting = "waiting" /\ serving \in Conns
        /\ answer' = [answer EXCEPT ![serving] = a]
        /\ UNCHANGED <<fd, data, jobData, serving, taskData, accepted, done, worker>>
    BY <1>t5 DEF EnqueueReturns, Pool!Answer, CallbackReturns, TypeInv, UsersTyped
  <2>2. a # "timeout"
    BY <2>1 DEF NoTimeouts, TypeInv, QueueInv
  <2>3. accepting' = "none"
    BY <1>t5, <2>2 DEF EnqueueReturns, ErrorOf, SUCCESS
  <2>4. QED
    BY <1>k, <2>1, <2>3 DEF Keeps
<1>t6. CASE RespondError
  <2>1. PICK status \in {503, 500} : Respond(taskData, serving, status)
    BY <1>t6 DEF RespondError, StatusOf
  <2>2. Keeps /\ accepting = "respond" /\ accepting' = "write" /\ Keeps'
        /\ UNCHANGED <<fd, jobData, serving, taskData, accepted, done, worker>>
    BY <1>t6 DEF RespondError, Keeps
  <2>3. \A d \in Datas : data'[d].socket = data[d].socket
    BY <1>1, <1>2, <2>1, <2>2, DataRespond
  <2>4. QED
    BY <1>k, <2>2, <2>3
<1>t7. CASE ErrorWrites \/ ErrorShutsDown
  BY <1>k, <1>t7 DEF ErrorWrites, ErrorShutsDown, Keeps
<1>t8. CASE ErrorCloses
  <2>1. /\ Keeps /\ accepting = "close" /\ accepting' = "push"
        /\ fd' = [fd EXCEPT ![data[taskData].socket] = NoOne]
        /\ UNCHANGED <<data, jobData, serving, taskData, accepted, done, worker>>
        /\ Unfinished' = Unfinished
    BY <1>t8 DEF ErrorCloses, CloseDescriptor, Keeps, Unfinished
  <2>2. PICK f \in Fds : f = data[taskData].socket
    BY <1>1, <2>1
  <2>3. fd[f] = serving /\ serving \notin Unfinished /\ serving \in Conns
    BY <1>1, <1>4, <2>1, <2>2 DEF Unfinished
  <2>4. fd'[f] = NoOne /\ \A g \in Fds : g # f => fd'[g] = fd[g]
    BY <1>2, <2>1, <2>2
  <2>5. \A c \in Unfinished : worker[c] # "push" => fd'[data[jobData[c]].socket] = c
    BY <1>1, <1>4, <2>3, <2>4
  <2>6. \A g \in Fds : fd'[g] # NoOne => fd'[g] \in Unfinished /\ worker[fd'[g]] # "push"
    BY <1>2, <1>4, <1>5, <2>3, <2>4
  <2>7. QED
    BY <2>1, <2>5, <2>6 DEF DescriptorInv
<1>t9. CASE ErrorPushes
  <2>1. /\ accepting = "push" /\ ~Keeps' /\ Unfinished' = Unfinished
        /\ UNCHANGED <<fd, data, jobData, worker>>
    BY <1>t9 DEF ErrorPushes, PushTaskData, Keeps, Unfinished
  <2>2. QED
    BY <1>4, <2>1 DEF DescriptorInv
<1>p. ASSUME NEW c \in Conns, NEW from, NEW to, from # "push", to # "push", AtWorker(c, from, to)
      PROVE  \A b \in Conns : worker'[b] = "push" <=> worker[b] = "push"
  BY <1>2, <1>p
<1>w. ASSUME UNCHANGED <<accepting, serving, taskData, fd, jobData, accepted, done>>,
             \A d \in Datas : data'[d].socket = data[d].socket,
             \A b \in Conns : worker'[b] = "push" <=> worker[b] = "push"
      PROVE  DescriptorInv'
  <2>1. Unfinished' = Unfinished /\ Keeps' = Keeps
    BY <1>w DEF Unfinished, Keeps
  <2>2. \A c \in Unfinished : data'[jobData[c]].socket = data[jobData[c]].socket
    BY <1>1, <1>w
  <2>3. Keeps => data'[taskData].socket = data[taskData].socket
    BY <1>1, <1>w
  <2>4. \A g \in Fds : fd[g] # NoOne /\ fd[g] \in Unfinished /\ worker[fd[g]] # "push" =>
            worker'[fd[g]] # "push"
    BY <1>1, <1>w
  <2>5. \A c \in Unfinished : worker'[c] # "push" => fd'[data'[jobData'[c]].socket] = c
    BY <1>1, <1>4, <1>w, <2>2
  <2>6. Keeps' /\ accepting' # "push" => fd'[data'[taskData'].socket] = serving'
    BY <1>4, <1>w, <2>1, <2>3
  <2>7. \A g \in Fds : fd'[g] # NoOne => \/ fd'[g] \in Unfinished' /\ worker'[fd'[g]] # "push"
                                         \/ Keeps' /\ accepting' # "push" /\ fd'[g] = serving'
    BY <1>4, <1>w, <2>1, <2>4
  <2>8. QED
    BY <2>1, <2>5, <2>6, <2>7 DEF DescriptorInv
<1>w0. CASE StartTask
  <2>1. PICK c \in Conns : c = Head(queue) /\ c \in Elements(queue)
    BY <1>w0, QueueStart DEF StartTask, TypeInv
  <2>2. worker[c] = "none"
    BY <1>1, <2>1 DEF TypeInv, QueueInv, UsersTyped
  <2>3. /\ worker' = [worker EXCEPT ![c] = "parse"]
        /\ UNCHANGED <<accepting, serving, taskData, fd, data, jobData, accepted, done>>
    BY <1>w0, <2>1 DEF StartTask, Pool!Start
  <2>4. \A b \in Conns : worker'[b] = "push" <=> worker[b] = "push"
    BY <1>2, <2>2, <2>3
  <2>5. QED
    BY <1>w, <2>3, <2>4
<1>w1. ASSUME NEW c \in Conns, Parse(c) \/ Handle(c) PROVE DescriptorInv'
  <2>1. /\ \A b \in Conns : worker'[b] = "push" <=> worker[b] = "push"
        /\ worker[c] # "none"
        /\ UNCHANGED <<accepting, serving, taskData, fd, jobData, accepted, done>>
    BY <1>2, <1>w1 DEF Parse, Handle
  <2>2. PICK d \in Datas : d = jobData[c]
    BY <1>1, <2>1
  <2>3. \A e \in Datas : data'[e].socket = data[e].socket
    <3>1. data[d].socket \in Fds
      BY <1>1, <2>1, <2>2
    <3>2. (\A e \in Datas : e # d => data'[e] = data[e]) /\ data'[d].socket = data[d].socket
      BY <1>w1, <2>2, <3>1, WorkerData
    <3>3. QED
      BY <3>2
  <2>4. QED
    BY <1>w, <2>1, <2>3
<1>w2. ASSUME NEW c \in Conns, WorkerWrites(c) \/ WorkerShutsDown(c) PROVE DescriptorInv'
  BY <1>2, <1>w, <1>w2 DEF WorkerWrites, WorkerShutsDown
<1>w3. ASSUME NEW c \in Conns, WorkerCloses(c) PROVE DescriptorInv'
  <2>1. /\ worker[c] = "close" /\ worker' = [worker EXCEPT ![c] = "push"]
        /\ fd' = [fd EXCEPT ![data[jobData[c]].socket] = NoOne]
        /\ UNCHANGED <<data, jobData, accepting, serving, taskData, accepted, done>>
        /\ Unfinished' = Unfinished /\ Keeps' = Keeps
    BY <1>w3 DEF WorkerCloses, CloseDescriptor, Keeps, Unfinished
  <2>2. c \in Unfinished
    BY <1>1, <2>1
  <2>3. PICK f \in Fds : f = data[jobData[c]].socket
    BY <1>1, <2>2
  <2>4. fd[f] = c
    BY <1>4, <2>1, <2>2, <2>3
  <2>5. fd'[f] = NoOne /\ \A g \in Fds : g # f => fd'[g] = fd[g]
    BY <1>2, <2>1, <2>3
  <2>6. worker'[c] = "push" /\ \A b \in Conns : b # c => worker'[b] = worker[b]
    BY <1>2, <2>1
  <2>7. \A b \in Unfinished : worker'[b] # "push" => fd'[data[jobData[b]].socket] = b
    BY <1>1, <1>4, <2>4, <2>5, <2>6
  <2>8. Keeps /\ accepting # "push" => fd'[data[taskData].socket] = serving
    <3>1. Keeps => serving # c
      BY <1>1, <2>2 DEF Unfinished
    <3>2. QED
      BY <1>1, <1>4, <2>4, <2>5, <3>1
  <2>9. \A g \in Fds : fd'[g] # NoOne => \/ fd'[g] \in Unfinished /\ worker'[fd'[g]] # "push"
                                         \/ Keeps /\ accepting # "push" /\ fd'[g] = serving
    <3>1. ASSUME NEW g \in Fds, fd'[g] # NoOne PROVE g # f /\ fd'[g] = fd[g] /\ fd[g] # c
      BY <1>5, <2>4, <2>5, <3>1
    <3>2. \A g \in Fds : fd'[g] # NoOne /\ fd'[g] \in Unfinished => worker'[fd'[g]] = worker[fd[g]]
      BY <1>1, <2>6, <3>1
    <3>3. QED
      BY <1>4, <3>1, <3>2
  <2>10. QED
    BY <2>1, <2>7, <2>8, <2>9 DEF DescriptorInv
<1>w4. ASSUME NEW c \in Conns, WorkerPushes(c) PROVE DescriptorInv'
  <2>1. /\ worker[c] = "push" /\ worker' = [worker EXCEPT ![c] = "none"]
        /\ done' = done \union {c} /\ Keeps' = Keeps
        /\ UNCHANGED <<fd, data, jobData, accepting, serving, taskData, accepted>>
    BY <1>w4 DEF WorkerPushes, PushTaskData, Pool!Finish, Keeps
  <2>2. Unfinished' = Unfinished \ {c}
    BY <2>1 DEF Unfinished
  <2>3. \A b \in Unfinished' : worker'[b] = worker[b]
    BY <1>1, <1>2, <2>1, <2>2
  <2>4. \A b \in Unfinished' : worker'[b] # "push" => fd'[data'[jobData'[b]].socket] = b
    BY <1>4, <2>1, <2>2, <2>3
  <2>5. \A g \in Fds : fd[g] # NoOne /\ fd[g] \in Unfinished /\ worker[fd[g]] # "push" =>
            fd[g] \in Unfinished' /\ worker'[fd[g]] # "push"
    BY <2>1, <2>2, <2>3
  <2>6. QED
    BY <1>4, <2>1, <2>4, <2>5 DEF DescriptorInv
<1>m. CASE DeallocTaskData
  BY <1>w, <1>m DEF DeallocTaskData
<1>q. QED
  BY <1>b, <1>t2, <1>t3, <1>t4, <1>t5, <1>t6, <1>t7, <1>t8, <1>t9, <1>w0, <1>w1, <1>w2, <1>w3,
     <1>w4, <1>m, Bystanders
  DEF Next, AcceptThread, WorkerThread, Main, Stopping

LEMMA AnswerKept ==
    ASSUME AnswerInv, UNCHANGED <<sent, data, jobData, serving, taskData>>,
           Unfinished' \subseteq Unfinished,
           \A c \in Unfinished' : \/ worker'[c] = worker[c]
                                  \/ worker'[c] \in {"shutdown", "close", "push"}
                                  \/ worker[c] = "none" /\ worker'[c] = "parse",
           accepting' \in {"enqueue", "respond", "write"} =>
               accepting \in {"enqueue", "respond", "write"},
           accepting' = "write" => accepting = "write"
    PROVE  AnswerInv'
<1>1. \A c \in Unfinished' :
          /\ worker'[c] \in {"none", "parse", "handle", "write"} => sent'[c] = <<>>
          /\ worker'[c] = "handle" => data'[jobData'[c]].request = c
          /\ worker'[c] = "write" => data'[jobData'[c]].response.about = c
  BY DEF AnswerInv
<1>2. QED
  BY <1>1 DEF AnswerInv

\* The one response to connection b is written.
LEMMA OwnWrite ==
    ASSUME sent \in [Conns -> Seq(Response)], NoOne \notin Conns,
           NEW d, NEW b \in Conns, fd[data[d].socket] = b, sent[b] = <<>>,
           data[d].response \in Response, data[d].response.about = b, WriteResponse(d)
    PROVE  /\ \A c \in Conns : c # b => sent'[c] = sent[c]
           /\ Len(sent'[b]) <= 1 /\ \A i \in 1..Len(sent'[b]) : sent'[b][i].about = b
<1>1. CASE sent' = sent
  BY <1>1
<1>2. CASE sent' = [sent EXCEPT ![b] = Append(sent[b], data[d].response)]
  <2>1. sent'[b] = <<data[d].response>> /\ \A c \in Conns : c # b => sent'[c] = sent[c]
    BY <1>2
  <2>2. Len(sent'[b]) = 1 /\ sent'[b][1] = data[d].response
    BY <2>1
  <2>3. QED
    BY <2>1, <2>2
<1>3. QED
  BY <1>1, <1>2 DEF WriteResponse

LEMMA AnswerStep ==
    ASSUME TypeInv, TypeInv', PhaseInv, ConnInv, NoTimeouts, NoTimeouts', OwnerInv, DescriptorInv,
           AnswerInv, [Next]_vars
    PROVE  AnswerInv'
<1> USE DEF others, tcpVars, poolVars, dataVars, kernelVars, environment, acceptVars, threadVars,
            AtWorker, AtAccepting, AtOwner
<1>s. PICK s : Owners(s)
  BY DEF OwnerInv
<1>1. /\ Keeps => /\ serving \in Conns \ accepted /\ taskData \in Datas
                  /\ data[taskData].socket \in Fds
      /\ \A c \in Unfinished : c \in Conns /\ jobData[c] \in Datas /\ data[jobData[c]].socket \in Fds
      /\ \A c \in Conns : worker[c] # "none" => c \in Unfinished
      /\ done \subseteq accepted /\ accepted \subseteq Conns
  BY Users
<1>2. /\ worker \in [Conns -> WorkerPCs] /\ sent \in [Conns -> Seq(Response)]
      /\ data \in [Datas -> Data] /\ jobData \in [Conns -> Datas \union {NoOne}]
      /\ NoOne \notin Conns /\ \A d \in Datas : data[d].response \in Response
  BY ConnectionAssumption DEF TypeInv, TypeOK, TcpTypeOK, UsersTyped, Data
<1>3. /\ \A c \in Unfinished : jobData[c] \in heap
      /\ \A b, c \in Unfinished : jobData[b] = jobData[c] => b = c
      /\ Keeps => \A c \in Unfinished : jobData[c] # taskData
      /\ taskPool # NoOne => \A c \in Unfinished : jobData[c] # taskPool
  <2>1. taskPool # NoOne => taskPool \in Elements(s)
    BY <1>s DEF Owners, Linked, Elements
  <2>2. QED
    BY <1>s, <2>1 DEF Owners
<1>4. /\ \A c \in Unfinished : worker[c] # "push" => fd[data[jobData[c]].socket] = c
      /\ Keeps /\ accepting # "push" => fd[data[taskData].socket] = serving
  BY DEF DescriptorInv
<1>5. /\ \A c \in Conns : /\ Len(sent[c]) <= 1
                          /\ \A i \in 1..Len(sent[c]) : sent[c][i].about = c
      /\ \A c \in Unfinished :
            /\ worker[c] \in {"none", "parse", "handle", "write"} => sent[c] = <<>>
            /\ worker[c] = "handle" => data[jobData[c]].request = c
            /\ worker[c] = "write" => data[jobData[c]].response.about = c
      /\ accepting \in {"enqueue", "respond", "write"} => sent[serving] = <<>>
      /\ accepting = "write" => data[taskData].response.about = serving
  BY DEF AnswerInv
<1>b. CASE UNCHANGED taskVars
  BY <1>b, AnswerKept DEF taskVars, Unfinished
<1>t2. ASSUME NEW c \in Conns, NEW f \in Fds, NEW d \in Datas, AcceptConnection(c, f, d)
       PROVE  AnswerInv'
  <2>1. /\ accepting' = "enqueue" /\ serving' = c /\ c \in backlog
        /\ UNCHANGED <<jobData, accepted, done, worker, sent>> /\ Unfinished' = Unfinished
    BY <1>t2 DEF AcceptConnection, Accept, Unfinished
  <2>2. \A e \in Datas : e # d => data'[e] = data[e]
    BY <1>2, <1>t2, DataSocket DEF AcceptConnection
  <2>3. \A b \in Unfinished : jobData[b] # d
    BY <1>3, <1>t2 DEF AcceptConnection, TakeTaskData
  <2>4. \A b \in Unfinished : data'[jobData'[b]] = data[jobData[b]]
    BY <1>1, <2>1, <2>2, <2>3
  <2>5. sent[c] = <<>>
    BY <2>1 DEF ConnInv, Unseen
  <2>6. QED
    BY <1>5, <2>1, <2>4, <2>5 DEF AnswerInv
<1>t3. CASE Enqueue
  <2>1. /\ Keeps /\ accepting = "enqueue" /\ accepting' = "waiting"
        /\ accepted' = accepted \union {serving}
        /\ jobData' = [jobData EXCEPT ![serving] = taskData]
        /\ UNCHANGED <<data, serving, taskData, done, worker, sent>>
    BY <1>t3 DEF Enqueue, Pool!Accept, Keeps
  <2>2. Unfinished' = Unfinished \union {serving} /\ serving \notin Unfinished
    BY <1>1, <2>1 DEF Unfinished
  <2>3. worker[serving] = "none" /\ sent[serving] = <<>>
    BY <1>1, <1>5, <2>1, <2>2
  <2>4. \A c \in Unfinished : jobData'[c] = jobData[c]
    BY <1>1, <1>2, <2>1, <2>2
  <2>5. \A c \in Unfinished' :
            /\ worker'[c] \in {"none", "parse", "handle", "write"} => sent'[c] = <<>>
            /\ worker'[c] = "handle" => data'[jobData'[c]].request = c
            /\ worker'[c] = "write" => data'[jobData'[c]].response.about = c
    BY <1>5, <2>1, <2>2, <2>3, <2>4
  <2>6. QED
    BY <1>5, <2>1, <2>5 DEF AnswerInv
<1>t4. CASE EnqueueRefused
  BY <1>t4, AnswerKept DEF EnqueueRefused, Pool!Refuse, Unfinished
<1>t5. ASSUME NEW a \in {"success", "detached", "timeout"}, EnqueueReturns(a)
       PROVE  AnswerInv'
  <2>1. /\ accepting = "waiting" /\ serving \in Conns
        /\ answer' = [answer EXCEPT ![serving] = a]
        /\ UNCHANGED <<data, jobData, serving, taskData, accepted, done, worker, sent>>
    BY <1>t5 DEF EnqueueReturns, Pool!Answer, CallbackReturns, TypeInv, UsersTyped
  <2>2. a # "timeout"
    BY <2>1 DEF NoTimeouts, TypeInv, QueueInv
  <2>3. accepting' = "none"
    BY <1>t5, <2>2 DEF EnqueueReturns, ErrorOf, SUCCESS
  <2>4. QED
    BY <2>1, <2>3, AnswerKept DEF Unfinished
<1>t6. CASE RespondError
  <2>1. PICK status \in {503, 500} : Respond(taskData, serving, status)
    BY <1>t6 DEF RespondError, StatusOf
  <2>2. Keeps /\ accepting = "respond" /\ accepting' = "write" /\ Unfinished' = Unfinished
        /\ UNCHANGED <<jobData, serving, taskData, accepted, done, worker, sent>>
    BY <1>t6 DEF RespondError, Keeps, Unfinished
  <2>3. /\ data' \in [Datas -> Data] /\ data'[taskData].response.about = serving
        /\ data'[taskData].socket = data[taskData].socket
        /\ \A d \in Datas : d # taskData => data'[d] = data[d]
    BY <1>1, <1>2, <2>1, <2>2, DataRespond
  <2>4. \A c \in Unfinished : data'[jobData'[c]] = data[jobData[c]]
    BY <1>1, <1>3, <2>2, <2>3
  <2>5. QED
    BY <1>5, <2>2, <2>3, <2>4 DEF AnswerInv
<1>t7. CASE ErrorWrites
  <2>1. /\ Keeps /\ accepting = "write" /\ accepting' = "shutdown" /\ WriteResponse(taskData)
        /\ UNCHANGED <<data, jobData, serving, taskData, accepted, done, worker>>
        /\ Unfinished' = Unfinished
    BY <1>t7 DEF ErrorWrites, Keeps, Unfinished
  <2>2. PICK b \in Conns, d \in Datas : b = serving /\ d = taskData /\ b \notin accepted
    BY <1>1, <2>1
  <2>3. /\ fd[data[d].socket] = b /\ sent[b] = <<>> /\ data[d].response.about = b
        /\ data[d].response \in Response /\ WriteResponse(d)
    BY <1>2, <1>4, <1>5, <2>1, <2>2
  <2>4. /\ \A c \in Conns : c # b => sent'[c] = sent[c]
        /\ Len(sent'[b]) <= 1 /\ \A i \in 1..Len(sent'[b]) : sent'[b][i].about = b
    BY <1>2, <2>3, OwnWrite
  <2>5. \A c \in Unfinished : sent'[c] = sent[c]
    BY <1>1, <2>2, <2>4 DEF Unfinished
  <2>6. \A c \in Conns : /\ Len(sent'[c]) <= 1
                         /\ \A i \in 1..Len(sent'[c]) : sent'[c][i].about = c
    BY <1>5, <2>4
  <2>7. QED
    BY <1>5, <2>1, <2>5, <2>6 DEF AnswerInv
<1>t8. CASE ErrorShutsDown \/ ErrorCloses
  BY <1>t8, AnswerKept
  DEF ErrorShutsDown, ErrorCloses, ShutDown, CloseDescriptor, Unfinished
<1>t9. CASE ErrorPushes
  BY <1>t9, AnswerKept DEF ErrorPushes, PushTaskData, Unfinished
<1>w0. CASE StartTask
  <2>1. PICK c \in Conns : c = Head(queue) /\ c \in Elements(queue)
    BY <1>w0, QueueStart DEF StartTask, TypeInv
  <2>2. worker[c] = "none"
    BY <1>1, <2>1 DEF TypeInv, QueueInv, UsersTyped
  <2>3. /\ worker' = [worker EXCEPT ![c] = "parse"] /\ Unfinished' = Unfinished
        /\ UNCHANGED <<accepting, serving, taskData, data, jobData, sent>>
    BY <1>w0, <2>1 DEF StartTask, Pool!Start, Unfinished
  <2>4. \A b \in Unfinished' : \/ worker'[b] = worker[b]
                               \/ worker[b] = "none" /\ worker'[b] = "parse"
    BY <1>1, <1>2, <2>2, <2>3
  <2>5. QED
    BY <2>3, <2>4, AnswerKept
<1>w1. ASSUME NEW c \in Conns, Parse(c) \/ Handle(c) PROVE AnswerInv'
  <2>1. /\ worker[c] \in {"parse", "handle"} /\ worker'[c] \in {"handle", "write"}
        /\ worker[c] = "handle" => worker'[c] = "write"
        /\ \A b \in Conns : b # c => worker'[b] = worker[b]
        /\ UNCHANGED <<accepting, serving, taskData, jobData, accepted, done, sent>>
        /\ Unfinished' = Unfinished
    BY <1>2, <1>w1 DEF Parse, Handle, Unfinished
  <2>2. c \in Unfinished
    BY <1>1, <2>1
  <2>3. PICK d \in Datas : d = jobData[c] /\ data[d].socket \in Fds
    BY <1>1, <2>2
  <2>4. /\ \A e \in Datas : e # d => data'[e] = data[e]
        /\ data'[d].socket = data[d].socket
        /\ worker'[c] = "handle" => data'[d].request = fd[data[d].socket]
        /\ worker'[c] = "write" => \/ data'[d].response.about = c
                                   \/ /\ worker[c] = "handle"
                                      /\ data'[d].response.about = data[d].request
    BY <1>w1, <2>3, WorkerData
  <2>5. sent[c] = <<>> /\ fd[data[d].socket] = c /\ (worker[c] = "handle" => data[d].request = c)
    BY <1>4, <1>5, <2>1, <2>2, <2>3
  <2>6. ASSUME NEW b \in Unfinished, b # c
        PROVE  data'[jobData[b]] = data[jobData[b]] /\ worker'[b] = worker[b]
    BY <1>1, <1>3, <2>1, <2>2, <2>3, <2>4, <2>6
  <2>7. \A b \in Unfinished :
            /\ worker'[b] \in {"none", "parse", "handle", "write"} => sent[b] = <<>>
            /\ worker'[b] = "handle" => data'[jobData[b]].request = b
            /\ worker'[b] = "write" => data'[jobData[b]].response.about = b
    BY <1>5, <2>1, <2>3, <2>4, <2>5, <2>6
  <2>8. accepting = "write" => data'[taskData].response.about = serving
    <3>1. Keeps => data'[taskData] = data[taskData]
      BY <1>1, <1>3, <2>2, <2>3, <2>4
    <3>2. QED
      BY <1>5, <3>1 DEF Keeps
  <2>9. QED
    BY <1>5, <2>1, <2>7, <2>8 DEF AnswerInv
<1>w2. ASSUME NEW c \in Conns, WorkerWrites(c) PROVE AnswerInv'
  <2>1. /\ worker[c] = "write" /\ worker' = [worker EXCEPT ![c] = "shutdown"]
        /\ WriteResponse(jobData[c])
        /\ UNCHANGED <<data, jobData, accepting, serving, taskData, accepted, done>>
        /\ Unfinished' = Unfinished
    BY <1>w2 DEF WorkerWrites, Unfinished
  <2>2. c \in Unfinished
    BY <1>1, <2>1
  <2>3. PICK d \in Datas : d = jobData[c]
    BY <1>1, <2>2
  <2>4. /\ fd[data[d].socket] = c /\ sent[c] = <<>> /\ data[d].response.about = c
        /\ data[d].response \in Response /\ WriteResponse(d)
    BY <1>2, <1>4, <1>5, <2>1, <2>2, <2>3
  <2>5. /\ \A b \in Conns : b # c => sent'[b] = sent[b]
        /\ Len(sent'[c]) <= 1 /\ \A i \in 1..Len(sent'[c]) : sent'[c][i].about = c
    BY <1>2, <2>4, OwnWrite
  <2>6. \A b \in Conns : /\ Len(sent'[b]) <= 1
                         /\ \A i \in 1..Len(sent'[b]) : sent'[b][i].about = b
    BY <1>5, <2>5
  <2>7. worker'[c] = "shutdown" /\ \A b \in Conns : b # c => worker'[b] = worker[b]
    BY <1>2, <2>1
  <2>8. \A b \in Unfinished' :
            /\ worker'[b] \in {"none", "parse", "handle", "write"} => sent'[b] = <<>>
            /\ worker'[b] = "handle" => data'[jobData'[b]].request = b
            /\ worker'[b] = "write" => data'[jobData'[b]].response.about = b
    BY <1>1, <1>5, <2>1, <2>5, <2>7
  <2>9. accepting' \in {"enqueue", "respond", "write"} => sent'[serving'] = <<>>
    <3>1. Keeps => serving \in Conns /\ serving # c
      BY <1>1, <2>2 DEF Unfinished
    <3>2. QED
      BY <1>5, <2>1, <2>5, <3>1 DEF Keeps
  <2>10. QED
    BY <1>5, <2>1, <2>6, <2>8, <2>9 DEF AnswerInv
<1>w3. ASSUME NEW c \in Conns,
              WorkerShutsDown(c) \/ WorkerCloses(c) \/ WorkerPushes(c)
       PROVE  AnswerInv'
  <2>1. /\ UNCHANGED <<sent, data, jobData, accepting, serving, taskData>>
        /\ Unfinished' \subseteq Unfinished
    BY <1>w3 DEF WorkerShutsDown, WorkerCloses, WorkerPushes, ShutDown, CloseDescriptor,
                 PushTaskData, Pool!Finish, Unfinished
  <2>2. \/ \A b \in Conns : worker'[b] = worker[b] \/ worker'[b] \in {"close", "push"}
        \/ c \notin Unfinished' /\ \A b \in Conns : b # c => worker'[b] = worker[b]
    BY <1>2, <1>w3 DEF WorkerShutsDown, WorkerCloses, WorkerPushes, Pool!Finish, Unfinished
  <2>3. \A b \in Unfinished' : worker'[b] = worker[b] \/ worker'[b] \in {"close", "push"}
    BY <1>1, <2>1, <2>2
  <2>4. QED
    BY <2>1, <2>3, AnswerKept
<1>m. CASE DeallocTaskData
  BY <1>m, AnswerKept DEF DeallocTaskData, Unfinished
<1>q. QED
  BY <1>b, <1>t2, <1>t3, <1>t4, <1>t5, <1>t6, <1>t7, <1>t8, <1>t9, <1>w0, <1>w1, <1>w2, <1>w3,
     <1>m, Bystanders
  DEF Next, AcceptThread, WorkerThread, Main, Stopping

LEMMA TaskInit == Init => TaskInv
<1> SUFFICES ASSUME Init PROVE TaskInv
  OBVIOUS
<1> USE DEF Init, TcpInit, Pool!Init
<1>1. Unfinished = {} /\ ~Keeps
  BY DEF Unfinished, Keeps
<1>2. Linked(<<>>) /\ Elements(<<>>) = {}
  BY DEF Linked, Elements, Distinct
<1>3. Owners(<<>>)
  BY <1>1, <1>2 DEF Owners
<1>4. DescriptorInv /\ AnswerInv
  BY <1>1 DEF DescriptorInv, AnswerInv
<1>5. QED
  BY <1>3, <1>4 DEF TaskInv, OwnerInv

\* The inductive invariant: the types, where the threads can be in each phase of the server,
\* what holds of each connection and its descriptor, and who has each task_data.
ServerInv == TypeInv /\ PhaseInv /\ ConnInv /\ TaskInv

LEMMA ServerAlways == Spec => []ServerInv
<1>1. Init => ServerInv
  BY TypeInit, PhaseInit, ConnInit, TaskInit DEF ServerInv
<1>2. ASSUME ServerInv, [Next]_vars PROVE ServerInv'
  <2>1. TypeInv /\ PhaseInv /\ ConnInv /\ TaskInv
    BY <1>2 DEF ServerInv
  <2>2. TypeInv' /\ PhaseInv' /\ ConnInv'
    BY <1>2, <2>1, TypeStep, PhaseStep, ConnStep
  <2>3. ASSUME NoTimeouts' PROVE OwnerInv' /\ DescriptorInv' /\ AnswerInv'
    <3>1. NoTimeouts /\ OwnerInv /\ DescriptorInv /\ AnswerInv
      BY <1>2, <2>1, <2>3, AnswersStay DEF TaskInv
    <3>2. QED
      BY <1>2, <2>1, <2>2, <2>3, <3>1, OwnerStep, DescriptorStep, AnswerStep
  <2>4. QED
    BY <2>2, <2>3 DEF ServerInv, TaskInv
<1>3. QED
  BY <1>1, <1>2, PTL DEF Spec

LEMMA InPoolIsUnfinished ==
    ASSUME TypeInv
    PROVE  InPool \subseteq Unfinished
BY DEF TypeInv, QueueInv, UsersTyped, InPool, Unfinished

\* Until a call of worker_thread_pool_enqueue times out, a task_data is on
\* server->task_pool once, or with the accepting thread, or with the job of one
\* connection: none is taken twice from the pool and none is used after its return.
THEOREM OwnerCorrect == Spec => []OneOwner
<1>1. ASSUME ServerInv PROVE OneOwner
  <2>1. SUFFICES ASSUME NoTimeouts
                 PROVE  /\ PoolElement[Cardinality(Datas)] = NoOne
                        /\ \A c \in InPool : /\ jobData[c] \notin Pooled
                                             /\ \A b \in InPool : b # c => jobData[b] # jobData[c]
                                             /\ Keeps => taskData # jobData[c]
                        /\ Keeps => taskData \notin Pooled
    BY DEF OneOwner
  <2>2. PICK s : Owners(s)
    BY <1>1, <2>1 DEF ServerInv, TaskInv, OwnerInv
  <2>3. Pooled = Elements(s) /\ PoolElement[Cardinality(Datas)] = NoOne
    BY <2>2, PooledIsList DEF Owners
  <2>4. InPool \subseteq Unfinished
    BY <1>1, InPoolIsUnfinished DEF ServerInv
  <2>5. QED
    BY <2>2, <2>3, <2>4 DEF Owners
<1>2. QED
  BY <1>1, ServerAlways, PTL

\* Until a call times out, the socket in a task_data is a descriptor that is open for
\* the connection being served, until the thread that serves it has closed it: no
\* thread writes to or closes a descriptor that accept() has handed out again.
THEOREM DescriptorCorrect == Spec => []OwnDescriptor
<1>1. ASSUME ServerInv PROVE OwnDescriptor
  <2>1. NoTimeouts => DescriptorInv
    BY <1>1 DEF ServerInv, TaskInv
  <2>2. InPool \subseteq Unfinished
    BY <1>1, InPoolIsUnfinished DEF ServerInv
  <2>3. QED
    BY <2>1, <2>2 DEF OwnDescriptor, DescriptorInv
<1>2. QED
  BY <1>1, ServerAlways, PTL

\* Until a call times out, every connection gets at most one response, and that is the
\* response to its own request, by whichever thread finalizes the task.
THEOREM AnswerCorrect == Spec => []AnsweredOnce
<1>1. ServerInv => AnsweredOnce
  BY DEF ServerInv, TaskInv, AnswerInv, AnsweredOnce
<1>2. QED
  BY <1>1, ServerAlways, PTL

\* When http_server_dealloc has returned and no call has timed out, the descriptors
\* still open and the task_data still allocated are those of the jobs that were queued
\* when the pool was closed; with an infinite timeout there are none.
THEOREM ShutdownCorrect == Spec => []ShutdownReleases
<1>1. ASSUME ServerInv PROVE ShutdownReleases
  <2>1. SUFFICES ASSUME owner = "down", NoTimeouts
                 PROVE  /\ {fd[f] : f \in Fds} \ {NoOne} = accepted \ done
                        /\ heap = {jobData[c] : c \in accepted \ done}
                        /\ timeout = "infinite" => accepted \subseteq done
    BY DEF ShutdownReleases
  <2>2. TypeInv /\ PhaseInv /\ ConnInv /\ OwnerInv /\ DescriptorInv
    BY <1>1, <2>1 DEF ServerInv, TaskInv
  <2>3. accepting = "none" /\ ~Keeps /\ executing = {} /\ taskPool = NoOne
    BY <2>1, <2>2 DEF PhaseInv, Keeps
  <2>4. PICK s : Owners(s)
    BY <2>2 DEF OwnerInv
  <2>5. s = <<>> /\ Elements(s) = {}
    <3>1. s \in Seq(Datas) /\ taskPool = IF s = <<>> THEN NoOne ELSE s[1]
      BY <2>4 DEF Owners, Linked
    <3>2. s = <<>>
      BY <2>3, <3>1, DataAssumption
    <3>3. QED
      BY <3>2 DEF Elements
  <2>6. heap = {jobData[c] : c \in accepted \ done}
    BY <2>3, <2>4, <2>5 DEF Owners, Unfinished
  <2>7. \A c \in accepted \ done : /\ c \in Conns /\ worker[c] = "none" /\ jobData[c] \in Datas
                                   /\ data[jobData[c]].socket \in Fds
    BY <2>2, <2>3 DEF TypeInv, QueueInv, UsersTyped
  <2>8. {fd[f] : f \in Fds} \ {NoOne} = accepted \ done
    <3>1. ASSUME NEW c \in accepted \ done PROVE c \in {fd[f] : f \in Fds} \ {NoOne}
      <4>1. fd[data[jobData[c]].socket] = c
        BY <2>2, <2>7 DEF DescriptorInv, Unfinished
      <4>2. QED
        BY <2>7, <4>1, ConnectionAssumption
    <3>2. ASSUME NEW f \in Fds, fd[f] # NoOne PROVE fd[f] \in accepted \ done
      BY <2>2, <2>3, <3>2 DEF DescriptorInv, Unfinished
    <3>3. QED
      BY <3>1, <3>2
  <2>9. timeout = "infinite" => accepted \subseteq done
    BY <2>2, <2>3 DEF ConnInv
  <2>10. QED
    BY <2>6, <2>8, <2>9
<1>2. QED
  BY <1>1, ServerAlways, PTL
=============================================================================
