------------------------ MODULE Orchestration_proofs ------------------------
(***************************************************************************)
(* For any topology, any number of workers and any capacity: the           *)
(* controller knows every worker that has not exited, what a worker        *)
(* queues is new to it until it restarts, a testcase keeps to the routes   *)
(* and is lost on none of them, and no exit of a worker goes unnoticed.    *)
(***************************************************************************)
EXTENDS Orchestration, SequenceTheorems, FiniteSetTheorems, TLAPS

\* What LiveWorkersAreKnown needs beside itself.
ProcessType ==
    /\ process \in [Workers -> Processes]
    /\ conns \subseteq Workers

KInv == ProcessType /\ LiveWorkersAreKnown

\* The steps that change neither the processes nor the connections.
LEMMA OthersKeep ==
    ASSUME KInv, UNCHANGED <<process, conns>>
    PROVE  KInv'
  BY DEF KInv, ProcessType, LiveWorkersAreKnown

\* The end of a process takes it out of the live ones.
LEMMA ExitKeeps ==
    ASSUME KInv, NEW w \in Workers, NEW status, Exit(w, status)
    PROVE  KInv'
  BY DEF KInv, ProcessType, LiveWorkersAreKnown, Exit, Processes

\* A command that cannot be delivered costs the connection of a worker only if its
\* socket is closed.
LEMMA SendKeeps ==
    ASSUME KInv, NEW d \in Workers, NEW command, Send(d, command), UNCHANGED process
    PROVE  KInv'
<1>1. conns' = conns \/ (Closed(d) /\ conns' = conns \ {d})
  BY DEF Send
<1>2. QED
  BY <1>1 DEF KInv, ProcessType, LiveWorkersAreKnown, Closed

\* What a worker does by itself leaves the connections alone.
LEMMA WorkerStepKeeps ==
    ASSUME KInv, NEW w \in Workers, WorkerStep(w)
    PROVE  KInv'
<1>1. CASE (\E t \in Testcases : Find(w, t)) \/ Evaluate(w) \/ Restart(w)
  <2>1. UNCHANGED <<process, conns>>
    BY <1>1 DEF Find, Evaluate, Restart, launcher
  <2>2. QED
    BY <2>1, OthersKeep
<1>2. CASE Receive(w)
  <2>1. process[w] = "running" /\ conns' = conns
    BY <1>2 DEF Receive, Alive, launcher
  <2>2. \/ process' = process
        \/ process' = [process EXCEPT ![w] = "stopping"]
    BY <1>2 DEF Receive
  <2>3. QED
    BY <2>1, <2>2 DEF KInv, ProcessType, LiveWorkersAreKnown, Processes
<1>3. CASE Stop(w) \/ Finish(w) \/ Die(w)
  BY <1>3, ExitKeeps DEF Stop, Finish, Die
<1>4. QED
  BY <1>1, <1>2, <1>3 DEF WorkerStep

\* The launcher drops a connection when it finds it closed or has waited for its worker.
LEMMA LauncherStepKeeps ==
    ASSUME KInv, LauncherStep
    PROVE  KInv'
<1>1. CASE \E w \in Workers : Spawn(w)
  <2> PICK w \in Workers : Spawn(w)
    BY <1>1
  <2>1. QED
    BY DEF Spawn, launcher, KInv, ProcessType, LiveWorkersAreKnown, Processes
<1>2. CASE \E w \in Workers : Poll(w)
  BY <1>2, OthersKeep DEF Poll, worker
<1>3. CASE \E w \in Workers : Route(w)
  BY <1>3, SendKeeps DEF Route, worker
<1>4. CASE \E w \in Workers : Reap(w)
  <2> PICK w \in Workers : Reap(w)
    BY <1>4
  <2>1. process[w] = "zombie" /\ process' = [process EXCEPT ![w] = "reaped"]
        /\ conns' = conns \ {w}
    BY DEF Reap
  <2>2. QED
    BY <2>1 DEF KInv, ProcessType, LiveWorkersAreKnown, Processes
<1>5. CASE EndSpawn \/ Wait \/ EndPoll \/ NextNotification
  BY <1>5, OthersKeep DEF EndSpawn, Wait, EndPoll, NextNotification, worker
<1>6. CASE Consume \/ EndDrain \/ Loop
  BY <1>6, OthersKeep DEF Consume, EndDrain, Loop, worker
<1>7. QED
  BY <1>1, <1>2, <1>3, <1>4, <1>5, <1>6 DEF LauncherStep

LEMMA KnownStep ==
    ASSUME KInv, [Next]_vars
    PROVE  KInv'
<1>1. CASE \E w \in Workers : WorkerStep(w)
  BY <1>1, WorkerStepKeeps
<1>2. CASE \E w \in Workers : AskShutdown(w)
  BY <1>2, SendKeeps DEF AskShutdown, worker
<1>3. CASE LauncherStep
  BY <1>3, LauncherStepKeeps
<1>4. CASE UNCHANGED vars
  BY <1>4, OthersKeep DEF vars, worker, launcher
<1>5. QED
  BY <1>1, <1>2, <1>3, <1>4 DEF Next

\* Whatever exits, full sockets and late waits the launcher meets, it never loses the
\* connection of a worker that is still there.
THEOREM LiveWorkersStayKnown == Spec => []LiveWorkersAreKnown
<1>1. Init => KInv
  BY DEF Init, KInv, ProcessType, LiveWorkersAreKnown, Processes
<1>2. KInv /\ [Next]_vars => KInv'
  BY KnownStep
<1>3. KInv => LiveWorkersAreKnown
  BY DEF KInv
<1>4. QED
  BY <1>1, <1>2, <1>3, PTL DEF Spec
-----------------------------------------------------------------------------
\* The types.

\* The launcher has destinations left only for a notification of a worker whose group
\* leads to them.
DestsFollow ==
    \A d \in dests : batch # <<>> /\ <<GroupOf[batch[1][2]], GroupOf[d]>> \in Routes

TInv == TypeOK /\ DestsFollow

\* Appending a sequence to another.
LEMMA Concatenated ==
    ASSUME NEW S, NEW s \in Seq(S), NEW r \in Seq(S)
    PROVE  /\ s \o r \in Seq(S)
           /\ Len(s \o r) = Len(s) + Len(r)
           /\ \A i \in DOMAIN (s \o r) :
                  \/ i \in DOMAIN s /\ (s \o r)[i] = s[i]
                  \/ i - Len(s) \in DOMAIN r /\ (s \o r)[i] = r[i - Len(s)]
  BY ConcatProperties

\* The imports of a batch of commands without Shutdown are a sequence of testcases,
\* all of them in the commands and none of them known, each of them once.
LEMMA FreshImports ==
    ASSUME NEW commands \in Seq(Testcases \cup {Shutdown}), ~Contains(commands, Shutdown),
           NEW known, NEW imports \in Fresh(commands, known)
    PROVE  /\ imports \in Seq(Testcases)
           /\ Range(imports) \subseteq Testcases
           /\ \A i \in DOMAIN imports :
                  imports[i] \notin known /\ \E k \in DOMAIN commands : commands[k] = imports[i]
           /\ \A i, j \in DOMAIN imports : imports[i] = imports[j] => i = j
<1> DEFINE new == Range(commands) \ known
           Before(t, u) == \E k \in DOMAIN commands :
                              commands[k] = t /\ \A l \in 1 .. k : commands[l] # u
<1>1. /\ imports \in [1 .. Cardinality(new) -> new]
      /\ \A i, j \in DOMAIN imports : i < j => Before(imports[i], imports[j])
  BY DEF Fresh
<1>2. IsFiniteSet(Range(commands))
  <2>1. IsFiniteSet(DOMAIN commands)
    BY FS_Interval
  <2>2. commands \in Surjection(DOMAIN commands, Range(commands))
    BY DEF Surjection, Range
  <2>3. QED
    BY <2>1, <2>2, FS_Surjection
<1>3. Cardinality(new) \in Nat
  BY <1>2, FS_Difference, FS_CardinalityType
<1>4. \A t \in new : t \in Testcases /\ t \notin known /\ \E k \in DOMAIN commands : commands[k] = t
  BY DEF Range, Contains
<1> HIDE DEF new
<1>5. DOMAIN imports = 1 .. Cardinality(new) /\ \A i \in DOMAIN imports : imports[i] \in new
  BY <1>1
<1>6. imports \in Seq(Testcases)
  BY <1>1, <1>3, <1>4, <1>5
<1>7. \A t : ~Before(t, t)
  BY DEF Before
<1>8. \A i, j \in DOMAIN imports : imports[i] = imports[j] => i = j
  <2> HIDE DEF Before
  <2> TAKE i, j \in DOMAIN imports
  <2> HAVE imports[i] = imports[j]
  <2>1. i \in Int /\ j \in Int
    BY <1>3, <1>5
  <2>2. ~(i < j) /\ ~(j < i)
    BY <1>1, <1>7
  <2>3. QED
    BY <2>1, <2>2
<1>9. Range(imports) \subseteq Testcases
  BY <1>4, <1>5 DEF Range
<1>10. QED
  BY <1>4, <1>5, <1>6, <1>8, <1>9

\* The notifications polled from a socket, with their source.
LEMMA TakenType ==
    ASSUME NEW s \in Seq(Testcases), NEW w \in Workers
    PROVE  [i \in DOMAIN s |-> <<s[i], w>>] \in Seq(Testcases \X Workers)
<1>1. Len(s) \in Nat /\ DOMAIN s = 1 .. Len(s)
  OBVIOUS
<1>2. \A i \in 1 .. Len(s) : <<s[i], w>> \in Testcases \X Workers
  OBVIOUS
<1>3. QED
  BY <1>1, <1>2, IsASeq

\* What a worker sends is appended to its socket or dropped.
LEMMA SentTypes ==
    ASSUME TypeOK, NEW w \in Workers, NEW t \in Testcases, SendTestcase(w, t)
    PROVE  /\ seen' \in [Workers -> SUBSET Testcases]
           /\ shared' \in [Workers -> SUBSET Testcases]
           /\ up' \in [Workers -> Seq(Testcases)]
<1>1. Append(up[w], t) \in Seq(Testcases)
  BY AppendProperties DEF TypeOK
<1>2. /\ seen \in [Workers -> SUBSET Testcases] /\ shared \in [Workers -> SUBSET Testcases]
      /\ up \in [Workers -> Seq(Testcases)]
  BY DEF TypeOK
<1>3. \/ up' = up
      \/ up' = [up EXCEPT ![w] = Append(@, t)]
  BY DEF SendTestcase
<1>4. up' \in [Workers -> Seq(Testcases)]
  BY <1>1, <1>2, <1>3
<1>5. seen' \in [Workers -> SUBSET Testcases] /\ shared' \in [Workers -> SUBSET Testcases]
  <2>1. CASE UNCHANGED <<seen, shared>>
    BY <1>2, <2>1
  <2>2. CASE ~ UNCHANGED <<seen, shared>>
    <3>1. seen' = [seen EXCEPT ![w] = @ \cup {t}]
      BY <2>2, ZenonT(60) DEF SendTestcase
    <3>2. shared' = [shared EXCEPT ![w] = @ \cup {t}]
      BY <2>2, ZenonT(60) DEF SendTestcase
    <3>3. QED
      BY <1>2, <3>1, <3>2
  <2>3. QED
    BY <2>1, <2>2
<1>6. QED
  BY <1>4, <1>5

\* What the controller sends is appended to the socket of the worker, or is not sent.
LEMMA SendTypes ==
    ASSUME TypeOK, NEW d \in Workers, NEW command \in Testcases \cup {Shutdown}, Send(d, command)
    PROVE  /\ down' \in [Workers -> Seq(Testcases \cup {Shutdown})]
           /\ reset' \in [Workers -> BOOLEAN]
           /\ conns' \subseteq Workers /\ dests' \subseteq Workers /\ toPoll' \subseteq Workers
           /\ pc' \in Phases
           /\ batch' \in Seq(Testcases \X Workers)
<1>1. Append(down[d], command) \in Seq(Testcases \cup {Shutdown})
  BY AppendProperties DEF TypeOK
<1>2. /\ down \in [Workers -> Seq(Testcases \cup {Shutdown})]
      /\ reset \in [Workers -> BOOLEAN]
      /\ conns \subseteq Workers /\ dests \subseteq Workers /\ toPoll \subseteq Workers
      /\ pc \in Phases /\ batch \in Seq(Testcases \X Workers)
  BY DEF TypeOK
<1>3. down' \in [Workers -> Seq(Testcases \cup {Shutdown})]
  BY <1>1, <1>2 DEF Send
<1>4. reset' \in [Workers -> BOOLEAN]
  BY <1>2 DEF Send
<1>5. conns' \subseteq Workers /\ dests' \subseteq Workers /\ toPoll' \subseteq Workers
  BY <1>2 DEF Send, Fail
<1>6. pc' \in Phases
  BY <1>2 DEF Send, Fail, Phases
<1>7. batch' = batch \/ batch' = <<>>
  BY DEF Send, Fail
<1>8. QED
  BY <1>2, <1>3, <1>4, <1>5, <1>6, <1>7, EmptySeq

\* The end of a process.
LEMMA ExitTypes ==
    ASSUME TypeOK, NEW w \in Workers, NEW status \in {"success", "failure"}, Exit(w, status)
    PROVE  TypeOK'
<1>1. down' \in [Workers -> Seq(Testcases \cup {Shutdown})] /\ reset' \in [Workers -> BOOLEAN]
  BY SMTT(60) DEF TypeOK, Exit
<1>2. /\ process' \in [Workers -> Processes] /\ sigchld' \in BOOLEAN
      /\ exit' \in [Workers -> {"none", "success", "failure"}]
  BY DEF TypeOK, Exit, Processes
<1>3. QED
  BY <1>1, <1>2 DEF TypeOK, Exit, history

LEMMA WorkerTypes ==
    ASSUME TypeOK, NEW w \in Workers, WorkerStep(w)
    PROVE  TypeOK'
<1>1. CASE \E t \in Testcases : Find(w, t)
  <2> PICK t \in Testcases : Find(w, t)
    BY <1>1
  <2>1. SendTestcase(w, t)
    BY DEF Find
  <2>2. /\ seen' \in [Workers -> SUBSET Testcases] /\ shared' \in [Workers -> SUBSET Testcases]
        /\ up' \in [Workers -> Seq(Testcases)]
    BY <2>1, SentTypes
  <2>3. found' \in [Workers -> SUBSET Testcases]
    BY DEF TypeOK, Find
  <2>4. QED
    BY <2>2, <2>3 DEF TypeOK, Find, launcher
<1>2. CASE Receive(w)
  <2>0. down' \in [Workers -> Seq(Testcases \cup {Shutdown})]
    BY <1>2 DEF TypeOK, Receive
  <2>1. CASE Contains(down[w], Shutdown)
    <3>1. process' \in [Workers -> Processes] /\ UNCHANGED <<atTop, seen, queue, received>>
      BY <1>2, <2>1 DEF TypeOK, Receive, Processes
    <3>2. QED
      BY <1>2, <2>0, <3>1 DEF TypeOK, Receive, launcher
  <2>2. CASE ~Contains(down[w], Shutdown)
    <3> PICK imports \in Fresh(down[w], seen[w]) :
            /\ atTop' = [atTop EXCEPT ![w] = FALSE]
            /\ seen' = [seen EXCEPT ![w] = @ \cup Range(imports)]
            /\ queue' = [queue EXCEPT ![w] = @ \o imports]
            /\ received' = [received EXCEPT ![w] = @ \cup Range(imports)]
            /\ UNCHANGED process
      BY <1>2, <2>2 DEF Receive
    <3>1. down[w] \in Seq(Testcases \cup {Shutdown}) /\ queue[w] \in Seq(Testcases)
      BY DEF TypeOK
    <3>2. imports \in Seq(Testcases) /\ Range(imports) \subseteq Testcases
      BY <2>2, <3>1, FreshImports
    <3>3. queue[w] \o imports \in Seq(Testcases)
      BY <3>1, <3>2, Concatenated
    <3>4. /\ atTop' \in [Workers -> BOOLEAN] /\ queue' \in [Workers -> Seq(Testcases)]
          /\ seen' \in [Workers -> SUBSET Testcases] /\ received' \in [Workers -> SUBSET Testcases]
      BY <3>2, <3>3 DEF TypeOK
    <3>5. QED
      BY <1>2, <2>0, <3>4 DEF TypeOK, Receive, launcher
  <2>3. QED
    BY <2>1, <2>2
<1>3. CASE Evaluate(w)
  <2>1. queue[w] \in Seq(Testcases) /\ queue[w] # <<>>
    BY <1>3 DEF TypeOK, Evaluate
  <2>2. Tail(queue[w]) \in Seq(Testcases) /\ Head(queue[w]) \in Testcases
    BY <2>1, HeadTailProperties
  <2>3. CASE SendTestcase(w, Head(queue[w]))
    <3>1. /\ seen' \in [Workers -> SUBSET Testcases]
          /\ shared' \in [Workers -> SUBSET Testcases]
          /\ up' \in [Workers -> Seq(Testcases)]
      BY <2>2, <2>3, SentTypes
    <3>2. QED
      BY <1>3, <2>2, <3>1 DEF TypeOK, Evaluate, launcher
  <2>4. CASE UNCHANGED <<seen, shared, up>>
    BY <1>3, <2>2, <2>4 DEF TypeOK, Evaluate, launcher
  <2>5. QED
    BY <1>3, <2>3, <2>4 DEF Evaluate
<1>4. CASE Restart(w)
  <2>1. queue[w] # <<>> => Tail(queue[w]) \in Seq(Testcases)
    BY HeadTailProperties DEF TypeOK
  <2>2. restarts' \in [Workers -> Nat] /\ queue' \in [Workers -> Seq(Testcases)]
    <3>1. restarts \in [Workers -> Nat] /\ queue \in [Workers -> Seq(Testcases)]
      BY DEF TypeOK
    <3>2. restarts' \in [Workers -> Nat]
      BY <1>4, <3>1 DEF Restart
    <3>3. queue' \in [Workers -> Seq(Testcases)]
      BY <1>4, <2>1, <3>1 DEF Restart
    <3>4. QED
      BY <3>2, <3>3
  <2>3. atTop' \in [Workers -> BOOLEAN] /\ seen' \in [Workers -> SUBSET Testcases]
    BY <1>4 DEF TypeOK, Restart
  <2>4. QED
    BY <1>4, <2>2, <2>3 DEF TypeOK, Restart, sockets, launcher, history
<1>5. CASE Stop(w) \/ Finish(w) \/ Die(w)
  BY <1>5, ExitTypes DEF Stop, Finish, Die
<1>6. QED
  BY <1>1, <1>2, <1>3, <1>4, <1>5 DEF WorkerStep

LEMMA LauncherTypes ==
    ASSUME TypeOK, DestsFollow, LauncherStep
    PROVE  TypeOK'
<1>1. CASE \E w \in Workers : Spawn(w) \/ Reap(w)
  <2>1. CASE \E w \in Workers : Spawn(w)
    BY <2>1 DEF TypeOK, Spawn, sockets, launcher, history, Processes
  <2>2. CASE \E w \in Workers : Reap(w)
    <3> PICK w \in Workers : Reap(w)
      BY <2>2
    <3>1. up' \in [Workers -> Seq(Testcases)] /\ reset' \in [Workers -> BOOLEAN]
      BY DEF TypeOK, Reap
    <3>2. /\ process' \in [Workers -> Processes]
          /\ failures' \subseteq Workers /\ conns' \subseteq Workers
      BY DEF TypeOK, Reap, Processes
    <3>3. QED
      BY <3>1, <3>2 DEF TypeOK, Reap, history
  <2>3. QED
    BY <1>1, <2>1, <2>2
<1>2. CASE \E w \in Workers : Poll(w)
  <2> PICK w \in Workers : Poll(w)
    BY <1>2
  <2> DEFINE taken == [i \in DOMAIN up[w] |-> <<up[w][i], w>>]
  <2>0. /\ up \in [Workers -> Seq(Testcases)] /\ batch \in Seq(Testcases \X Workers)
        /\ reset \in [Workers -> BOOLEAN]
    BY DEF TypeOK
  <2>1. taken \in Seq(Testcases \X Workers)
    BY <2>0, TakenType
  <2>2. batch \o taken \in Seq(Testcases \X Workers)
    BY <2>0, <2>1, Concatenated
  <2>3. batch' \in Seq(Testcases \X Workers)
    <3>1. batch' = <<>> \/ batch' = batch \o taken
      BY DEF Poll, Fail
    <3>2. QED
      BY <2>2, <3>1, EmptySeq
  <2>4. up' \in [Workers -> Seq(Testcases)] /\ reset' \in [Workers -> BOOLEAN]
    <3>1. \/ up' = up
          \/ up' = [up EXCEPT ![w] = <<>>]
      BY DEF Poll
    <3>2. up' \in [Workers -> Seq(Testcases)]
      BY <2>0, <3>1, EmptySeq
    <3>3. reset' \in [Workers -> BOOLEAN]
      BY <2>0 DEF Poll
    <3>4. QED
      BY <3>2, <3>3
  <2>5. pc' \in Phases /\ toPoll' \subseteq Workers /\ dests' \subseteq Workers
    BY DEF TypeOK, Poll, Fail, Phases
  <2>6. QED
    BY <2>3, <2>4, <2>5 DEF TypeOK, Poll, worker, history
<1>3. CASE \E w \in Workers : Route(w)
  <2> PICK w \in Workers : Route(w)
    BY <1>3
  <2>1. batch # <<>>
    BY DEF Route, DestsFollow
  <2>2. batch[1][1] \in Testcases
    BY <2>1, SMTT(60) DEF TypeOK
  <2>3. QED
    BY <2>2, SendTypes DEF TypeOK, Route, worker, history
<1>4. CASE EndSpawn \/ Wait \/ Consume \/ EndDrain \/ Loop
  BY <1>4, ZenonT(60) DEF TypeOK, EndSpawn, Wait, Consume, EndDrain, Loop, AfterNotifications, worker,
           sockets, history, Phases
<1>5. CASE EndPoll \/ NextNotification
  <2>1. batch # <<>> => Tail(batch) \in Seq(Testcases \X Workers)
    BY HeadTailProperties DEF TypeOK
  <2>2. \A v : Destinations(v) \subseteq Workers
    BY DEF Destinations
  <2>3. CASE EndPoll
    BY <2>2, <2>3 DEF TypeOK, EndPoll, worker, sockets, history, Phases
  <2>4. CASE NextNotification
    <3>1. dests' \subseteq Workers /\ pc' \in Phases
      BY <2>2, <2>4 DEF TypeOK, NextNotification, AfterNotifications, Phases
    <3>2. Len(batch) <= 1 \/ batch # <<>>
      BY DEF TypeOK
    <3>3. batch' = <<>> \/ (batch # <<>> /\ batch' = Tail(batch))
      BY <2>4, <3>2 DEF NextNotification
    <3>4. batch' \in Seq(Testcases \X Workers)
      BY <2>1, <3>3, EmptySeq
    <3>5. QED
      BY <2>4, <3>1, <3>4 DEF TypeOK, NextNotification, worker, sockets, history
  <2>5. QED
    BY <1>5, <2>3, <2>4
<1>6. QED
  BY <1>1, <1>2, <1>3, <1>4, <1>5 DEF LauncherStep

LEMMA AskTypes ==
    ASSUME TypeOK, NEW w \in Workers, AskShutdown(w)
    PROVE  TypeOK'
<1>1. shutdowns' \in 0 .. MaxShutdowns
  BY BoundsAssumption DEF TypeOK, AskShutdown
<1>2. Send(w, Shutdown)
  BY DEF AskShutdown
<1>3. QED
  BY <1>1, <1>2, SendTypes DEF TypeOK, AskShutdown, worker, history

\* The destinations are computed with the notification that becomes the first one.
LEMMA DestsStep ==
    ASSUME TInv, [Next]_vars
    PROVE  DestsFollow'
<1>1. CASE UNCHANGED <<batch, dests>>
  BY <1>1 DEF TInv, DestsFollow
<1>2. CASE dests' = {}
  BY <1>2 DEF DestsFollow
<1>3. CASE dests' \subseteq dests /\ batch' = batch
  BY <1>3 DEF TInv, DestsFollow
<1>4. ASSUME NEW w \in Workers, Poll(w) PROVE DestsFollow'
  <2> DEFINE taken == [i \in DOMAIN up[w] |-> <<up[w][i], w>>]
  <2>1. CASE reset[w]
    BY <1>4, <2>1, <1>2 DEF Poll, Fail
  <2>2. CASE ~reset[w]
    <3>1. batch' = batch \o taken /\ dests' = dests
      BY <1>4, <2>2 DEF Poll
    <3>2. taken \in Seq(Testcases \X Workers) /\ batch \in Seq(Testcases \X Workers)
      <4>1. up[w] \in Seq(Testcases) /\ batch \in Seq(Testcases \X Workers)
        BY DEF TInv, TypeOK
      <4>2. QED
        BY <4>1, TakenType
    <3>3. batch # <<>> => batch' # <<>> /\ batch'[1] = batch[1]
      BY <3>1, <3>2, ConcatProperties
    <3>4. QED
      BY <3>1, <3>3 DEF TInv, DestsFollow
  <2>3. QED
    BY <2>1, <2>2
<1>5. ASSUME EndPoll PROVE DestsFollow'
  <2>1. CASE batch = <<>>
    BY <1>5, <2>1, <1>2 DEF EndPoll
  <2>2. CASE batch # <<>>
    BY <1>5, <2>2 DEF EndPoll, DestsFollow, Destinations
  <2>3. QED
    BY <2>1, <2>2
<1>6. ASSUME NextNotification PROVE DestsFollow'
  <2>1. CASE Len(batch) <= 1
    BY <1>6, <2>1, <1>2 DEF NextNotification
  <2>2. CASE ~(Len(batch) <= 1)
    <3>1. batch' = Tail(batch) /\ dests' = Destinations(batch[2][2])
      BY <1>6, <2>2 DEF NextNotification
    <3>2. batch \in Seq(Testcases \X Workers) /\ Len(batch) > 1
      BY <2>2 DEF TInv, TypeOK
    <3>3. /\ batch # <<>> /\ Len(batch') = Len(batch) - 1
          /\ \A i \in 1 .. Len(batch') : batch'[i] = batch[i + 1]
      <4>1. batch # <<>>
        BY <3>2
      <4>2. QED
        BY <3>1, <3>2, <4>1, HeadTailProperties
    <3>4. batch' # <<>> /\ batch'[1] = batch[2]
      BY <3>2, <3>3
    <3>5. QED
      BY <3>1, <3>4 DEF DestsFollow, Destinations
  <2>3. QED
    BY <2>1, <2>2
<1>7. ASSUME NEW d \in Workers, NEW command, Send(d, command) PROVE DestsFollow'
  BY <1>7, <1>2, <1>3 DEF Send, Fail
<1>8. ASSUME NEW w \in Workers, WorkerStep(w) PROVE DestsFollow'
  BY <1>8, <1>1 DEF WorkerStep, Find, Receive, Evaluate, Restart, Stop, Finish, Die, Exit, launcher
<1>9. ASSUME LauncherStep PROVE DestsFollow'
  <2>1. CASE \E w \in Workers : Spawn(w) \/ Reap(w)
    BY <2>1, <1>1 DEF Spawn, Reap, launcher
  <2>2. CASE \E w \in Workers : Route(w)
    BY <2>2, <1>7 DEF Route
  <2>3. CASE EndSpawn \/ Wait \/ Consume \/ EndDrain \/ Loop
    BY <2>3, <1>1 DEF EndSpawn, Wait, Consume, EndDrain, Loop
  <2>4. QED
    BY <1>4, <1>5, <1>6, <1>9, <2>1, <2>2, <2>3 DEF LauncherStep
<1>10. CASE UNCHANGED vars
  BY <1>10, <1>1 DEF vars, launcher
<1>11. QED
  BY <1>7, <1>8, <1>9, <1>10 DEF Next, AskShutdown

LEMMA TypesStep ==
    ASSUME TInv, [Next]_vars
    PROVE  TInv'
<1>1. CASE \E w \in Workers : WorkerStep(w)
  BY <1>1, WorkerTypes, DestsStep DEF TInv
<1>2. CASE \E w \in Workers : AskShutdown(w)
  BY <1>2, AskTypes, DestsStep DEF TInv
<1>3. CASE LauncherStep
  BY <1>3, LauncherTypes, DestsStep DEF TInv
<1>4. CASE UNCHANGED vars
  BY <1>4 DEF TInv, TypeOK, DestsFollow, vars, worker, sockets, launcher, history
<1>5. QED
  BY <1>1, <1>2, <1>3, <1>4 DEF Next

LEMMA TypesInitially == Init => TInv
<1> SUFFICES ASSUME Init PROVE TInv
  OBVIOUS
<1>1. DestsFollow /\ shutdowns \in 0 .. MaxShutdowns
  BY BoundsAssumption DEF Init, DestsFollow
<1>2. /\ queue \in [Workers -> Seq(Testcases)] /\ up \in [Workers -> Seq(Testcases)]
      /\ down \in [Workers -> Seq(Testcases \cup {Shutdown})]
      /\ batch \in Seq(Testcases \X Workers)
  BY DEF Init
<1>3. QED
  BY <1>1, <1>2 DEF Init, TInv, TypeOK, Processes, Phases

\* Whatever the topology and the bounds, every part of the state keeps its type: a
\* worker that is asked to shut down never takes the command for a testcase.
THEOREM SharingTypeCorrect == Spec => []TypeOK
<1>1. TInv => TypeOK
  BY DEF TInv
<1>2. QED
  BY <1>1, TypesInitially, TypesStep, PTL DEF Spec

-----------------------------------------------------------------------------
\* No echo.

\* As long as a worker has not restarted it remembers what it has sent and received.
Remembered ==
    \A w \in Workers : restarts[w] = 0 => shared[w] \cup received[w] \subseteq seen[w]

\* A queue that does not grow.
LEMMA NothingQueued ==
    ASSUME NEW w \in Workers, ~(Len(queue'[w]) > Len(queue[w]))
    PROVE  QueuesNews(w)
<1>1. Queued(w) = <<>>
  BY DEF Queued
<1>2. QED
  BY <1>1 DEF QueuesNews, Range

\* A queue that is extended by imports.
LEMMA ImportsQueued ==
    ASSUME NEW w \in Workers, queue[w] \in Seq(Testcases), NEW imports \in Seq(Testcases),
           queue'[w] = queue[w] \o imports
    PROVE  Queued(w) = imports
<1> DEFINE n == Len(queue[w])
           k == Len(imports)
<1>1. n \in Nat /\ k \in Nat /\ Len(queue'[w]) = n + k
  BY ConcatProperties
<1>2. CASE k = 0
  <2>1. imports = <<>>
    BY <1>2, EmptySeq
  <2>2. ~(Len(queue'[w]) > Len(queue[w]))
    BY <1>1, <1>2
  <2>3. QED
    BY <2>1, <2>2 DEF Queued
<1>3. CASE k > 0
  <2>1. SubSeq(queue[w] \o imports, n + 1, n + k) =
            SubSeq(imports, (n + 1) - n, (n + k) - n)
    BY <1>1, <1>3, SubSeqOfConcat2
  <2>2. (n + 1) - n = 1 /\ (n + k) - n = k
    BY <1>1
  <2>3. SubSeq(imports, 1, k) = imports
    BY SubSeqFull
  <2>4. Len(queue'[w]) > Len(queue[w])
    BY <1>1, <1>3
  <2>5. Queued(w) = SubSeq(queue[w] \o imports, n + 1, n + k)
    BY <1>1, <2>4 DEF Queued
  <2>6. QED
    BY <2>1, <2>2, <2>3, <2>5
<1>4. QED
  BY <1>1, <1>2, <1>3

\* What a worker sends, it remembers.
LEMMA SentIsRemembered ==
    ASSUME TypeOK, Remembered, NEW w \in Workers, NEW t \in Testcases, SendTestcase(w, t),
           UNCHANGED <<restarts, received>>
    PROVE  Remembered'
<1>1. /\ seen \in [Workers -> SUBSET Testcases] /\ shared \in [Workers -> SUBSET Testcases]
  BY DEF TypeOK
<1>2. \/ UNCHANGED <<seen, shared>>
      \/ /\ seen' = [seen EXCEPT ![w] = @ \cup {t}]
         /\ shared' = [shared EXCEPT ![w] = @ \cup {t}]
  BY DEF SendTestcase
<1>3. QED
  BY <1>1, <1>2 DEF Remembered

LEMMA EchoWorkerStep ==
    ASSUME TypeOK, Remembered, NEW w \in Workers, WorkerStep(w)
    PROVE  Remembered' /\ QueuesOnlyNews
<1> USE DEF QueuesOnlyNews
<1>0. /\ queue \in [Workers -> Seq(Testcases)] /\ restarts \in [Workers -> Nat]
      /\ seen \in [Workers -> SUBSET Testcases] /\ received \in [Workers -> SUBSET Testcases]
      /\ down[w] \in Seq(Testcases \cup {Shutdown})
  BY DEF TypeOK
<1>1. CASE \E t \in Testcases : Find(w, t)
  <2>1. queue' = queue /\ UNCHANGED <<restarts, received>>
    BY <1>1 DEF Find
  <2>2. \A v \in Workers : ~(Len(queue'[v]) > Len(queue[v]))
    BY <1>0, <2>1
  <2>3. QED
    BY <1>1, <2>1, <2>2, SentIsRemembered, NothingQueued DEF Find
<1>2. CASE Receive(w)
  <2>1. CASE Contains(down[w], Shutdown)
    <3>1. UNCHANGED <<queue, restarts, shared, received, seen>>
      BY <1>2, <2>1 DEF Receive
    <3>2. \A v \in Workers : ~(Len(queue'[v]) > Len(queue[v]))
      BY <1>0, <3>1
    <3>3. QED
      BY <3>1, <3>2, NothingQueued DEF Remembered
  <2>2. CASE ~Contains(down[w], Shutdown)
    <3> PICK imports \in Fresh(down[w], seen[w]) :
            /\ seen' = [seen EXCEPT ![w] = @ \cup Range(imports)]
            /\ queue' = [queue EXCEPT ![w] = @ \o imports]
            /\ received' = [received EXCEPT ![w] = @ \cup Range(imports)]
      BY <1>2, <2>2 DEF Receive
    <3>1. down[w] \in Seq(Testcases \cup {Shutdown}) /\ queue[w] \in Seq(Testcases)
      BY <1>0
    <3>2. /\ imports \in Seq(Testcases)
          /\ \A i \in DOMAIN imports : imports[i] \notin seen[w]
          /\ \A i, j \in DOMAIN imports : imports[i] = imports[j] => i = j
      BY <2>2, <3>1, FreshImports
    <3>3. UNCHANGED <<restarts, shared>>
      BY <1>2 DEF Receive
    <3>4. Remembered'
      BY <1>0, <3>3 DEF Remembered
    <3>5. Queued(w) = imports
      <4>1. queue'[w] = queue[w] \o imports
        BY <1>0
      <4>2. QED
        BY <3>1, <3>2, <4>1, ImportsQueued
    <3>6. restarts[w] = 0 => QueuesNews(w)
      BY <3>2, <3>5 DEF QueuesNews, Remembered, Range
    <3>7. \A v \in Workers \ {w} : QueuesNews(v)
      <4>1. \A v \in Workers \ {w} : queue'[v] = queue[v] /\ queue[v] \in Seq(Testcases)
        BY <1>0
      <4>2. \A v \in Workers \ {w} : ~(Len(queue'[v]) > Len(queue[v]))
        BY <4>1
      <4>3. QED
        BY <4>2, NothingQueued
    <3>8. QED
      BY <3>4, <3>6, <3>7
  <2>3. QED
    BY <2>1, <2>2
<1>3. CASE Evaluate(w)
  <2>1. queue[w] \in Seq(Testcases) /\ queue[w] # <<>> /\ UNCHANGED <<restarts, received>>
    BY <1>0, <1>3 DEF Evaluate
  <2>2. Head(queue[w]) \in Testcases /\ Len(Tail(queue[w])) = Len(queue[w]) - 1
    BY <2>1, HeadTailProperties
  <2>3. \A v \in Workers : ~(Len(queue'[v]) > Len(queue[v]))
    <3>1. queue' = [queue EXCEPT ![w] = Tail(@)]
      BY <1>3 DEF Evaluate
    <3>2. Len(queue[w]) \in Nat /\ \A v \in Workers : Len(queue[v]) \in Nat
      BY <1>0
    <3>3. QED
      BY <1>0, <2>2, <3>1, <3>2
  <2>4. CASE SendTestcase(w, Head(queue[w]))
    BY <2>1, <2>2, <2>3, <2>4, SentIsRemembered, NothingQueued
  <2>5. CASE UNCHANGED <<seen, shared, up>>
    BY <2>1, <2>3, <2>5, NothingQueued DEF Remembered
  <2>6. QED
    BY <1>3, <2>4, <2>5 DEF Evaluate
<1>4. CASE Restart(w)
  <2>1. queue[w] # <<>> => Len(Tail(queue[w])) = Len(queue[w]) - 1
    BY <1>0, HeadTailProperties
  <2>2. \A v \in Workers : ~(Len(queue'[v]) > Len(queue[v]))
    <3>1. \/ queue' = queue
          \/ queue[w] # <<>> /\ queue' = [queue EXCEPT ![w] = Tail(@)]
      BY <1>4 DEF Restart
    <3>2. \A v \in Workers : Len(queue[v]) \in Nat
      BY <1>0
    <3>3. CASE queue' = queue
      BY <3>2, <3>3
    <3>4. CASE queue[w] # <<>> /\ queue' = [queue EXCEPT ![w] = Tail(@)]
      <4>1. \A v \in Workers : queue'[v] = IF v = w THEN Tail(queue[w]) ELSE queue[v]
        BY <1>0, <3>4
      <4>2. QED
        BY <2>1, <3>2, <3>4, <4>1
    <3>5. QED
      BY <3>1, <3>3, <3>4
  <2>3. restarts'[w] # 0 /\ UNCHANGED <<shared, received>>
    BY <1>0, <1>4 DEF Restart, history
  <2>4. \A v \in Workers \ {w} : restarts'[v] = restarts[v] /\ seen'[v] = seen[v]
    BY <1>0, <1>4 DEF Restart
  <2>5. QED
    BY <2>2, <2>3, <2>4, NothingQueued DEF Remembered
<1>5. CASE Stop(w) \/ Finish(w) \/ Die(w)
  <2>1. UNCHANGED <<queue, restarts, shared, received, seen>>
    BY <1>5 DEF Stop, Finish, Die, Exit, history
  <2>2. \A v \in Workers : ~(Len(queue'[v]) > Len(queue[v]))
    BY <1>0, <2>1
  <2>3. QED
    BY <2>1, <2>2, NothingQueued DEF Remembered
<1>6. QED
  BY <1>1, <1>2, <1>3, <1>4, <1>5 DEF WorkerStep

\* The launcher changes nothing of what the workers remember.
LEMMA EchoStep ==
    ASSUME TypeOK, Remembered, [Next]_vars
    PROVE  Remembered' /\ QueuesOnlyNews
<1> USE DEF QueuesOnlyNews
<1>1. CASE \E w \in Workers : WorkerStep(w)
  BY <1>1, EchoWorkerStep
<1>2. CASE (\E w \in Workers : AskShutdown(w)) \/ LauncherStep \/ UNCHANGED vars
  <2>1. UNCHANGED <<queue, restarts, shared, received, seen>>
    BY <1>2 DEF AskShutdown, LauncherStep, Spawn, Poll, Route, Reap, EndSpawn, Wait, EndPoll,
                NextNotification, Consume, EndDrain, Loop, worker, history, vars
  <2>2. \A v \in Workers : ~(Len(queue'[v]) > Len(queue[v]))
    BY <2>1 DEF TypeOK
  <2>3. QED
    BY <2>1, <2>2, NothingQueued DEF Remembered
<1>3. QED
  BY <1>1, <1>2 DEF Next

\* A worker that has not restarted never queues what it has sent or received before,
\* and what it queues it queues once, whatever arrives in whatever order.
THEOREM NothingComesBack == Spec => NoEcho
<1>1. Init => Remembered
  BY DEF Init, Remembered
<1>2. TInv => TypeOK
  BY DEF TInv
<1>3. (TInv /\ Remembered) /\ [Next]_vars => (TInv /\ Remembered)'
  BY <1>2, TypesStep, EchoStep
<1>4. (TInv /\ Remembered) /\ [Next]_vars => [QueuesOnlyNews]_vars
  BY <1>2, EchoStep
<1>5. QED
  BY <1>1, <1>3, <1>4, TypesInitially, PTL DEF Spec, NoEcho

-----------------------------------------------------------------------------
\* The routes.

\* Whatever is closed under the routes and holds who has found t holds w.
Reaches(t, w) ==
    \A S \in SUBSET Workers :
        ({v \in Workers : t \in found[v]} \subseteq S /\ ClosedUnderRoutes(S)) => w \in S

\* t is with w: it has been received, or is in the queue, a socket or the batch.
At(t, w) ==
    \/ t \in received[w] \cup Range(queue[w]) \cup Range(up[w]) \cup Range(down[w])
    \/ <<t, w>> \in Range(batch)

\* Every testcase is where the routes lead it from those who found it.
UnderWay == \A w \in Workers : \A t \in Testcases : At(t, w) => Reaches(t, w)

LEMMA ReachesFinder ==
    ASSUME NEW w \in Workers, NEW t \in found[w]
    PROVE  Reaches(t, w)
  BY DEF Reaches

LEMMA ReachesDestination ==
    ASSUME NEW v \in Workers, NEW d \in Workers, <<GroupOf[v], GroupOf[d]>> \in Routes,
           NEW t, Reaches(t, v)
    PROVE  Reaches(t, d)
  BY DEF Reaches, ClosedUnderRoutes

\* Who has found a testcase keeps having found it.
LEMMA ReachesStill ==
    ASSUME NEW t, NEW w, Reaches(t, w), \A v \in Workers : found[v] \subseteq found'[v]
    PROVE  Reaches(t, w)'
  BY DEF Reaches, ClosedUnderRoutes

LEMMA FoundGrows ==
    ASSUME TypeOK, [Next]_vars
    PROVE  \A v \in Workers : found[v] \subseteq found'[v]
<1>1. ASSUME NEW w \in Workers, NEW t \in Testcases, Find(w, t)
      PROVE  \A v \in Workers : found[v] \subseteq found'[v]
  BY <1>1 DEF TypeOK, Find
<1>2. CASE found' = found
  BY <1>2
<1>3. ASSUME NEW w \in Workers, WorkerStep(w)
      PROVE  \A v \in Workers : found[v] \subseteq found'[v]
  BY <1>1, <1>2, <1>3 DEF WorkerStep, Receive, Evaluate, Restart, Stop, Finish, Die, Exit, history
<1>4. CASE (\E w \in Workers : AskShutdown(w)) \/ LauncherStep \/ UNCHANGED vars
  BY <1>2, <1>4 DEF AskShutdown, LauncherStep, Spawn, Poll, Route, Reap, EndSpawn, Wait, EndPoll,
                    NextNotification, Consume, EndDrain, Loop, history, vars
<1>5. QED
  BY <1>3, <1>4 DEF Next

\* What the operations on sequences do to their elements.
LEMMA ElementsAppended ==
    ASSUME NEW S, NEW s \in Seq(S), NEW e \in S
    PROVE  Range(Append(s, e)) \subseteq Range(s) \cup {e}
  BY AppendProperties DEF Range

LEMMA ElementsConcatenated ==
    ASSUME NEW S, NEW s \in Seq(S), NEW r \in Seq(S)
    PROVE  Range(s \o r) \subseteq Range(s) \cup Range(r)
  BY Concatenated DEF Range

LEMMA ElementsOfTail ==
    ASSUME NEW S, NEW s \in Seq(S), s # <<>>
    PROVE  Head(s) \in Range(s) /\ Range(Tail(s)) \subseteq Range(s)
  BY HeadTailProperties DEF Range

LEMMA NoElements == Range(<<>>) = {}
  BY DEF Range

\* A step leaves a testcase where it was, or brings it to who finds it or along a route.
Comes(t, w) ==
    \/ At(t, w)
    \/ t \in found'[w]
    \/ \E v \in Workers : At(t, v) /\ <<GroupOf[v], GroupOf[w]>> \in Routes

\* A worker sends what it has found or queued.
LEMMA SentComes ==
    ASSUME TypeOK, NEW w \in Workers, NEW t \in Testcases, SendTestcase(w, t),
           NEW v \in Workers, NEW u \in Range(up'[v])
    PROVE  u \in Range(up[v]) \/ (v = w /\ u = t)
<1>1. up \in [Workers -> Seq(Testcases)]
  BY DEF TypeOK
<1>2. up' = up \/ up' = [up EXCEPT ![w] = Append(@, t)]
  BY DEF SendTestcase
<1>3. up'[v] = up[v] \/ (v = w /\ up'[v] = Append(up[v], t))
  BY <1>1, <1>2
<1>4. QED
  BY <1>1, <1>3, ElementsAppended

\* A command sent by the controller.
LEMMA CommandComes ==
    ASSUME TypeOK, NEW d \in Workers, NEW command \in Testcases \cup {Shutdown}, Send(d, command),
           NEW v \in Workers, NEW u \in Range(down'[v])
    PROVE  u \in Range(down[v]) \/ (v = d /\ u = command)
<1>1. down \in [Workers -> Seq(Testcases \cup {Shutdown})]
  BY DEF TypeOK
<1>2. down' = down \/ down' = [down EXCEPT ![d] = Append(@, command)]
  BY DEF Send
<1>3. down'[v] = down[v] \/ (v = d /\ down'[v] = Append(down[v], command))
  BY <1>1, <1>2
<1>4. QED
  BY <1>1, <1>3, ElementsAppended

LEMMA WorkerBrings ==
    ASSUME TypeOK, NEW a \in Workers, WorkerStep(a),
           NEW w \in Workers, NEW t \in Testcases, At(t, w)'
    PROVE  Comes(t, w)
<1>0. /\ queue \in [Workers -> Seq(Testcases)] /\ found \in [Workers -> SUBSET Testcases]
      /\ received \in [Workers -> SUBSET Testcases]
      /\ down \in [Workers -> Seq(Testcases \cup {Shutdown})]
  BY DEF TypeOK
<1>1. CASE \E u \in Testcases : Find(a, u)
  <2> PICK u \in Testcases : Find(a, u)
    BY <1>1
  <2>1. SendTestcase(a, u) /\ UNCHANGED <<queue, received, down, batch>> /\ u \in found'[a]
    BY <1>0 DEF Find, launcher
  <2>2. \A v \in Range(up'[w]) : v \in Range(up[w]) \/ (w = a /\ v = u)
    BY <2>1, SentComes
  <2>3. QED
    BY <2>1, <2>2 DEF At, Comes
<1>2. CASE Receive(a)
  <2>1. UNCHANGED <<up, batch>> /\ down' = [down EXCEPT ![a] = <<>>]
    BY <1>2 DEF Receive, launcher
  <2>2. Range(down'[w]) \subseteq Range(down[w])
    BY <1>0, <2>1, NoElements
  <2>3. CASE Contains(down[a], Shutdown)
    BY <1>2, <2>1, <2>2, <2>3 DEF Receive, At, Comes
  <2>4. CASE ~Contains(down[a], Shutdown)
    <3> PICK imports \in Fresh(down[a], seen[a]) :
            /\ queue' = [queue EXCEPT ![a] = @ \o imports]
            /\ received' = [received EXCEPT ![a] = @ \cup Range(imports)]
      BY <1>2, <2>4 DEF Receive
    <3>1. down[a] \in Seq(Testcases \cup {Shutdown}) /\ queue[a] \in Seq(Testcases)
      BY <1>0
    <3>2. /\ imports \in Seq(Testcases)
          /\ \A i \in DOMAIN imports : \E k \in DOMAIN down[a] : down[a][k] = imports[i]
      BY <2>4, <3>1, FreshImports
    <3>3. Range(imports) \subseteq Range(down[a])
      BY <3>2 DEF Range
    <3>4. Range(queue[a] \o imports) \subseteq Range(queue[a]) \cup Range(imports)
      BY <3>1, <3>2, ElementsConcatenated
    <3>5. w # a => queue'[w] = queue[w] /\ received'[w] = received[w]
      BY <1>0
    <3>6. w = a => queue'[w] = queue[w] \o imports /\ received'[w] = received[w] \cup Range(imports)
      BY <1>0
    <3>7. QED
      BY <2>1, <2>2, <3>3, <3>4, <3>5, <3>6 DEF At, Comes
  <2>5. QED
    BY <2>3, <2>4
<1>3. CASE Evaluate(a)
  <2>1. /\ queue[a] \in Seq(Testcases) /\ queue[a] # <<>>
        /\ queue' = [queue EXCEPT ![a] = Tail(@)] /\ UNCHANGED <<received, down, batch>>
    BY <1>0, <1>3 DEF Evaluate, launcher
  <2>2. Head(queue[a]) \in Testcases /\ Head(queue[a]) \in Range(queue[a])
        /\ Range(Tail(queue[a])) \subseteq Range(queue[a])
    BY <2>1, HeadTailProperties, ElementsOfTail
  <2>3. Range(queue'[w]) \subseteq Range(queue[w])
    BY <1>0, <2>1, <2>2
  <2>4. CASE SendTestcase(a, Head(queue[a]))
    <3>1. \A u \in Range(up'[w]) : u \in Range(up[w]) \/ u \in Range(queue[w])
      BY <2>2, <2>4, SentComes
    <3>2. QED
      BY <2>1, <2>3, <3>1 DEF At, Comes
  <2>5. CASE UNCHANGED <<seen, shared, up>>
    BY <2>1, <2>3, <2>5 DEF At, Comes
  <2>6. QED
    BY <1>3, <2>4, <2>5 DEF Evaluate
<1>4. CASE Restart(a)
  <2>1. \/ queue' = queue
        \/ queue[a] # <<>> /\ queue' = [queue EXCEPT ![a] = Tail(@)]
    BY <1>4 DEF Restart
  <2>2. queue[a] # <<>> => Range(Tail(queue[a])) \subseteq Range(queue[a])
    BY <1>0, ElementsOfTail
  <2>3. Range(queue'[w]) \subseteq Range(queue[w])
    BY <1>0, <2>1, <2>2
  <2>4. UNCHANGED <<received, up, down, batch>>
    BY <1>4 DEF Restart, sockets, launcher, history
  <2>5. QED
    BY <2>3, <2>4 DEF At, Comes
<1>5. CASE Stop(a) \/ Finish(a) \/ Die(a)
  <2>1. UNCHANGED <<received, queue, up, batch>> /\ down' = [down EXCEPT ![a] = <<>>]
    BY <1>5 DEF Stop, Finish, Die, Exit, history
  <2>2. Range(down'[w]) \subseteq Range(down[w])
    BY <1>0, <2>1, NoElements
  <2>3. QED
    BY <2>1, <2>2 DEF At, Comes
<1>6. QED
  BY <1>1, <1>2, <1>3, <1>4, <1>5 DEF WorkerStep

\* The controller takes the notifications over, and sends them where the routes lead.
LEMMA LauncherBrings ==
    ASSUME TInv, LauncherStep,
           NEW w \in Workers, NEW t \in Testcases, At(t, w)'
    PROVE  Comes(t, w)
<1>0. /\ up \in [Workers -> Seq(Testcases)] /\ batch \in Seq(Testcases \X Workers)
  BY DEF TInv, TypeOK
<1>1. CASE \E a \in Workers : Poll(a)
  <2> PICK a \in Workers : Poll(a)
    BY <1>1
  <2> DEFINE taken == [i \in DOMAIN up[a] |-> <<up[a][i], a>>]
  <2>1. UNCHANGED <<received, queue, down>>
    BY DEF Poll, worker, history
  <2>2. Range(up'[w]) \subseteq Range(up[w])
    BY <1>0, NoElements DEF Poll
  <2>3. taken \in Seq(Testcases \X Workers)
    BY <1>0, TakenType
  <2>4. Range(batch \o taken) \subseteq Range(batch) \cup Range(taken)
    BY <1>0, <2>3, ElementsConcatenated
  <2>5. <<t, w>> \in Range(taken) => t \in Range(up[w])
    BY DEF Range
  <2>6. batch' = <<>> \/ batch' = batch \o taken
    BY DEF Poll, Fail
  <2>7. <<t, w>> \in Range(batch') => <<t, w>> \in Range(batch) \/ t \in Range(up[w])
    <3> HIDE DEF taken
    <3> QED
      BY <2>4, <2>5, <2>6, NoElements
  <2>8. QED
    BY <2>1, <2>2, <2>7 DEF At, Comes
<1>2. CASE \E d \in Workers : Route(d)
  <2> PICK d \in Workers : Route(d)
    BY <1>2
  <2>1. batch # <<>> /\ <<GroupOf[batch[1][2]], GroupOf[d]>> \in Routes
    BY DEF Route, TInv, DestsFollow
  <2>2. /\ batch[1] \in Range(batch) /\ batch[1][1] \in Testcases /\ batch[1][2] \in Workers
        /\ batch[1] = <<batch[1][1], batch[1][2]>>
    BY <1>0, <2>1 DEF Range
  <2>3. UNCHANGED <<received, queue, up>> /\ Send(d, batch[1][1])
    BY DEF Route, worker, history
  <2>4. batch' = batch \/ batch' = <<>>
    BY <2>3 DEF Send, Fail
  <2>5. \A u \in Range(down'[w]) : u \in Range(down[w]) \/ (w = d /\ u = batch[1][1])
    BY <2>2, <2>3, CommandComes DEF TInv
  <2>6. At(batch[1][1], batch[1][2])
    BY <2>2 DEF At
  <2>7. QED
    BY <2>1, <2>2, <2>3, <2>4, <2>5, <2>6, NoElements DEF At, Comes
<1>3. CASE \E a \in Workers : Reap(a)
  <2>1. UNCHANGED <<received, queue, down, batch>> /\ Range(up'[w]) \subseteq Range(up[w])
    BY <1>0, <1>3, NoElements DEF Reap, history
  <2>2. QED
    BY <2>1 DEF At, Comes
<1>4. CASE NextNotification
  <2>1. UNCHANGED <<received, queue, up, down>>
    BY <1>4 DEF NextNotification, worker, sockets, history
  <2>2. Len(batch) <= 1 \/ batch # <<>>
    BY <1>0
  <2>3. batch' = <<>> \/ (batch # <<>> /\ batch' = Tail(batch))
    BY <1>4, <2>2 DEF NextNotification
  <2>4. Range(batch') \subseteq Range(batch)
    BY <1>0, <2>3, ElementsOfTail, NoElements
  <2>5. QED
    BY <2>1, <2>4 DEF At, Comes
<1>5. CASE (\E a \in Workers : Spawn(a)) \/ EndSpawn \/ Wait \/ EndPoll \/ Consume \/ EndDrain \/ Loop
  <2>1. UNCHANGED <<received, queue, up, down, batch>>
    BY <1>5 DEF Spawn, EndSpawn, Wait, EndPoll, Consume, EndDrain, Loop, worker, sockets,
                launcher, history
  <2>2. QED
    BY <2>1 DEF At, Comes
<1>6. QED
  BY <1>1, <1>2, <1>3, <1>4, <1>5 DEF LauncherStep

\* A request to shut down is no testcase.
LEMMA RequestBrings ==
    ASSUME TypeOK, NEW d \in Workers, AskShutdown(d),
           NEW w \in Workers, NEW t \in Testcases, At(t, w)'
    PROVE  Comes(t, w)
<1>1. UNCHANGED <<received, queue, up>> /\ Send(d, Shutdown)
  BY DEF AskShutdown, worker, history
<1>2. batch' = batch \/ batch' = <<>>
  BY <1>1 DEF Send, Fail
<1>3. \A u \in Range(down'[w]) : u \in Range(down[w]) \/ u = Shutdown
  BY <1>1, CommandComes
<1>4. QED
  BY <1>1, <1>2, <1>3, NoElements, MessageAssumption DEF At, Comes

LEMMA UnderWayStep ==
    ASSUME TInv, UnderWay, [Next]_vars
    PROVE  UnderWay'
<1> SUFFICES ASSUME NEW w \in Workers, NEW t \in Testcases, At(t, w)'
             PROVE  Reaches(t, w)'
  BY DEF UnderWay
<1>1. TypeOK /\ \A v \in Workers : found[v] \subseteq found'[v]
  BY FoundGrows DEF TInv
<1>2. Comes(t, w)
  <2>1. CASE \E a \in Workers : WorkerStep(a)
    BY <1>1, <2>1, WorkerBrings
  <2>2. CASE \E d \in Workers : AskShutdown(d)
    BY <1>1, <2>2, RequestBrings
  <2>3. CASE LauncherStep
    BY <2>3, LauncherBrings
  <2>4. CASE UNCHANGED vars
    BY <2>4 DEF vars, worker, sockets, launcher, history, At, Comes
  <2>5. QED
    BY <2>1, <2>2, <2>3, <2>4 DEF Next
<1>3. CASE t \in found'[w]
  BY <1>3 DEF Reaches
<1>4. CASE Reaches(t, w)
  BY <1>1, <1>4, ReachesStill
<1>5. CASE \E v \in Workers : At(t, v) /\ <<GroupOf[v], GroupOf[w]>> \in Routes
  BY <1>4, <1>5, ReachesDestination DEF UnderWay
<1>6. QED
  BY <1>2, <1>3, <1>4, <1>5 DEF Comes, UnderWay

\* Whatever is restarted, lost or routed late, a testcase is received only where the
\* routes lead from those who found it.
THEOREM TestcasesKeepToRoutes == Spec => []OnlyAlongRoutes
<1>1. Init => UnderWay
  BY NoElements DEF Init, UnderWay, At
<1>2. (TInv /\ UnderWay) /\ [Next]_vars => (TInv /\ UnderWay)'
  BY TypesStep, UnderWayStep
<1>3. TInv /\ UnderWay => OnlyAlongRoutes
  BY DEF TInv, TypeOK, UnderWay, At, Reaches, OnlyAlongRoutes
<1>4. QED
  BY <1>1, <1>2, <1>3, TypesInitially, PTL DEF Spec

-----------------------------------------------------------------------------
\* The arrival of what is shared.

\* The testcase is in a notification that the launcher has yet to route to d.
ToBeRouted(t, w, d) ==
    \E i \in DOMAIN batch : batch[i] = <<t, w>> /\ (pc = "poll" \/ i > 1 \/ d \in dests)

\* The testcase w has shared is between w and d.
OnItsWay(t, w, d) == t \in Range(up[w]) \cup Range(down[d]) \/ ToBeRouted(t, w, d)

\* As long as the launcher, a worker and a destination of it stay, what the worker has
\* shared is known to the destination, or is still on its way there: in the socket of
\* the worker, in the notifications being routed or in the socket of the destination.
SharedIsUnderWay ==
    \A w, d \in Workers : \A t \in shared[w] :
        (/\ <<GroupOf[w], GroupOf[d]>> \in Routes
         /\ process[w] # "reaped" /\ process[d] \in {"new", "running"} /\ pc # "failed")
        => t \in received[d] \cup shared[d] \/ OnItsWay(t, w, d)

\* A worker has sent or received what it takes for seen.
SeenIsKnown == \A w \in Workers : seen[w] \subseteq shared[w] \cup received[w]

\* Notifications are held only between the polls and the end of the routing.
BatchIsRouted == batch # <<>> => pc \in {"poll", "route"}

ArrivalInv == SeenIsKnown /\ BatchIsRouted /\ SharedIsUnderWay

\* A step that shares something finds room for it in the socket of the worker.
HasRoom == \A w \in Workers : shared'[w] # shared[w] => Len(up[w]) < Capacity

NothingIsDropped == [][HasRoom]_vars

LEMMA StillAppended ==
    ASSUME NEW S, NEW s \in Seq(S), NEW e \in S
    PROVE  Range(s) \subseteq Range(Append(s, e)) /\ e \in Range(Append(s, e))
<1>1. /\ Len(Append(s, e)) = Len(s) + 1 /\ Append(s, e) \in Seq(S)
      /\ \A i \in 1 .. Len(s) : Append(s, e)[i] = s[i]
      /\ Append(s, e)[Len(s) + 1] = e
  BY AppendProperties
<1>2. Len(s) \in Nat /\ DOMAIN s = 1 .. Len(s) /\ DOMAIN Append(s, e) = 1 .. Len(s) + 1
  BY <1>1
<1>3. QED
  BY <1>1, <1>2 DEF Range

LEMMA ConcatenatedParts ==
    ASSUME NEW S, NEW s \in Seq(S), NEW r \in Seq(S)
    PROVE  /\ Len(s \o r) = Len(s) + Len(r) /\ DOMAIN (s \o r) = 1 .. Len(s \o r)
           /\ \A i \in 1 .. Len(s) : (s \o r)[i] = s[i]
           /\ \A j \in 1 .. Len(r) : (s \o r)[Len(s) + j] = r[j]
<1>1. /\ s \o r \in Seq(S) /\ Len(s \o r) = Len(s) + Len(r)
      /\ \A i \in 1 .. Len(s) + Len(r) :
            (s \o r)[i] = IF i <= Len(s) THEN s[i] ELSE r[i - Len(s)]
  BY ConcatProperties
<1>2. Len(s) \in Nat /\ Len(r) \in Nat
  OBVIOUS
<1>3. \A j \in 1 .. Len(r) : /\ Len(s) + j \in 1 .. Len(s) + Len(r)
                             /\ ~(Len(s) + j <= Len(s)) /\ (Len(s) + j) - Len(s) = j
  BY <1>2
<1>4. \A i \in 1 .. Len(s) : i \in 1 .. Len(s) + Len(r) /\ i <= Len(s)
  BY <1>2
<1>5. QED
  BY <1>1, <1>3, <1>4

\* What was on its way and is neither taken nor lost is still on its way.
LEMMA StaysOnItsWay ==
    ASSUME NEW t, NEW w, NEW d, OnItsWay(t, w, d),
           Range(up[w]) \subseteq Range(up'[w]), Range(down[d]) \subseteq Range(down'[d]),
           UNCHANGED <<batch, dests>>, pc' = pc \/ pc # "poll"
    PROVE  OnItsWay(t, w, d)'
  BY DEF OnItsWay, ToBeRouted

\* What the step does not undo: who has not been waited for now had not been before,
\* who runs has not stopped, and what is shared and received stays so.
LEMMA Onward ==
    ASSUME TInv, [Next]_vars
    PROVE  /\ \A w \in Workers : /\ process'[w] # "reaped" => process[w] # "reaped"
                                 /\ process'[w] \in {"new", "running"} => process[w] \in {"new", "running"}
                                 /\ shared[w] \subseteq shared'[w]
                                 /\ received[w] \subseteq received'[w]
           /\ pc' # "failed" => pc # "failed"
<1>0. /\ process \in [Workers -> Processes]
      /\ shared \in [Workers -> SUBSET Testcases]
      /\ received \in [Workers -> SUBSET Testcases]
  BY DEF TInv, TypeOK
<1> DEFINE P == \A w \in Workers :
                    /\ process'[w] # "reaped" => process[w] # "reaped"
                    /\ process'[w] \in {"new", "running"} => process[w] \in {"new", "running"}
           G(a, b) == \A w \in Workers : a[w] \subseteq b[w]
<1>1. ASSUME NEW w \in Workers, NEW status, Exit(w, status), process[w] \in {"running", "stopping"}
      PROVE  P
  BY <1>0, <1>1 DEF Exit
<1>2. ASSUME NEW w \in Workers, NEW t, SendTestcase(w, t) PROVE G(shared, shared')
  <2>1. shared' = shared \/ shared' = [shared EXCEPT ![w] = @ \cup {t}]
    BY <1>2 DEF SendTestcase
  <2>2. QED
    BY <1>0, <2>1
<1>3. ASSUME NEW w \in Workers, WorkerStep(w)
      PROVE  P /\ G(shared, shared') /\ G(received, received') /\ pc # "failed"
  <2>1. CASE \E t \in Testcases : Find(w, t)
    BY <1>2, <2>1 DEF Find, Alive
  <2>2. CASE Receive(w)
    <3>1. process[w] = "running" /\ shared' = shared /\ pc # "failed"
      BY <2>2 DEF Receive, Alive
    <3>2. process' = process \/ process' = [process EXCEPT ![w] = "stopping"]
      BY <2>2 DEF Receive
    <3>3. received' = received \/ \E s : received' = [received EXCEPT ![w] = @ \cup s]
      BY <2>2 DEF Receive
    <3>4. QED
      BY <1>0, <3>1, <3>2, <3>3
  <2>3. CASE Evaluate(w)
    BY <1>2, <2>3 DEF Evaluate, Alive
  <2>4. CASE Restart(w)
    BY <2>4 DEF Restart, Alive, history
  <2>5. CASE Stop(w) \/ Finish(w) \/ Die(w)
    BY <1>1, <2>5 DEF Stop, Finish, Die, Alive, Exit, history
  <2>6. QED
    BY <1>3, <2>1, <2>2, <2>3, <2>4, <2>5 DEF WorkerStep
<1>4. CASE (\E w \in Workers : AskShutdown(w)) \/ LauncherStep
  <2>1. shared' = shared /\ received' = received /\ pc # "failed"
    BY <1>4 DEF AskShutdown, LauncherStep, Spawn, Poll, Route, Reap, EndSpawn, Wait, EndPoll,
                NextNotification, Consume, EndDrain, Loop, history
  <2>2. \/ process' = process
        \/ \E w \in Workers : process[w] = "new" /\ process' = [process EXCEPT ![w] = "running"]
        \/ \E w \in Workers : process' = [process EXCEPT ![w] = "reaped"]
    BY <1>4 DEF AskShutdown, LauncherStep, Spawn, Poll, Route, Reap, EndSpawn, Wait, EndPoll,
                NextNotification, Consume, EndDrain, Loop, worker
  <2>3. P
    BY <1>0, <2>2
  <2>4. QED
    BY <2>1, <2>3
<1>5. CASE UNCHANGED vars
  BY <1>5 DEF vars, worker, launcher, history
<1>6. QED
  BY <1>3, <1>4, <1>5 DEF Next

\* What is sent is taken for seen, and is in the socket if there was room.
LEMMA SentIsUnderWay ==
    ASSUME TypeOK, NEW w \in Workers, NEW t \in Testcases, SendTestcase(w, t), HasRoom
    PROVE  \A v \in Workers :
              /\ Range(up[v]) \subseteq Range(up'[v])
              /\ \A u \in shared'[v] : u \notin shared[v] => u \in Range(up'[v])
              /\ seen'[v] \subseteq seen[v] \cup shared'[v]
<1>0. /\ seen \in [Workers -> SUBSET Testcases] /\ shared \in [Workers -> SUBSET Testcases]
      /\ up \in [Workers -> Seq(Testcases)]
  BY DEF TypeOK
<1>1. CASE ~ShouldReport(w)
  BY <1>1 DEF SendTestcase
<1>2. CASE ShouldReport(w)
  <2>1. /\ seen' = [seen EXCEPT ![w] = @ \cup {t}] /\ shared' = [shared EXCEPT ![w] = @ \cup {t}]
        /\ up' = IF Len(up[w]) < Capacity THEN [up EXCEPT ![w] = Append(@, t)] ELSE up
    BY <1>2 DEF SendTestcase
  <2>2. Range(up[w]) \subseteq Range(Append(up[w], t)) /\ t \in Range(Append(up[w], t))
    BY <1>0, StillAppended
  <2>3. t \notin shared[w] => Len(up[w]) < Capacity
    BY <1>0, <2>1 DEF HasRoom
  <2>4. \A v \in Workers : Range(up[v]) \subseteq Range(up'[v])
    BY <1>0, <2>1, <2>2
  <2>5. \A v \in Workers : \A u \in shared'[v] : u \notin shared[v] => u \in Range(up'[v])
    BY <1>0, <2>1, <2>2, <2>3
  <2>6. \A v \in Workers : seen'[v] \subseteq seen[v] \cup shared'[v]
    BY <1>0, <2>1
  <2>7. QED
    BY <2>4, <2>5, <2>6
<1>3. QED
  BY <1>1, <1>2

\* The imports of a batch of commands are all of its testcases that are not known.
LEMMA FreshImportsAll ==
    ASSUME NEW commands \in Seq(Testcases \cup {Shutdown}), ~Contains(commands, Shutdown),
           NEW known, NEW imports \in Fresh(commands, known)
    PROVE  Range(commands) \ known \subseteq Range(imports)
<1> DEFINE new == Range(commands) \ known
           n == Cardinality(new)
<1>1. imports \in [1 .. n -> new]
  BY DEF Fresh
<1>2. IsFiniteSet(new)
  <2>1. IsFiniteSet(DOMAIN commands)
    BY FS_Interval
  <2>2. commands \in Surjection(DOMAIN commands, Range(commands))
    BY DEF Surjection, Range
  <2>3. QED
    BY <2>1, <2>2, FS_Surjection, FS_Difference
<1>3. n \in Nat /\ IsFiniteSet(1 .. n) /\ Cardinality(1 .. n) = n
  BY <1>2, FS_CardinalityType, FS_Interval
<1>4. \A i, j \in DOMAIN imports : imports[i] = imports[j] => i = j
  BY FreshImports
<1> HIDE DEF new, n
<1>5. imports \in Injection(1 .. n, new)
  BY <1>1, <1>4 DEF Injection, IsInjective
<1>6. imports \in Surjection(1 .. n, new)
  BY <1>2, <1>3, <1>5, FS_Injection DEF n
<1>7. QED
  BY <1>6 DEF Surjection, Range, new

\* What a worker does not queue of what it reads it has seen.
LEMMA ReadIsKnown ==
    ASSUME TypeOK, SeenIsKnown, NEW d \in Workers, Receive(d), process'[d] = "running",
           NEW t \in Range(down[d])
    PROVE  t \in received'[d] \cup shared'[d]
<1>0. /\ process \in [Workers -> Processes]
      /\ received \in [Workers -> SUBSET Testcases]
  BY DEF TypeOK
<1>1. ~Contains(down[d], Shutdown)
  BY <1>0 DEF Receive
<1> PICK imports \in Fresh(down[d], seen[d]) :
        received' = [received EXCEPT ![d] = @ \cup Range(imports)]
  BY <1>1 DEF Receive
<1>2. shared' = shared
  BY DEF Receive
<1>3. CASE t \in seen[d]
  BY <1>0, <1>2, <1>3 DEF SeenIsKnown
<1>4. CASE t \notin seen[d]
  <2>1. t \in Range(imports)
    BY <1>1, <1>4, FreshImportsAll DEF TypeOK
  <2>2. QED
    BY <1>0, <2>1
<1>5. QED
  BY <1>3, <1>4

\* What is on its way through the batch is brought to its destinations.
LEMMA RoutingBrings ==
    ASSUME TInv, KInv, BatchIsRouted, LauncherStep, pc' # "failed",
           NEW t \in Testcases, NEW w \in Workers, NEW d \in Workers,
           <<GroupOf[w], GroupOf[d]>> \in Routes,
           process'[w] # "reaped", process[d] \in {"new", "running"},
           OnItsWay(t, w, d)
    PROVE  OnItsWay(t, w, d)'
<1>0. /\ up \in [Workers -> Seq(Testcases)] /\ batch \in Seq(Testcases \X Workers)
      /\ down \in [Workers -> Seq(Testcases \cup {Shutdown})]
      /\ process \in [Workers -> Processes] /\ Len(batch) \in Nat /\ DOMAIN batch = 1 .. Len(batch)
  BY DEF TInv, TypeOK
<1>1. CASE \E a \in Workers : Poll(a)
  <2> PICK a \in Workers : Poll(a)
    BY <1>1
  <2> DEFINE taken == [i \in DOMAIN up[a] |-> <<up[a][i], a>>]
  <2>1. /\ pc = "poll" /\ pc' = pc /\ dests' = dests /\ down' = down
        /\ batch' = batch \o taken /\ up' = [up EXCEPT ![a] = <<>>]
    BY DEF Poll, Fail
  <2>2. taken \in Seq(Testcases \X Workers) /\ Len(taken) = Len(up[a]) /\ Len(up[a]) \in Nat
    <3>1. up[a] \in Seq(Testcases)
      BY <1>0
    <3>2. taken \in Seq(Testcases \X Workers)
      BY <3>1, TakenType
    <3>3. DOMAIN taken = 1 .. Len(up[a]) /\ Len(up[a]) \in Nat
      BY <3>1
    <3>4. Len(taken) = Len(up[a])
      BY <3>2, <3>3, LenProperties
    <3>5. QED
      BY <3>2, <3>3, <3>4
  <2>3. /\ Len(batch') = Len(batch) + Len(taken) /\ DOMAIN batch' = 1 .. Len(batch')
        /\ \A i \in 1 .. Len(batch) : batch'[i] = batch[i]
        /\ \A j \in 1 .. Len(taken) : batch'[Len(batch) + j] = taken[j]
    BY <1>0, <2>1, <2>2, ConcatenatedParts
  <2>4. CASE t \in Range(up[w])
    <3>1. CASE w = a
      <4> PICK j \in DOMAIN up[a] : up[a][j] = t
        BY <2>4, <3>1 DEF Range
      <4>1. taken[j] = <<t, w>> /\ j \in 1 .. Len(taken)
        BY <1>0, <2>2, <3>1
      <4>2. Len(batch) + j \in DOMAIN batch' /\ batch'[Len(batch) + j] = <<t, w>>
        BY <1>0, <2>2, <2>3, <4>1
      <4>3. QED
        BY <2>1, <4>2 DEF OnItsWay, ToBeRouted
    <3>2. CASE w # a
      BY <1>0, <2>1, <2>4, <3>2 DEF OnItsWay
    <3>3. QED
      BY <3>1, <3>2
  <2>5. CASE t \in Range(down[d])
    BY <2>1, <2>5 DEF OnItsWay
  <2>6. CASE ToBeRouted(t, w, d)
    <3> PICK i \in DOMAIN batch : batch[i] = <<t, w>>
      BY <2>6 DEF ToBeRouted
    <3>1. i \in DOMAIN batch' /\ batch'[i] = <<t, w>>
      BY <1>0, <2>2, <2>3
    <3>2. QED
      BY <2>1, <3>1 DEF OnItsWay, ToBeRouted
  <2>7. QED
    BY <2>4, <2>5, <2>6 DEF OnItsWay
<1>2. CASE EndPoll
  <2>1. pc = "poll" /\ UNCHANGED <<up, down, batch>> /\ pc' = "route"
        /\ dests' = IF batch = <<>> THEN {} ELSE Destinations(batch[1][2])
    BY <1>2 DEF EndPoll, sockets
  <2>2. ASSUME NEW i \in DOMAIN batch, batch[i] = <<t, w>> PROVE i > 1 \/ d \in dests'
    <3>1. i > 1 \/ i = 1
      BY <1>0
    <3>2. CASE i = 1
      <4>1. batch # <<>> /\ batch[1][2] = w
        BY <2>2, <3>2
      <4>2. QED
        BY <2>1, <4>1 DEF Destinations
    <3>3. QED
      BY <3>1, <3>2
  <2>3. QED
    BY <2>1, <2>2 DEF OnItsWay, ToBeRouted
<1>3. CASE \E x \in Workers : Route(x)
  <2> PICK x \in Workers : Route(x)
    BY <1>3
  <2>0. pc = "route" /\ x \in dests /\ Send(x, batch[1][1]) /\ up' = up
    BY DEF Route
  <2>1. batch # <<>> /\ batch[1][1] \in Testcases
    <3>1. batch # <<>>
      BY <2>0 DEF TInv, DestsFollow
    <3>2. QED
      BY <1>0, <3>1
  <2>2. /\ dests' = dests \ {x} /\ UNCHANGED <<pc, batch>>
        /\ down' = [down EXCEPT ![x] = Append(@, batch[1][1])] \/ (Closed(x) /\ down' = down)
    BY <2>0 DEF Send, Fail
  <2>3. Range(down[d]) \subseteq Range(down'[d])
    <3>1. down'[d] = down[d] \/ down'[d] = Append(down[d], batch[1][1])
      BY <1>0, <2>2
    <3>2. down[d] \in Seq(Testcases \cup {Shutdown}) /\ batch[1][1] \in Testcases \cup {Shutdown}
      BY <1>0, <2>1
    <3>3. Range(down[d]) \subseteq Range(Append(down[d], batch[1][1]))
      BY <3>2, StillAppended
    <3>4. QED
      BY <3>1, <3>3
  <2>4. CASE t \in Range(up[w]) \cup Range(down[d])
    BY <2>0, <2>3, <2>4 DEF OnItsWay
  <2>5. CASE ToBeRouted(t, w, d)
    <3> PICK i \in DOMAIN batch : batch[i] = <<t, w>> /\ (i > 1 \/ d \in dests)
      BY <2>0, <2>5 DEF ToBeRouted
    <3>1. CASE i > 1 \/ x # d
      BY <2>2, <3>1 DEF OnItsWay, ToBeRouted
    <3>2. CASE i = 1 /\ x = d
      <4>1. ~Closed(d)
        BY DEF Closed
      <4>2. down'[d] = Append(down[d], t)
        BY <1>0, <2>2, <3>2, <4>1
      <4>3. QED
        BY <1>0, <4>2, StillAppended DEF OnItsWay
    <3>3. QED
      BY <1>0, <3>1, <3>2
  <2>6. QED
    BY <2>4, <2>5 DEF OnItsWay
<1>4. CASE NextNotification
  <2>0. pc = "route" /\ dests = {} /\ UNCHANGED <<up, down>>
    BY <1>4 DEF NextNotification, sockets
  <2>1. CASE t \in Range(up[w]) \cup Range(down[d])
    BY <2>0, <2>1 DEF OnItsWay
  <2>2. CASE ToBeRouted(t, w, d)
    <3> PICK i \in DOMAIN batch : batch[i] = <<t, w>> /\ i > 1
      BY <2>0, <2>2 DEF ToBeRouted
    <3>1. ~(Len(batch) <= 1)
      BY <1>0
    <3>2. batch' = Tail(batch) /\ dests' = Destinations(batch[2][2]) /\ pc' = pc
      BY <1>4, <3>1 DEF NextNotification
    <3>3. /\ Len(batch') = Len(batch) - 1 /\ DOMAIN batch' = 1 .. Len(batch')
          /\ \A j \in 1 .. Len(batch') : batch'[j] = batch[j + 1]
      <4>1. batch # <<>>
        BY <1>0, <3>1
      <4>2. QED
        BY <1>0, <3>2, <4>1, HeadTailProperties
    <3>4. i - 1 \in DOMAIN batch' /\ batch'[i - 1] = <<t, w>>
      <4>1. Len(batch) \in Nat /\ i \in 1 .. Len(batch) /\ i > 1
        BY <1>0
      <4>2. i - 1 \in 1 .. Len(batch) - 1 /\ (i - 1) + 1 = i
        BY ONLY <4>1
      <4>3. QED
        BY <3>3, <4>2
    <3>5. CASE i = 2
      <4>1. batch[2][2] = w
        BY <3>5
      <4>2. d \in dests'
        BY <3>2, <4>1 DEF Destinations
      <4>3. QED
        BY <3>4, <4>2 DEF OnItsWay, ToBeRouted
    <3>6. CASE i # 2
      <4>1. i - 1 > 1
        BY <1>0, <3>6
      <4>2. QED
        BY <3>4, <4>1 DEF OnItsWay, ToBeRouted
    <3>7. QED
      BY <3>5, <3>6
  <2>3. QED
    BY <2>1, <2>2 DEF OnItsWay
<1>5. CASE \E a \in Workers : Reap(a)
  <2> PICK a \in Workers : Reap(a)
    BY <1>5
  <2>1. process'[a] = "reaped" /\ up' = [up EXCEPT ![a] = <<>>]
    BY <1>0 DEF Reap
  <2>2. up'[w] = up[w] /\ UNCHANGED <<down, batch, dests, pc>>
    BY <1>0, <2>1 DEF Reap
  <2>3. QED
    BY <2>2, StaysOnItsWay
<1>6. CASE (\E a \in Workers : Spawn(a)) \/ EndSpawn \/ Wait \/ Consume \/ EndDrain \/ Loop
  <2>1. UNCHANGED <<up, down, batch, dests>> /\ (pc' = pc \/ pc # "poll")
    BY <1>6 DEF Spawn, EndSpawn, Wait, Consume, EndDrain, Loop, sockets, launcher
  <2>2. QED
    BY <2>1, StaysOnItsWay
<1>7. QED
  BY <1>1, <1>2, <1>3, <1>4, <1>5, <1>6 DEF LauncherStep

\* Nothing is routed outside of wait_notifications.
LEMMA BatchStep ==
    ASSUME TInv, BatchIsRouted, [Next]_vars
    PROVE  BatchIsRouted'
<1>1. CASE \E a \in Workers : WorkerStep(a)
  <2>1. UNCHANGED <<batch, pc>>
    BY <1>1 DEF WorkerStep, Find, Receive, Evaluate, Restart, Stop, Finish, Die, Exit, launcher
  <2>2. QED
    BY <2>1 DEF BatchIsRouted
<1>2. ASSUME NEW d, NEW command, Send(d, command) PROVE BatchIsRouted'
  BY <1>2 DEF Send, Fail, BatchIsRouted
<1>3. CASE LauncherStep
  <2>1. CASE \E a \in Workers : Poll(a) \/ Reap(a) \/ Spawn(a)
    BY <2>1 DEF Poll, Fail, Reap, Spawn, launcher, BatchIsRouted
  <2>2. CASE \E a \in Workers : Route(a)
    BY <1>2, <2>2 DEF Route
  <2>3. CASE EndPoll \/ NextNotification
    BY <2>3 DEF EndPoll, NextNotification, BatchIsRouted
  <2>4. CASE EndSpawn \/ Wait \/ Consume \/ EndDrain \/ Loop
    BY <2>4 DEF EndSpawn, Wait, Consume, EndDrain, Loop, BatchIsRouted
  <2>5. QED
    BY <1>3, <2>1, <2>2, <2>3, <2>4 DEF LauncherStep
<1>4. CASE UNCHANGED vars
  BY <1>4 DEF vars, launcher, BatchIsRouted
<1>5. QED
  BY <1>1, <1>2, <1>3, <1>4 DEF Next, AskShutdown

\* What a worker does leaves what it has not read on its way, and brings what it shares there.
LEMMA WorkersBring ==
    ASSUME TInv, ArrivalInv, [Next]_vars, HasRoom, NEW a \in Workers, WorkerStep(a), pc' # "failed",
           NEW w \in Workers, NEW d \in Workers, NEW t \in shared'[w],
           <<GroupOf[w], GroupOf[d]>> \in Routes,
           process'[w] # "reaped", process'[d] \in {"new", "running"}
    PROVE  t \in received'[d] \cup shared'[d] \/ OnItsWay(t, w, d)'
<1>0. /\ process \in [Workers -> Processes] /\ queue \in [Workers -> Seq(Testcases)]
      /\ down \in [Workers -> Seq(Testcases \cup {Shutdown})]
      /\ TypeOK /\ SeenIsKnown
  BY DEF TInv, TypeOK, ArrivalInv
<1>1. /\ received[d] \subseteq received'[d] /\ shared[d] \subseteq shared'[d]
      /\ process[w] # "reaped" /\ process[d] \in {"new", "running"} /\ pc # "failed"
  BY Onward
<1>2. t \in shared[w] => t \in received'[d] \cup shared'[d] \/ OnItsWay(t, w, d)
  BY <1>1 DEF ArrivalInv, SharedIsUnderWay
<1>3. ASSUME NEW u \in Testcases, SendTestcase(a, u) \/ UNCHANGED <<seen, shared, up>>,
             UNCHANGED <<down, batch, dests, pc>>
      PROVE  t \in received'[d] \cup shared'[d] \/ OnItsWay(t, w, d)'
  <2>1. /\ Range(up[w]) \subseteq Range(up'[w])
        /\ t \notin shared[w] => t \in Range(up'[w])
    BY <1>0, <1>3, SentIsUnderWay
  <2>2. CASE t \in shared[w]
    BY <1>2, <1>3, <2>1, <2>2, StaysOnItsWay
  <2>3. CASE t \notin shared[w]
    BY <2>1, <2>3 DEF OnItsWay
  <2>4. QED
    BY <2>2, <2>3
<1>4. CASE \E u \in Testcases : Find(a, u)
  BY <1>3, <1>4 DEF Find, launcher
<1>5. CASE Receive(a)
  <2>1. /\ UNCHANGED <<up, batch, dests, pc, shared>>
        /\ down' = [down EXCEPT ![a] = <<>>] /\ process[a] = "running"
    BY <1>5 DEF Receive, Alive, launcher
  <2>2. CASE a = d /\ t \in Range(down[d])
    <3>1. process'[d] = "running"
      <4>1. process' = process \/ process' = [process EXCEPT ![a] = "stopping"]
        BY <1>5 DEF Receive
      <4>2. QED
        BY <1>0, <2>1, <2>2, <4>1
    <3>2. QED
      BY <1>0, <1>5, <2>2, <3>1, ReadIsKnown
  <2>3. CASE a # d
    <3>1. down'[d] = down[d]
      BY <1>0, <2>1, <2>3
    <3>2. QED
      BY <1>2, <2>1, <3>1, StaysOnItsWay
  <2>4. CASE t \notin Range(down[d])
    BY <1>2, <2>1, <2>4 DEF OnItsWay, ToBeRouted
  <2>5. QED
    BY <2>2, <2>3, <2>4
<1>6. CASE Evaluate(a)
  <2>1. Head(queue[a]) \in Testcases
    <3>1. queue[a] \in Seq(Testcases) /\ queue[a] # <<>>
      BY <1>0, <1>6 DEF Evaluate
    <3>2. QED
      BY <3>1, HeadTailProperties
  <2>2. QED
    BY <1>3, <1>6, <2>1 DEF Evaluate, launcher
<1>7. CASE Restart(a)
  <2>1. UNCHANGED <<up, down, batch, dests, pc, shared>>
    BY <1>7 DEF Restart, sockets, launcher, history
  <2>2. QED
    BY <1>2, <2>1, StaysOnItsWay
<1>8. CASE Stop(a) \/ Finish(a) \/ Die(a)
  <2>1. /\ UNCHANGED <<up, batch, dests, pc, shared>>
        /\ process'[a] = "zombie" /\ down' = [down EXCEPT ![a] = <<>>]
    BY <1>0, <1>8 DEF Stop, Finish, Die, Exit, history
  <2>2. down'[d] = down[d]
    BY <1>0, <2>1
  <2>3. QED
    BY <1>2, <2>1, <2>2, StaysOnItsWay
<1>9. QED
  BY <1>4, <1>5, <1>6, <1>7, <1>8 DEF WorkerStep

LEMMA SharedStep ==
    ASSUME TInv, KInv, ArrivalInv, [Next]_vars, HasRoom
    PROVE  SharedIsUnderWay'
<1> SUFFICES ASSUME pc' # "failed", NEW w \in Workers, NEW d \in Workers, NEW t \in shared'[w],
                    <<GroupOf[w], GroupOf[d]>> \in Routes,
                    process'[w] # "reaped", process'[d] \in {"new", "running"}
             PROVE  t \in received'[d] \cup shared'[d] \/ OnItsWay(t, w, d)'
  BY DEF SharedIsUnderWay
<1>0. /\ down \in [Workers -> Seq(Testcases \cup {Shutdown})]
      /\ shared \in [Workers -> SUBSET Testcases]
  BY DEF TInv, TypeOK
<1>1. /\ received[d] \subseteq received'[d] /\ shared[d] \subseteq shared'[d]
      /\ process[w] # "reaped" /\ process[d] \in {"new", "running"} /\ pc # "failed"
  BY Onward
<1>2. t \in shared[w] => t \in received'[d] \cup shared'[d] \/ OnItsWay(t, w, d)
  BY <1>1 DEF ArrivalInv, SharedIsUnderWay
<1>3. CASE \E a \in Workers : WorkerStep(a)
  BY <1>3, WorkersBring
<1>4. CASE \E a \in Workers : AskShutdown(a)
  <2> PICK a \in Workers : AskShutdown(a)
    BY <1>4
  <2>1. pc = "loop" /\ Send(a, Shutdown) /\ UNCHANGED <<up, shared>>
    BY DEF AskShutdown, history
  <2>2. ~ToBeRouted(t, w, d)
    BY <2>1 DEF ArrivalInv, BatchIsRouted, ToBeRouted
  <2>3. down' = down \/ down' = [down EXCEPT ![a] = Append(@, Shutdown)]
    BY <2>1 DEF Send
  <2>4. Range(down[d]) \subseteq Range(down'[d])
    <3>1. down'[d] = down[d] \/ down'[d] = Append(down[d], Shutdown)
      BY <1>0, <2>3
    <3>2. Range(down[d]) \subseteq Range(Append(down[d], Shutdown))
      BY <1>0, StillAppended
    <3>3. QED
      BY <3>1, <3>2
  <2>5. QED
    BY <1>2, <2>1, <2>2, <2>4 DEF OnItsWay
<1>5. CASE LauncherStep
  <2>1. shared' = shared
    BY <1>5 DEF LauncherStep, Spawn, Poll, Route, Reap, EndSpawn, Wait, EndPoll,
                NextNotification, Consume, EndDrain, Loop, history
  <2>2. t \in Testcases
    BY <1>0, <2>1
  <2>3. QED
    BY <1>1, <1>2, <1>5, <2>1, <2>2, RoutingBrings DEF ArrivalInv
<1>6. CASE UNCHANGED vars
  <2>1. UNCHANGED <<up, down, batch, dests, pc, shared>>
    BY <1>6 DEF vars, sockets, launcher, history
  <2>2. QED
    BY <1>2, <2>1, StaysOnItsWay
<1>7. QED
  BY <1>3, <1>4, <1>5, <1>6 DEF Next

LEMMA SeenStep ==
    ASSUME TInv, SeenIsKnown, [Next]_vars
    PROVE  SeenIsKnown'
<1>0. /\ seen \in [Workers -> SUBSET Testcases] /\ shared \in [Workers -> SUBSET Testcases]
      /\ received \in [Workers -> SUBSET Testcases] /\ queue \in [Workers -> Seq(Testcases)]
  BY DEF TInv, TypeOK
<1>1. \A w \in Workers : shared[w] \subseteq shared'[w] /\ received[w] \subseteq received'[w]
  BY Onward
<1>2. ASSUME NEW a \in Workers, NEW u, SendTestcase(a, u) PROVE SeenIsKnown'
  <2>1. \/ UNCHANGED <<seen, shared>>
        \/ seen' = [seen EXCEPT ![a] = @ \cup {u}] /\ shared' = [shared EXCEPT ![a] = @ \cup {u}]
    BY <1>2 DEF SendTestcase
  <2>2. \A w \in Workers : seen'[w] \subseteq seen[w] \cup shared'[w]
    BY <1>0, <2>1
  <2>3. QED
    BY <1>1, <2>2 DEF SeenIsKnown
<1>3. CASE seen' = seen
  BY <1>1, <1>3 DEF SeenIsKnown
<1>4. CASE \E a \in Workers : WorkerStep(a)
  <2> PICK a \in Workers : WorkerStep(a)
    BY <1>4
  <2>1. CASE (\E u \in Testcases : Find(a, u)) \/ Evaluate(a)
    BY <1>2, <1>3, <2>1 DEF Find, Evaluate
  <2>2. CASE Receive(a)
    <3>1. CASE seen' # seen
      <4> PICK imports \in Fresh(down[a], seen[a]) :
              /\ seen' = [seen EXCEPT ![a] = @ \cup Range(imports)]
              /\ received' = [received EXCEPT ![a] = @ \cup Range(imports)]
        BY <2>2, <3>1 DEF Receive
      <4>1. \A w \in Workers : seen'[w] \subseteq seen[w] \cup received'[w]
        BY <1>0
      <4>2. QED
        BY <1>1, <4>1 DEF SeenIsKnown
    <3>2. QED
      BY <1>3, <3>1
  <2>3. CASE Restart(a)
    <3>1. seen' = [seen EXCEPT ![a] = {}]
      BY <2>3 DEF Restart
    <3>2. \A w \in Workers : seen'[w] \subseteq seen[w]
      BY <1>0, <3>1
    <3>3. QED
      BY <1>1, <3>2 DEF SeenIsKnown
  <2>4. CASE Stop(a) \/ Finish(a) \/ Die(a)
    BY <1>3, <2>4 DEF Stop, Finish, Die, Exit
  <2>5. QED
    BY <2>1, <2>2, <2>3, <2>4 DEF WorkerStep
<1>5. CASE (\E a \in Workers : AskShutdown(a)) \/ LauncherStep \/ UNCHANGED vars
  <2>1. seen' = seen
    BY <1>5 DEF AskShutdown, LauncherStep, Spawn, Poll, Route, Reap, EndSpawn, Wait, EndPoll,
                NextNotification, Consume, EndDrain, Loop, worker, vars
  <2>2. QED
    BY <1>3, <2>1
<1>6. QED
  BY <1>4, <1>5 DEF Next

\* Unless a notification is dropped because the socket of its worker is full, no step
\* loses a testcase between two workers that stay: what restarts, what the launcher
\* interleaves and what other workers do while it is under way never costs it.
THEOREM NoSharedTestcaseIsLost == Spec /\ NothingIsDropped => []SharedIsUnderWay
<1> DEFINE I == TInv /\ KInv /\ ArrivalInv
<1>1. Init => I
  <2>1. Init => KInv
    BY DEF Init, KInv, ProcessType, LiveWorkersAreKnown, Processes
  <2>2. Init => ArrivalInv
    BY DEF Init, ArrivalInv, SeenIsKnown, BatchIsRouted, SharedIsUnderWay
  <2>3. QED
    BY <2>1, <2>2, TypesInitially
<1>2. I /\ [Next]_vars /\ [HasRoom]_vars => I'
  <2> SUFFICES ASSUME I, [Next]_vars, [HasRoom]_vars PROVE I'
    OBVIOUS
  <2>1. HasRoom
    BY DEF HasRoom, vars, history
  <2>2. ArrivalInv'
    BY <2>1, BatchStep, SeenStep, SharedStep DEF ArrivalInv
  <2>3. QED
    BY <2>2, TypesStep, KnownStep
<1>3. I => SharedIsUnderWay
  BY DEF ArrivalInv
<1>4. QED
  BY <1>1, <1>2, <1>3, PTL DEF Spec, NothingIsDropped

-----------------------------------------------------------------------------
\* The end of the workers.

\* While a child waits to be waited for, its SIGCHLD is pending, or the launcher has
\* yet to come to where it waits for all of them.
ChildrenAreSeen ==
    /\ pc = "spawn" => starting
    /\ (\E w \in Workers : process[w] = "zombie")
          => sigchld \/ starting \/ pc \in {"drain", "failed"}

\* The failures are the workers that were waited for and did not exit with success.
ExitsAreCounted ==
    /\ \A w \in Workers : Closed(w) => exit[w] # "none"
    /\ failures = {w \in Workers : process[w] = "reaped" /\ exit[w] # "success"}
    /\ pc = "ended" => \A w \in Workers : process[w] = "reaped"

ExitInv == ChildrenAreSeen /\ ExitsAreCounted

\* A step that neither waits for children nor ends one of them.
LEMMA ChildrenStay ==
    ASSUME ExitInv, UNCHANGED <<process, exit, sigchld, starting, failures>>,
           pc' = pc \/ (pc' # "ended" /\ pc' # "spawn" /\ pc \notin {"drain", "failed"})
    PROVE  ExitInv'
  BY DEF ExitInv, ChildrenAreSeen, ExitsAreCounted, Closed

LEMMA ExitsStep ==
    ASSUME TInv, ExitInv, [Next]_vars
    PROVE  ExitInv'
<1>0. /\ process \in [Workers -> Processes]
      /\ exit \in [Workers -> {"none", "success", "failure"}]
      /\ failures \subseteq Workers
  BY DEF TInv, TypeOK
<1>1. ASSUME NEW w \in Workers, NEW status \in {"success", "failure"}, Exit(w, status),
             process[w] \in {"running", "stopping"}
      PROVE  ExitInv'
  <2>1. /\ process' = [process EXCEPT ![w] = "zombie"] /\ exit' = [exit EXCEPT ![w] = status]
        /\ sigchld' = (sigchld \/ pc # "spawn")
        /\ UNCHANGED <<pc, starting, failures>>
    BY <1>1 DEF Exit
  <2>2. ChildrenAreSeen'
    BY <1>0, <2>1 DEF ExitInv, ChildrenAreSeen
  <2>3. ExitsAreCounted'
    BY <1>0, <1>1, <2>1 DEF ExitInv, ExitsAreCounted, Closed
  <2>4. QED
    BY <2>2, <2>3 DEF ExitInv
<1>2. ASSUME NEW w \in Workers, WorkerStep(w) PROVE ExitInv'
  <2>1. CASE (\E t \in Testcases : Find(w, t)) \/ Evaluate(w) \/ Restart(w)
    <3>1. UNCHANGED <<process, exit, sigchld, starting, failures, pc>>
      BY <2>1 DEF Find, Evaluate, Restart, launcher
    <3>2. QED
      BY <3>1, ChildrenStay
  <2>2. CASE Receive(w)
    <3>1. UNCHANGED <<exit, sigchld, starting, failures, pc>> /\ process[w] = "running"
      BY <2>2 DEF Receive, launcher, Alive
    <3>2. \/ process' = process
          \/ process' = [process EXCEPT ![w] = "stopping"]
      BY <2>2 DEF Receive
    <3>3. QED
      BY <1>0, <3>1, <3>2 DEF ExitInv, ChildrenAreSeen, ExitsAreCounted, Closed
  <2>3. CASE Stop(w) \/ Finish(w) \/ Die(w)
    BY <2>3, <1>1 DEF Stop, Finish, Die, Alive
  <2>4. QED
    BY <1>2, <2>1, <2>2, <2>3 DEF WorkerStep
<1>3. ASSUME NEW d \in Workers, NEW command, Send(d, command), pc \in {"route", "loop"},
             UNCHANGED <<process, exit, sigchld, starting, failures>>
      PROVE  ExitInv'
  <2>1. pc' = pc \/ pc' = "failed"
    BY <1>3 DEF Send, Fail
  <2>2. QED
    BY <1>3, <2>1, ChildrenStay
<1>4. CASE \E d \in Workers : AskShutdown(d)
  BY <1>3, <1>4 DEF AskShutdown, worker
<1>5. CASE LauncherStep
  <2>1. CASE \E w \in Workers : Spawn(w)
    <3> PICK w \in Workers : Spawn(w)
      BY <2>1
    <3>1. /\ process[w] = "new" /\ process' = [process EXCEPT ![w] = "running"]
          /\ UNCHANGED <<exit, sigchld, starting, failures, pc>>
      BY DEF Spawn, launcher
    <3>2. QED
      BY <1>0, <3>1 DEF ExitInv, ChildrenAreSeen, ExitsAreCounted, Closed
  <2>2. CASE \E w \in Workers : Poll(w)
    <3>1. /\ pc = "poll" /\ pc' \in {"poll", "failed"}
          /\ UNCHANGED <<process, exit, sigchld, starting, failures>>
      BY <2>2 DEF Poll, Fail, worker
    <3>2. QED
      BY <3>1, ChildrenStay
  <2>3. CASE \E w \in Workers : Route(w)
    BY <1>3, <2>3 DEF Route, worker
  <2>4. CASE \E w \in Workers : Reap(w)
    <3> PICK w \in Workers : Reap(w)
      BY <2>4
    <3>1. /\ pc = "drain" /\ process[w] = "zombie"
          /\ process' = [process EXCEPT ![w] = "reaped"]
          /\ failures' = IF exit[w] = "success" THEN failures ELSE failures \cup {w}
          /\ UNCHANGED <<exit, sigchld, starting, pc>>
      BY DEF Reap
    <3>2. ChildrenAreSeen'
      BY <3>1 DEF ExitInv, ChildrenAreSeen
    <3>3. ExitsAreCounted'
      BY <1>0, <3>1 DEF ExitInv, ExitsAreCounted, Closed
    <3>4. QED
      BY <3>2, <3>3 DEF ExitInv
  <2>5. CASE EndSpawn \/ Wait \/ EndPoll \/ NextNotification
    <3>1. /\ pc \in {"spawn", "wait", "poll", "route"}
          /\ pc' \in {"wait", "poll", "route", "drain", "consume"}
          /\ UNCHANGED <<process, exit, sigchld, starting, failures>>
      BY <2>5 DEF EndSpawn, Wait, EndPoll, NextNotification, AfterNotifications, worker
    <3>2. QED
      BY <3>1, ChildrenStay
  <2>6. CASE Consume
    BY <2>6 DEF Consume, worker, ExitInv, ChildrenAreSeen, ExitsAreCounted, Closed
  <2>7. CASE EndDrain
    BY <2>7 DEF EndDrain, worker, ExitInv, ChildrenAreSeen, ExitsAreCounted, Closed
  <2>8. CASE Loop
    BY <2>8 DEF Loop, Active, worker, ExitInv, ChildrenAreSeen, ExitsAreCounted, Closed
  <2>9. QED
    BY <1>5, <2>1, <2>2, <2>3, <2>4, <2>5, <2>6, <2>7, <2>8 DEF LauncherStep
<1>6. CASE UNCHANGED vars
  <2>1. UNCHANGED <<process, exit, sigchld, starting, failures, pc>>
    BY <1>6 DEF vars, worker, launcher
  <2>2. QED
    BY <2>1, ChildrenStay
<1>7. QED
  BY <1>2, <1>4, <1>5, <1>6 DEF Next

LEMMA ExitsInitially == Init => ExitInv
  BY DEF Init, ExitInv, ChildrenAreSeen, ExitsAreCounted, Closed

\* When the launcher is about to wait for good, it does not sleep on a child that has
\* exited: its SIGCHLD is pending, although the signals are read off the signalfd
\* apart from the children they stand for, and several of them are one.
NoWakeupIsLost ==
    (pc = "wait" /\ ~starting /\ \E w \in Workers : process[w] = "zombie") => Readable

\* When the launcher comes to its end it has waited for every worker, and it answers
\* with those that failed.
EndKnowsEveryExit ==
    pc = "ended" =>
        /\ \A w \in Workers : process[w] = "reaped"
        /\ failures = {w \in Workers : exit[w] = "failure"}

\* Whenever a worker exits, the wait of the launcher ends: the step LauncherEnds would
\* fail at if reading the signals and waiting for the children came in the wrong order.
THEOREM WakeupsAreKept == Spec => []NoWakeupIsLost
<1>1. (TInv /\ ExitInv) /\ [Next]_vars => (TInv /\ ExitInv)'
  BY TypesStep, ExitsStep
<1>2. ExitInv => NoWakeupIsLost
  BY DEF ExitInv, ChildrenAreSeen, NoWakeupIsLost, Readable
<1>3. QED
  BY <1>1, <1>2, TypesInitially, ExitsInitially, PTL DEF Spec

\* No worker is left behind and no failure forgotten, in whatever order they exit.
THEOREM LauncherLeavesNobody == Spec => []EndKnowsEveryExit
<1>1. (TInv /\ ExitInv) /\ [Next]_vars => (TInv /\ ExitInv)'
  BY TypesStep, ExitsStep
<1>2. TInv /\ ExitInv => EndKnowsEveryExit
  <2> SUFFICES ASSUME TInv, ExitInv, pc = "ended" PROVE EndKnowsEveryExit
    BY DEF EndKnowsEveryExit
  <2>1. exit \in [Workers -> {"none", "success", "failure"}]
    BY DEF TInv, TypeOK
  <2>2. \A w \in Workers : process[w] = "reaped" /\ exit[w] # "none"
    BY DEF ExitInv, ExitsAreCounted, Closed
  <2>3. QED
    BY <2>1, <2>2 DEF ExitInv, ExitsAreCounted, EndKnowsEveryExit
<1>3. QED
  BY <1>1, <1>2, TypesInitially, ExitsInitially, PTL DEF Spec
=============================================================================
