--------------------------- MODULE Orchestration ---------------------------
(***************************************************************************)
(* The launcher, its controller and the workers it forks: the workers find *)
(* testcases and notify the controller, which routes them as commands to   *)
(* the workers of the destination groups, over one SEQPACKET socket pair   *)
(* per worker.  Workers restart, finish and die at any time; the launcher  *)
(* waits for messages and for SIGCHLD in one poll(2) and reaps what exits. *)
(*                                                                         *)
(* A testcase stands for its id: it is the hash of the input, so the id    *)
(* that comes with an import always matches the input it resolves to.      *)
(***************************************************************************)
EXTENDS Naturals, Sequences, FiniteSets, SequencesExt

CONSTANTS
    Workers,        \* the ids of the registered workers
    Groups,         \* the groups of the GraphRouter
    GroupOf,        \* the group each worker is registered in
    Routes,         \* the pairs <<source, destination>> of groups given to the router
    Testcases,      \* the testcases that can be found
    Finds,          \* which worker may come up with which testcase by itself
    Shutdown,       \* the command that stops a worker
    Capacity,       \* the messages a socket buffers in one direction
    MaxRestarts,    \* bounds on the restarts of each worker
    MaxShutdowns,   \* bound on the shutdowns the monitor asks for
    Timeouts        \* whether the monitor refresh ends a wait

\* GraphRouter::finalize refuses a route from a group to itself.
ASSUME RoutesAssumption ==
    /\ GroupOf \in [Workers -> Groups]
    /\ Routes \subseteq {r \in Groups \X Groups : r[1] # r[2]}

ASSUME FindsAssumption == Finds \subseteq Workers \X Testcases

ASSUME MessageAssumption == Shutdown \notin Testcases

ASSUME BoundsAssumption ==
    /\ IsFiniteSet(Workers)
    /\ Capacity \in Nat \ {0}
    /\ MaxRestarts \in [Workers -> Nat]
    /\ MaxShutdowns \in Nat
    /\ Timeouts \in BOOLEAN

VARIABLES
    process,    \* of each worker: not forked, running, told to stop, exited, or waited for
    exit,       \* the exit status of each worker that has exited
    atTop,      \* whether a worker has yet to enter its first fuzz_one
    seen,       \* seen_testcases, in the memory of the worker's process
    queue,      \* the pending testcases of the worker's state, which restarts keep
    restarts,   \* how often each worker has restarted
    up,         \* notifications in the socket of each worker
    down,       \* commands in the socket of each worker
    reset,      \* sockets whose peer was closed with commands unread
    pc,         \* where the launcher is
    starting,   \* whether the launcher is in the pass before its loop
    conns,      \* the workers of the SocketControllerSync
    toPoll,     \* the connections the controller has yet to poll
    batch,      \* the notifications it has yet to route, with their sources
    dests,      \* the destinations it has yet to send the first of them to
    sigchld,    \* whether a SIGCHLD waits in the signalfd
    failures,   \* the workers whose exit counts as a failure
    shutdowns,  \* how many shutdowns have been asked for
    found,      \* history: the testcases each worker has found by itself
    shared,     \* history: the testcases each worker has notified
    received    \* history: the testcases each worker has queued for evaluation

worker == <<process, exit, atTop, seen, queue, restarts>>
sockets == <<up, down, reset>>
launcher == <<pc, starting, conns, toPoll, batch, dests, sigchld, failures, shutdowns>>
history == <<found, shared, received>>
vars == <<worker, sockets, launcher, history>>

Processes == {"new", "running", "stopping", "zombie", "reaped"}
Phases == {"spawn", "wait", "poll", "route", "consume", "drain", "loop", "ended", "failed"}

TypeOK ==
    /\ process \in [Workers -> Processes]
    /\ exit \in [Workers -> {"none", "success", "failure"}]
    /\ atTop \in [Workers -> BOOLEAN]
    /\ seen \in [Workers -> SUBSET Testcases]
    /\ queue \in [Workers -> Seq(Testcases)]
    /\ restarts \in [Workers -> Nat]
    /\ up \in [Workers -> Seq(Testcases)]
    /\ down \in [Workers -> Seq(Testcases \cup {Shutdown})]
    /\ reset \in [Workers -> BOOLEAN]
    /\ pc \in Phases
    /\ starting \in BOOLEAN
    /\ conns \subseteq Workers
    /\ toPoll \subseteq Workers
    /\ batch \in Seq(Testcases \X Workers)
    /\ dests \subseteq Workers
    /\ sigchld \in BOOLEAN
    /\ failures \subseteq Workers
    /\ shutdowns \in 0..MaxShutdowns
    /\ found \in [Workers -> SUBSET Testcases]
    /\ shared \in [Workers -> SUBSET Testcases]
    /\ received \in [Workers -> SUBSET Testcases]

Init ==
    /\ process = [w \in Workers |-> "new"]
    /\ exit = [w \in Workers |-> "none"]
    /\ atTop = [w \in Workers |-> TRUE]
    /\ seen = [w \in Workers |-> {}]
    /\ queue = [w \in Workers |-> <<>>]
    /\ restarts = [w \in Workers |-> 0]
    /\ up = [w \in Workers |-> <<>>]
    /\ down = [w \in Workers |-> <<>>]
    /\ reset = [w \in Workers |-> FALSE]
    /\ pc = "spawn"
    /\ starting = TRUE
    /\ conns = Workers
    /\ toPoll = {}
    /\ batch = <<>>
    /\ dests = {}
    /\ sigchld = FALSE
    /\ failures = {}
    /\ shutdowns = 0
    /\ found = [w \in Workers |-> {}]
    /\ shared = [w \in Workers |-> {}]
    /\ received = [w \in Workers |-> {}]

-----------------------------------------------------------------------------
\* The topology GraphRouter::finalize computes from the routes.

\* For the mutants: the sources in place of the destinations.
Destinations_Swapped(w) == {d \in Workers : <<GroupOf[d], GroupOf[w]>> \in Routes}

Destinations(w) == {d \in Workers : <<GroupOf[w], GroupOf[d]>> \in Routes}

ShouldReport(w) == Destinations(w) # {}

-----------------------------------------------------------------------------
\* A worker.  Once the launcher has failed its process goes away, and the
\* parent-death signal kills the workers with it.

Alive(w) == process[w] = "running" /\ pc # "failed"

\* For the mutants: what is sent is not marked as seen.
SendTestcase_Unmarked(w, t) ==
    IF ShouldReport(w)
    THEN /\ shared' = [shared EXCEPT ![w] = @ \cup {t}]
         /\ up' = IF Len(up[w]) < Capacity THEN [up EXCEPT ![w] = Append(@, t)] ELSE up
         /\ UNCHANGED seen
    ELSE UNCHANGED <<seen, shared, up>>

\* send_testcase: the notification is dropped, with a log, when the socket is full.
SendTestcase(w, t) ==
    IF ShouldReport(w)
    THEN /\ seen' = [seen EXCEPT ![w] = @ \cup {t}]
         /\ shared' = [shared EXCEPT ![w] = @ \cup {t}]
         /\ up' = IF Len(up[w]) < Capacity THEN [up EXCEPT ![w] = Append(@, t)] ELSE up
    ELSE UNCHANGED <<seen, shared, up>>

Idle(w) == queue[w] = <<>> /\ ~atTop[w]

\* An input of the worker's own turns out to be interesting: one of the initial
\* inputs, which are loaded before the first fuzz_one, or one it has mutated.
Find(w, t) ==
    /\ Alive(w) /\ (Idle(w) \/ atTop[w])
    /\ <<w, t>> \in Finds /\ t \notin found[w]
    /\ found' = [found EXCEPT ![w] = @ \cup {t}]
    /\ SendTestcase(w, t)
    /\ UNCHANGED <<process, exit, atTop, queue, restarts, down, reset, launcher, received>>

\* For the mutants: nothing is filtered.
Fresh_All(commands, known) == {commands}

\* The imports of the commands whose testcase is not among the seen ones, which
\* they join one by one: each of them once, in the order in which they first come.
Fresh(commands, known) ==
    LET new == Range(commands) \ known
        Before(t, u) == \E k \in DOMAIN commands :
                           commands[k] = t /\ \A l \in 1 .. k : commands[l] # u
    IN  {imports \in [1 .. Cardinality(new) -> new] :
            \A i, j \in DOMAIN imports : i < j => Before(imports[i], imports[j])}

\* For the mutants: the worker takes every command for an import.
Receive_NoShutdown(w) ==
    /\ Alive(w) /\ (Idle(w) \/ atTop[w])
    /\ down' = [down EXCEPT ![w] = <<>>]
    /\ atTop' = [atTop EXCEPT ![w] = FALSE]
    /\ queue' = [queue EXCEPT ![w] = @ \o down[w]]
    /\ UNCHANGED <<process, exit, seen, restarts, up, reset, launcher, history>>

\* The start of fuzz_one: every command is read, then the worker shuts down if
\* it has been asked to, and queues the imports it has not seen otherwise.
Receive(w) ==
    /\ Alive(w) /\ (Idle(w) \/ atTop[w])
    /\ down[w] # <<>> \/ atTop[w]
    /\ down' = [down EXCEPT ![w] = <<>>]
    /\ IF Contains(down[w], Shutdown)
       THEN /\ process' = [process EXCEPT ![w] = "stopping"]
            /\ UNCHANGED <<atTop, seen, queue, received>>
       ELSE \E imports \in Fresh(down[w], seen[w]) :
                /\ atTop' = [atTop EXCEPT ![w] = FALSE]
                /\ seen' = [seen EXCEPT ![w] = @ \cup Range(imports)]
                /\ queue' = [queue EXCEPT ![w] = @ \o imports]
                /\ received' = [received EXCEPT ![w] = @ \cup Range(imports)]
                /\ UNCHANGED process
    /\ UNCHANGED <<exit, restarts, up, reset, launcher, found, shared>>

\* The first pending testcase is evaluated, and shared in turn if it is
\* interesting here too.
Evaluate(w) ==
    /\ Alive(w) /\ ~atTop[w] /\ queue[w] # <<>>
    /\ queue' = [queue EXCEPT ![w] = Tail(@)]
    /\ \/ SendTestcase(w, Head(queue[w]))
       \/ UNCHANGED <<seen, shared, up>>
    /\ UNCHANGED <<process, exit, atTop, restarts, down, reset, launcher, found, received>>

\* The target crashes, in the evaluation of a pending testcase or elsewhere: the
\* state comes back as it was, and the worker as it was forked.
Restart(w) ==
    /\ Alive(w) /\ restarts[w] < MaxRestarts[w]
    /\ restarts' = [restarts EXCEPT ![w] = @ + 1]
    /\ atTop' = [atTop EXCEPT ![w] = TRUE]
    /\ seen' = [seen EXCEPT ![w] = {}]
    /\ \/ ~atTop[w] /\ queue[w] # <<>> /\ queue' = [queue EXCEPT ![w] = Tail(@)]
       \/ UNCHANGED queue
    /\ UNCHANGED <<process, exit, sockets, launcher, history>>

\* The process of w ends.  A socket that closes with commands unread leaves
\* ECONNRESET to its peer, and a SIGCHLD is lost that comes before the launcher
\* has blocked it.
Exit(w, status) ==
    /\ process' = [process EXCEPT ![w] = "zombie"]
    /\ exit' = [exit EXCEPT ![w] = status]
    /\ down' = [down EXCEPT ![w] = <<>>]
    /\ reset' = [reset EXCEPT ![w] = down[w] # <<>>]
    /\ sigchld' = (sigchld \/ pc # "spawn")
    /\ UNCHANGED <<atTop, seen, queue, restarts, up, pc, starting, conns, toPoll, batch,
                   dests, failures, shutdowns, history>>

\* The worker obeys Shutdown.
Stop(w) ==
    /\ process[w] = "stopping" /\ pc # "failed"
    /\ Exit(w, "success")

\* The task of the worker is over.
Finish(w) ==
    /\ Alive(w) /\ Idle(w)
    /\ Exit(w, "success")

\* The process of the worker is killed, or gives up.
Die(w) ==
    /\ Alive(w)
    /\ Exit(w, "failure")

-----------------------------------------------------------------------------
\* The launcher.

Closed(w) == process[w] \in {"zombie", "reaped"}

\* What poll(2) reports as readable: a message, or the end of the stream.
ConnReadable(w) == up[w] # <<>> \/ Closed(w)

\* For the mutants: neither the signalfd nor the end of a stream wakes the launcher.
Readable_MessagesOnly == \E w \in conns : up[w] # <<>>

Readable == sigchld \/ \E w \in conns : ConnReadable(w)

\* An error of the controller propagates out of wait_instances and launch.
Fail ==
    /\ pc' = "failed"
    /\ toPoll' = {} /\ batch' = <<>> /\ dests' = {}

\* spawn_instances forks the next worker, or is done.
Spawn(w) ==
    /\ pc = "spawn" /\ process[w] = "new"
    /\ process' = [process EXCEPT ![w] = "running"]
    /\ UNCHANGED <<exit, atTop, seen, queue, restarts, sockets, launcher, history>>

EndSpawn ==
    /\ pc = "spawn" /\ \A w \in Workers : process[w] # "new"
    /\ pc' = "wait"
    /\ UNCHANGED <<worker, sockets, starting, conns, toPoll, batch, dests, sigchld,
                   failures, shutdowns, history>>

AfterNotifications == IF starting THEN "drain" ELSE "consume"

\* wait_notifications waits for a connection or the signalfd to be readable.  It
\* does not wait at all in the pass before the loop, and may time out in the loop.
Wait ==
    /\ pc = "wait"
    /\ \/ /\ Readable
          /\ pc' = "poll" /\ toPoll' = conns
       \/ /\ ~Readable /\ (starting \/ Timeouts)
          /\ pc' = AfterNotifications /\ UNCHANGED toPoll
    /\ UNCHANGED <<worker, sockets, starting, conns, batch, dests, sigchld, failures,
                   shutdowns, history>>

\* Polling a connection takes all of its notifications, unless recv fails.
Poll(w) ==
    /\ pc = "poll" /\ w \in toPoll
    /\ IF reset[w]
       THEN /\ Fail
            /\ reset' = [reset EXCEPT ![w] = FALSE]
            /\ UNCHANGED up
       ELSE /\ toPoll' = toPoll \ {w}
            /\ batch' = batch \o [i \in DOMAIN up[w] |-> <<up[w][i], w>>]
            /\ up' = [up EXCEPT ![w] = <<>>]
            /\ UNCHANGED <<pc, reset, dests>>
    /\ UNCHANGED <<worker, down, starting, conns, sigchld, failures, shutdowns, history>>

EndPoll ==
    /\ pc = "poll" /\ toPoll = {}
    /\ pc' = "route"
    /\ dests' = IF batch = <<>> THEN {} ELSE Destinations(batch[1][2])
    /\ UNCHANGED <<worker, sockets, starting, conns, toPoll, batch, sigchld, failures,
                   shutdowns, history>>

\* For the mutants: a worker whose socket is full is given up.
Send_FullRemoves(d, command) ==
    IF d \notin conns \/ reset[d]
    THEN /\ Fail
         /\ reset' = [reset EXCEPT ![d] = FALSE]
         /\ UNCHANGED <<conns, down>>
    ELSE /\ IF Closed(d) \/ Len(down[d]) >= Capacity
            THEN conns' = conns \ {d} /\ UNCHANGED down
            ELSE down' = [down EXCEPT ![d] = Append(@, command)] /\ UNCHANGED conns
         /\ dests' = dests \ {d}
         /\ UNCHANGED <<reset, pc, toPoll, batch>>

\* A command is sent to a connected worker: it arrives, finds the socket closed,
\* or makes the controller fail.
Send(d, command) ==
    IF d \notin conns \/ reset[d] \/ (~Closed(d) /\ Len(down[d]) >= Capacity)
    THEN /\ Fail
         /\ reset' = [reset EXCEPT ![d] = FALSE]
         /\ UNCHANGED <<conns, down>>
    ELSE /\ IF Closed(d)
            THEN conns' = conns \ {d} /\ UNCHANGED down
            ELSE down' = [down EXCEPT ![d] = Append(@, command)] /\ UNCHANGED conns
         /\ dests' = dests \ {d}
         /\ UNCHANGED <<reset, pc, toPoll, batch>>

Route(d) ==
    /\ pc = "route" /\ d \in dests
    /\ Send(d, batch[1][1])
    /\ UNCHANGED <<worker, up, starting, sigchld, failures, shutdowns, history>>

\* For the mutants: one notification is routed per wait.
NextNotification_DropsRest ==
    /\ pc = "route" /\ dests = {}
    /\ batch' = <<>> /\ pc' = AfterNotifications
    /\ UNCHANGED <<worker, sockets, starting, conns, toPoll, dests, sigchld, failures,
                   shutdowns, history>>

\* The first notification has been sent to all its destinations: the next one is
\* due, or wait_notifications returns.
NextNotification ==
    /\ pc = "route" /\ dests = {}
    /\ IF Len(batch) <= 1
       THEN batch' = <<>> /\ dests' = {} /\ pc' = AfterNotifications
       ELSE batch' = Tail(batch) /\ dests' = Destinations(batch[2][2]) /\ UNCHANGED pc
    /\ UNCHANGED <<worker, sockets, starting, conns, toPoll, sigchld, failures, shutdowns,
                   history>>

\* The pending SIGCHLD are read off the signalfd, before the children are waited for.
Consume ==
    /\ pc = "consume"
    /\ sigchld' = FALSE
    /\ pc' = "drain"
    /\ UNCHANGED <<worker, sockets, starting, conns, toPoll, batch, dests, failures,
                   shutdowns, history>>

\* drain_children waits for one child that has exited: the controller drops its
\* connection, with whatever it holds.
Reap(w) ==
    /\ pc = "drain" /\ process[w] = "zombie"
    /\ process' = [process EXCEPT ![w] = "reaped"]
    /\ failures' = IF exit[w] = "success" THEN failures ELSE failures \cup {w}
    /\ conns' = conns \ {w}
    /\ up' = [up EXCEPT ![w] = <<>>]
    /\ reset' = [reset EXCEPT ![w] = FALSE]
    /\ UNCHANGED <<exit, atTop, seen, queue, restarts, down, pc, starting, toPoll, batch,
                   dests, sigchld, shutdowns, history>>

EndDrain ==
    /\ pc = "drain" /\ \A w \in Workers : process[w] # "zombie"
    /\ pc' = "loop" /\ starting' = FALSE
    /\ UNCHANGED <<worker, sockets, conns, toPoll, batch, dests, sigchld, failures,
                   shutdowns, history>>

Active == {w \in Workers : process[w] # "reaped"}

\* The loop goes on while instances are active.
Loop ==
    /\ pc = "loop"
    /\ pc' = IF Active = {} THEN "ended" ELSE "wait"
    /\ UNCHANGED <<worker, sockets, starting, conns, toPoll, batch, dests, sigchld,
                   failures, shutdowns, history>>

\* The monitor, which is handed the controller at the head of the loop and once
\* more after it, asks a worker to shut down.
AskShutdown(w) ==
    /\ pc = "loop"
    /\ shutdowns < MaxShutdowns
    /\ shutdowns' = shutdowns + 1
    /\ Send(w, Shutdown)
    /\ UNCHANGED <<worker, up, starting, sigchld, failures, history>>

-----------------------------------------------------------------------------
WorkerStep(w) ==
    \/ \E t \in Testcases : Find(w, t)
    \/ Receive(w)
    \/ Evaluate(w)
    \/ Restart(w)
    \/ Stop(w)
    \/ Finish(w)
    \/ Die(w)

LauncherStep ==
    \/ \E w \in Workers : Spawn(w) \/ Poll(w) \/ Route(w) \/ Reap(w)
    \/ EndSpawn \/ Wait \/ EndPoll \/ NextNotification \/ Consume \/ EndDrain \/ Loop

Next ==
    \/ \E w \in Workers : WorkerStep(w) \/ AskShutdown(w)
    \/ LauncherStep

Spec == Init /\ [][Next]_vars

\* The launcher and the fuzzing loop of every worker keep running; nothing obliges
\* a worker to find anything, to restart or to end.
FairSpec ==
    /\ Spec
    /\ WF_vars(LauncherStep)
    /\ \A w \in Workers : /\ WF_vars(Receive(w))
                         /\ WF_vars(Evaluate(w))
                         /\ WF_vars(Stop(w))

-----------------------------------------------------------------------------
\* Properties.

\* The testcases the step adds to the pending ones of w.
Queued(w) ==
    IF Len(queue'[w]) > Len(queue[w])
    THEN SubSeq(queue'[w], Len(queue[w]) + 1, Len(queue'[w]))
    ELSE <<>>

\* What the step queues for w is new to it, and queued once.
QueuesNews(w) ==
    /\ Range(Queued(w)) \cap (shared[w] \cup received[w]) = {}
    /\ \A i, j \in DOMAIN Queued(w) : Queued(w)[i] = Queued(w)[j] => i = j

QueuesOnlyNews == \A w \in Workers : restarts[w] = 0 => QueuesNews(w)

\* What a worker imports is new to it: it has neither sent nor received it before,
\* and gets it once.  That is what the comment on seen_testcases in worker.rs says
\* of the testcases "that have been either sent or received"; a restart forgets them.
NoEcho == [][QueuesOnlyNews]_vars

\* A testcase reaches a worker only along the routes of the GraphRouter: every set of
\* workers that holds those who found it, and whatever they route to, holds the worker.
ClosedUnderRoutes(S) ==
    \A v \in S, d \in Workers : <<GroupOf[v], GroupOf[d]>> \in Routes => d \in S

OnlyAlongRoutes ==
    \A w \in Workers : \A t \in received[w] : \A S \in SUBSET Workers :
        ({v \in Workers : t \in found[v]} \subseteq S /\ ClosedUnderRoutes(S)) => w \in S

\* The controller holds the connection of every worker that has not exited: a command
\* is for an "unknown worker" only once its worker has gone, whatever order exits,
\* closed sockets and waitpid come in.
LiveWorkersAreKnown ==
    \A w \in Workers : process[w] \in {"new", "running", "stopping"} => w \in conns

\* The launcher comes to its end once every worker has exited, although SIGCHLD is
\* consumed apart from the children it stands for and the monitor never times out.
LauncherEnds ==
    (\A w \in Workers : Closed(w)) ~> pc \in {"ended", "failed"}

\* As long as the launcher, a worker and a destination of it stay, every testcase
\* the worker shares gets to the destination.
EveryTestcaseArrives ==
    \A w, d \in Workers : \A t \in Testcases :
        (t \in shared[w] /\ <<GroupOf[w], GroupOf[d]>> \in Routes)
        ~> \/ t \in received[d] \cup shared[d]
           \/ process[w] # "running" \/ process[d] # "running" \/ pc = "failed"

\* Sharing dies out by itself, even if every import is found interesting and shared
\* again: this is the loop the seen testcases are kept for.
Quiet ==
    /\ batch = <<>>
    /\ \A w \in Workers :
         up[w] = <<>> /\ (process[w] = "running" => queue[w] = <<>> /\ down[w] = <<>>)

SharingDiesOut == <>[](Quiet \/ pc = "failed")
=============================================================================
