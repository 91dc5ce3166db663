----------------------------- MODULE Forkserver -----------------------------
(***************************************************************************)
(* The ForkserverExecutor and its channel: two pipes to a fork server in   *)
(* the target, which forks or resumes a child for every input.             *)
(*                                                                         *)
(* Each run is one request, one pid and one wait status; nothing in the    *)
(* pipes says which is which, and a run that times out leaves a status to  *)
(* be read and a flag for the next request.  The fork server and the child *)
(* are the target's: they do what the protocol of AFL++ has them do.       *)
(* Source: crates/libaflmm/src/executors/forkserver.                       *)
(***************************************************************************)
EXTENDS Naturals, Sequences

CONSTANTS
    KillSignals,    \* what the executor may be built with: "SIGTERM", "SIGKILL"
    CrashExitcodes, \* likewise, and None
    ExitCode,       \* what a child may exit with
    None,
    MaxRuns         \* bound of the model: inputs that are executed

SIGSTOP == 19

ASSUME ForkserverAssumption ==
    /\ KillSignals \subseteq {"SIGTERM", "SIGKILL"}
    /\ ExitCode \subseteq Nat /\ SIGSTOP \notin ExitCode
    /\ None \notin Nat
    /\ MaxRuns \in Nat

VARIABLES
    kill_signal, crash_exitcode,                    \* of the executor, for good
    pc,             \* where in execute_input or in drop the executor is
    child_pid, status, last_run_timed_out,          \* of its channel
    exit_kind,      \* what the last run was reported to be
    ctl, st,        \* the pipes
    server,         \* where in its loop the fork server is
    child_stopped,  \* its variable
    child,          \* the last process it forked
    runs,           \* history: inputs executed
    fate,           \* history: what the input of this run did to the child
    failed_at       \* history: where an execution failed

config == <<kill_signal, crash_exitcode>>
channel == <<child_pid, status, last_run_timed_out>>
serverVars == <<server, child_stopped>>
history == <<runs, fate, failed_at>>
vars == <<config, pc, channel, exit_kind, ctl, st, serverVars, child, history>>

-----------------------------------------------------------------------------
(* Processes.                                                              *)

\* A wait status, and what WEXITSTATUS makes of it, exited or not.
Status(how, code) == [how |-> how, code |-> code]
Exited(code) == Status("exited", code)
Signaled == Status("signaled", 0)
Stopped == Status("stopped", SIGSTOP)
Wait == {Exited(code) : code \in ExitCode} \cup {Exited(0), Signaled, Stopped}

\* The state of a child: what waitpid would say of it, or that it runs, or has
\* been reaped.  A signal is pending while the child is stopped.
Running == Status("running", 0)
Reaped == Status("reaped", 0)

NewChild(pid) == [pid |-> pid, state |-> Running, pending |-> FALSE]
Alive == child.state \in {Running, Stopped}
Ended == ~ Alive /\ child.state # Reaped

\* What kill(pid, signal) may do to the child: SIGKILL always ends it, SIGTERM
\* may have a handler in the target.
Killed(pid, signal) ==
    IF pid # child.pid \/ ~ Alive THEN {child}
    ELSE IF signal = "SIGKILL" THEN {[child EXCEPT !.state = Signaled]}
    ELSE IF child.state = Stopped THEN {[child EXCEPT !.pending = TRUE]}
    ELSE {child, [child EXCEPT !.state = Signaled]}

\* SIGCONT: a signal that waited is delivered.
Continued ==
    IF child.state # Stopped THEN {child}
    ELSE {NewChild(child.pid)} \cup
         (IF child.pending THEN {[child EXCEPT !.state = Signaled]} ELSE {})

Init ==
    /\ kill_signal \in KillSignals /\ crash_exitcode \in CrashExitcodes
    /\ pc = "idle" /\ exit_kind = "none"
    /\ child_pid = None /\ status = Exited(0) /\ last_run_timed_out = 0
    /\ ctl = <<>> /\ st = <<>>
    /\ server = "reading" /\ child_stopped = FALSE
    /\ child = [pid |-> 0, state |-> Reaped, pending |-> FALSE]
    /\ runs = 0 /\ fate = "none" /\ failed_at = "nowhere"

-----------------------------------------------------------------------------
(* ForkserverExecutor::execute_input.                                      *)

\* Mutation of ExecuteInput: the flag is reset before it is sent.
ExecuteInput_NotTold ==
    /\ pc = "idle" /\ server # "dead" /\ runs < MaxRuns
    /\ last_run_timed_out' = 0
    /\ ctl' = Append(ctl, 0)
    /\ pc' = "requested"
    /\ runs' = runs + 1 /\ fate' = "none"
    /\ UNCHANGED <<config, child_pid, status, exit_kind, st, serverVars, child, failed_at>>

\* The input is written and a child asked for.
ExecuteInput ==
    /\ pc = "idle" /\ server # "dead" /\ runs < MaxRuns
    /\ last_run_timed_out' = 0
    /\ ctl' = Append(ctl, last_run_timed_out)
    /\ pc' = "requested"
    /\ runs' = runs + 1 /\ fate' = "none"
    /\ UNCHANGED <<config, child_pid, status, exit_kind, st, serverVars, child, failed_at>>

\* The input cannot be written, or the request cannot.
ExecuteFails ==
    /\ pc = "idle"
    /\ pc' = "failed" /\ failed_at' = "idle"
    /\ last_run_timed_out' \in (IF server = "dead" THEN {0, last_run_timed_out}
                                                  ELSE {last_run_timed_out})
    /\ UNCHANGED <<config, child_pid, status, exit_kind, ctl, st, serverVars, child, runs, fate>>

ReadPid ==
    /\ pc = "requested" /\ st # <<>>
    /\ child_pid' = Head(st) /\ st' = Tail(st)
    /\ pc' = "waiting"
    /\ UNCHANGED <<config, status, last_run_timed_out, exit_kind, ctl, serverVars, child, history>>

\* A signal ended it, or it has the exit code that stands for a crash.
IsCrash(wait) == wait.how = "signaled" \/ wait.code = crash_exitcode

\* Mutation of KeptPid: the pid is forgotten after every run.
KeptPid_Never(wait) == None

\* Only a child that has stopped is still there.
KeptPid(wait) == IF wait.how = "stopped" THEN child_pid ELSE None

\* The status is there in time.
ReadStatus ==
    /\ pc = "waiting" /\ st # <<>>
    /\ status' = Head(st) /\ st' = Tail(st)
    /\ exit_kind' = IF IsCrash(Head(st)) THEN "crash" ELSE "ok"
    /\ child_pid' = KeptPid(Head(st))
    /\ pc' = "idle"
    /\ UNCHANGED <<config, last_run_timed_out, ctl, serverVars, child, history>>

\* It is not; it may come before the child is killed.
TimeOut ==
    /\ pc = "waiting" /\ st = <<>> /\ server # "dead"
    /\ last_run_timed_out' = 1
    /\ pc' = "killing"
    /\ UNCHANGED <<config, child_pid, status, exit_kind, ctl, st, serverVars, child, history>>

\* Mutation of KillChild: the child is left alone.
KillChild_Not ==
    /\ pc = "killing"
    /\ pc' = "draining"
    /\ UNCHANGED <<config, channel, exit_kind, ctl, st, serverVars, child, history>>

KillChild ==
    /\ pc = "killing"
    /\ child' \in Killed(child_pid, kill_signal)
    /\ pc' = "draining"
    /\ UNCHANGED <<config, channel, exit_kind, ctl, st, serverVars, history>>

\* The late status is read and not looked at: status is that of an earlier run.
ReadLate ==
    /\ pc = "draining" /\ st # <<>>
    /\ st' = Tail(st)
    /\ exit_kind' = "timeout"
    /\ child_pid' = KeptPid(status)
    /\ pc' = "idle"
    /\ UNCHANGED <<config, status, last_run_timed_out, ctl, serverVars, child, history>>

\* A read or the pselect is interrupted, or finds the fork server gone.
ReadFails ==
    /\ pc \in {"requested", "waiting", "draining"}
    /\ pc' = "failed" /\ failed_at' = pc
    /\ UNCHANGED <<config, channel, exit_kind, ctl, st, serverVars, child, runs, fate>>

-----------------------------------------------------------------------------
(* Drop: the child, if its pid is known, the pipes, then the fork server.  *)

DropChild ==
    /\ pc \in {"idle", "failed"}
    /\ child' \in Killed(child_pid, kill_signal)
    /\ pc' = "dropping"
    /\ UNCHANGED <<config, channel, exit_kind, ctl, st, serverVars, history>>

\* On SIGTERM the fork server may end its child before itself.
DropServer ==
    /\ pc = "dropping"
    /\ child' \in {child} \cup (IF kill_signal = "SIGTERM" /\ server # "dead"
                                THEN Killed(child.pid, "SIGKILL") ELSE {})
    /\ server' = "dead"
    /\ pc' = "dropped"
    /\ UNCHANGED <<config, channel, exit_kind, ctl, st, child_stopped, history>>

Executor ==
    \/ ReadPid \/ ReadStatus \/ TimeOut \/ KillChild \/ ReadLate

-----------------------------------------------------------------------------
(* The fork server.                                                        *)

\* A child that was killed after it had stopped is waited for.
ServerReads ==
    /\ server = "reading" /\ ctl # <<>>
    /\ ctl' = Tail(ctl)
    /\ server' = IF child_stopped /\ Head(ctl) # 0 THEN "reaping" ELSE "starting"
    /\ child_stopped' = (child_stopped /\ Head(ctl) = 0)
    /\ UNCHANGED <<config, pc, channel, exit_kind, st, child, history>>

ServerReaps ==
    /\ server = "reaping" /\ Ended
    /\ child' = [child EXCEPT !.state = Reaped]
    /\ server' = "starting"
    /\ UNCHANGED <<config, pc, channel, exit_kind, ctl, st, child_stopped, history>>

\* A new child, or the stopped one again.
ServerStarts ==
    /\ server = "starting"
    /\ child' \in (IF child_stopped THEN Continued ELSE {NewChild(child.pid + 1)})
    /\ st' = Append(st, child'.pid)
    /\ server' = "waiting" /\ child_stopped' = FALSE
    /\ UNCHANGED <<config, pc, channel, exit_kind, ctl, history>>

ServerWaits ==
    /\ server = "waiting" /\ (Ended \/ child.state = Stopped)
    /\ st' = Append(st, child.state)
    /\ child_stopped' = (child.state = Stopped)
    /\ child' = IF Ended THEN [child EXCEPT !.state = Reaped] ELSE child
    /\ server' = "reading"
    /\ UNCHANGED <<config, pc, channel, exit_kind, ctl, history>>

Server == ServerReads \/ ServerReaps \/ ServerStarts \/ ServerWaits

\* Out of memory, say.
ServerDies ==
    /\ server # "dead" /\ pc # "dropped"
    /\ server' = "dead"
    /\ UNCHANGED <<config, pc, channel, exit_kind, ctl, st, child_stopped, child, history>>

-----------------------------------------------------------------------------
(* The child, which need not do any of it.                                 *)

ChildEnds(wait, why) ==
    /\ child.state = Running
    /\ child' = [child EXCEPT !.state = wait]
    /\ fate' = why
    /\ UNCHANGED <<config, pc, channel, exit_kind, ctl, st, serverVars, runs, failed_at>>

ChildExits == \E code \in ExitCode :
    ChildEnds(Exited(code), IF code = crash_exitcode THEN "crashed" ELSE "finished")
ChildCrashes == ChildEnds(Signaled, "crashed")
\* The persistent loop has done with the input.
ChildStops == ChildEnds(Stopped, "finished")

Child == ChildExits \/ ChildCrashes \/ ChildStops

Next ==
    \/ ExecuteInput \/ ExecuteFails \/ Executor \/ ReadFails \/ DropChild \/ DropServer
    \/ Server \/ ServerDies \/ Child

Spec == Init /\ [][Next]_vars

\* The executor and the fork server go on, and pselect has a timeout; a child
\* may run for ever.
FairSpec == Spec /\ WF_vars(Executor) /\ WF_vars(Server)

-----------------------------------------------------------------------------
(* Properties.                                                             *)

\* A run is reported to have crashed if and only if its own input crashed the
\* child, unless it was reported to have timed out: no status, and no child
\* that was killed meanwhile, is taken for the next run's.
VerdictsAreRight ==
    (pc = "idle" /\ crash_exitcode # SIGSTOP) =>
        /\ exit_kind = "crash" => fate = "crashed"
        /\ exit_kind = "ok" => fate = "finished"

\* An executor that kills for sure leaves no child behind, whatever failed,
\* except one whose pid it was never told.
DropLeavesNoChild ==
    (pc = "dropped" /\ kill_signal = "SIGKILL" /\ failed_at # "requested") =>
        ~ Alive

\* An execution ends, however long the target would run, if the signal kills.
ExecutionEnds ==
    (pc = "requested" /\ kill_signal = "SIGKILL" /\ server # "dead")
        ~> (pc \in {"idle", "failed"} \/ server = "dead")
=============================================================================
