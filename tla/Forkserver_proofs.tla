------------------------- MODULE Forkserver_proofs -------------------------
(***************************************************************************)
(* Proofs about Forkserver: the pipes stay in step, so that every verdict  *)
(* is of the input it is given for, an executor that kills with SIGKILL    *)
(* leaves no child it knows of behind, and waits for nobody who waits.     *)
(***************************************************************************)
EXTENDS Forkserver, SequenceTheorems, TLAPS

TypeInv ==
    /\ kill_signal \in KillSignals
    /\ pc \in {"idle", "requested", "waiting", "killing", "draining", "failed", "dropping",
               "dropped"}
    /\ child \in [pid : Nat, state : Wait \cup {Running, Reaped}, pending : BOOLEAN]
    /\ child_pid \in Nat \cup {None}
    /\ status \in Wait
    /\ last_run_timed_out \in {0, 1} /\ child_stopped \in BOOLEAN
    /\ server \in {"reading", "reaping", "starting", "waiting", "dead"}
    /\ failed_at \in {"nowhere", "idle", "requested", "waiting", "draining"}

\* Between two runs: a child that stopped is still to be reaped, and is as it
\* stopped unless the fork server has been, or will be, told that it was killed.
AtRest(told) ==
    /\ child.state # Running
    /\ child_stopped <=> child.state # Reaped
    /\ (told = 0 /\ child_stopped) => child.state = Stopped /\ ~ child.pending

\* What became of a child agrees with what this run's input did to it.
Fits(state) ==
    /\ state # Reaped
    /\ state = Running => fate = "none"
    /\ state = Stopped => fate = "finished"
    /\ state = Signaled => fate = "crashed"
    /\ state.how = "exited" =>
         fate = (IF state.code = crash_exitcode THEN "crashed" ELSE "finished")

InRun == ~ child.pending /\ Fits(child.state)

\* The fork server has relayed this status, and nothing has happened since.
Reported(wait) ==
    /\ Fits(wait) /\ ~ child.pending
    /\ child.state = (IF wait = Stopped THEN Stopped ELSE Reaped)
    /\ child_stopped <=> wait = Stopped

Idle ==
    /\ ctl = <<>> /\ st = <<>> /\ server \in {"reading", "dead"}
    /\ AtRest(last_run_timed_out)
    /\ VerdictsAreRight

Asked ==
    /\ st = <<>>
    /\ server # "dead" => fate = "none"
    /\ \/ server = "dead"
       \/ server = "reading" /\ \E told \in {0, 1} : ctl = <<told>> /\ AtRest(told)
       \/ /\ server = "reaping" /\ ctl = <<>>
          /\ ~ child_stopped /\ child.state \notin {Running, Reaped}
       \/ server = "starting" /\ ctl = <<>> /\ AtRest(0)

Requested ==
    /\ last_run_timed_out = 0
    /\ \/ Asked
       \/ /\ ctl = <<>> /\ st = <<child.pid>>
          /\ server \in {"waiting", "dead"} /\ InRun
       \/ /\ ctl = <<>> /\ server \in {"reading", "dead"}
          /\ \E w \in Wait : st = <<child.pid, w>> /\ Reported(w)

Waiting ==
    /\ ctl = <<>> /\ child_pid = child.pid
    /\ \/ st = <<>> /\ server \in {"waiting", "dead"} /\ InRun
       \/ /\ server \in {"reading", "dead"}
          /\ \E w \in Wait : st = <<w>> /\ Reported(w)

Draining ==
    /\ ctl = <<>>
    /\ \/ st = <<>> /\ server \in {"waiting", "dead"} /\ child.state # Reaped
       \/ /\ server \in {"reading", "dead"} /\ AtRest(1)
          /\ \E w \in Wait : st = <<w>>

\* Where the executor and the fork server are in their conversation.
InStep ==
    /\ pc = "idle" => Idle
    /\ pc = "requested" => Requested
    /\ pc = "waiting" => Waiting /\ last_run_timed_out = 0
    /\ pc = "killing" => Waiting /\ last_run_timed_out = 1
    /\ pc = "draining" => Draining /\ last_run_timed_out = 1
    /\ (pc \in {"failed", "dropping"} /\ failed_at # "requested") =>
         ctl = <<>> /\ server \notin {"starting", "reaping"}
    /\ pc = "dropped" => server = "dead"
    /\ pc \in {"idle", "requested", "waiting", "killing", "draining"} => failed_at = "nowhere"

\* A child that may still run is one the executor can kill, or has killed.
PidIsKnown ==
    (kill_signal = "SIGKILL" /\ failed_at # "requested") =>
        /\ (pc \in {"idle", "waiting", "killing", "failed"} /\ Alive) => child_pid = child.pid
        /\ pc \in {"draining", "dropping", "dropped"} => ~ Alive

IInv == TypeInv /\ InStep /\ PidIsKnown

\* No two of the states of a child are the same, and none is an exit.
LEMMA StatesDiffer ==
    /\ Running # Reaped /\ Running # Stopped /\ Running # Signaled
    /\ Reaped # Stopped /\ Reaped # Signaled /\ Stopped # Signaled
    /\ Running \notin Wait /\ Reaped \notin Wait /\ Stopped \in Wait /\ Signaled \in Wait
    /\ Running.how = "running" /\ Reaped.how = "reaped"
    /\ Stopped.how = "stopped" /\ Signaled.how = "signaled"
    /\ \A code : Exited(code).how = "exited" /\ Exited(code).code = code
    /\ \A code \in ExitCode : Exited(code) \in Wait
    /\ Exited(0) \in Wait
    /\ \A w \in Wait : /\ w.how = "stopped" <=> w = Stopped
                       /\ w.how = "signaled" <=> w = Signaled
                       /\ w.how \in {"exited", "stopped", "signaled"}
<1>. USE DEF Running, Reaped, Stopped, Signaled, Exited, Status
<1>1. /\ Running.how = "running" /\ Reaped.how = "reaped"
      /\ Stopped.how = "stopped" /\ Signaled.how = "signaled"
      /\ \A code : Exited(code).how = "exited" /\ Exited(code).code = code
  OBVIOUS
<1>2. /\ Running # Reaped /\ Running # Stopped /\ Running # Signaled
      /\ Reaped # Stopped /\ Reaped # Signaled /\ Stopped # Signaled
  OBVIOUS
<1>3. /\ Stopped \in Wait /\ Signaled \in Wait /\ Exited(0) \in Wait
      /\ \A code \in ExitCode : Exited(code) \in Wait
  BY DEF Wait
<1>. HIDE DEF Running, Reaped, Stopped, Signaled, Exited, Status
<1>4. \A w \in Wait : w = Stopped \/ w = Signaled \/ \E code : w = Exited(code)
  BY DEF Wait
<1>5. \A w \in Wait : /\ w.how = "stopped" <=> w = Stopped
                      /\ w.how = "signaled" <=> w = Signaled
                      /\ w.how \in {"exited", "stopped", "signaled"}
  BY <1>1, <1>4
<1>. QED
  BY <1>1, <1>2, <1>3, <1>5

\* What a signal may do to a child.
LEMMA KilledIs ==
  ASSUME TypeInv, NEW pid, NEW signal, NEW c \in Killed(pid, signal)
  PROVE  /\ c \in [pid : Nat, state : Wait \cup {Running, Reaped}, pending : BOOLEAN]
         /\ c.pid = child.pid
         /\ ~ Alive => c = child
         /\ Alive => c.state \in {child.state, Signaled}
         /\ (signal = "SIGKILL" /\ (Alive => pid = child.pid)) =>
              c.state \notin {Running, Stopped}
<1>1. child \in [pid : Nat, state : Wait \cup {Running, Reaped}, pending : BOOLEAN]
  BY DEF TypeInv
<1>2. CASE c = child /\ (signal # "SIGKILL" \/ pid # child.pid \/ ~ Alive)
  BY <1>1, <1>2 DEF Alive
<1>3. CASE c = [child EXCEPT !.state = Signaled] /\ Alive
  <2>1. c.state = Signaled /\ c.pid = child.pid
    BY <1>1, <1>3
  <2>. QED
    BY <1>1, <1>3, <2>1, StatesDiffer
<1>4. CASE c = [child EXCEPT !.pending = TRUE] /\ signal # "SIGKILL" /\ Alive
  <2>1. c.state = child.state /\ c.pid = child.pid
    BY <1>1, <1>4
  <2>. QED
    BY <1>1, <1>4, <2>1
<1>. QED
  BY <1>2, <1>3, <1>4 DEF Killed

\* A pipe with one message, and another.
LEMMA AppendToOne ==
  ASSUME NEW S, NEW a \in S, NEW b \in S
  PROVE  Append(<<a>>, b) = <<a, b>>
<1>1. <<a>> \in Seq(S) /\ <<a, b>> \in Seq(S) /\ Len(<<a>>) = 1 /\ Len(<<a, b>>) = 2
  OBVIOUS
<1>2. Append(<<a>>, b) \in Seq(S) /\ Len(Append(<<a>>, b)) = 2
  BY <1>1
<1>3. Append(<<a>>, b)[1] = a /\ Append(<<a>>, b)[2] = b
  BY <1>1
<1>4. \A i \in 1 .. 2 : Append(<<a>>, b)[i] = <<a, b>>[i]
  <2>1. \A i \in 1 .. 2 : i = 1 \/ i = 2
    OBVIOUS
  <2>. QED
    BY <1>3, <2>1
<1>. QED
  BY <1>1, <1>2, <1>4, SeqEqual

\* Initially.
LEMMA IInvInit == Init => IInv
<1>. SUFFICES ASSUME Init PROVE IInv
  OBVIOUS
<1>1. TypeInv
  BY StatesDiffer DEF Init, TypeInv
<1>2. InStep /\ PidIsKnown
  BY StatesDiffer DEF Init, InStep, Idle, AtRest, VerdictsAreRight, PidIsKnown, Alive
<1>. QED
  BY <1>1, <1>2 DEF IInv

-----------------------------------------------------------------------------
(* Every step.                                                             *)

LEMMA IInvStep == IInv /\ [Next]_vars => IInv'
<1>. SUFFICES ASSUME IInv, [Next]_vars PROVE IInv'
  OBVIOUS
<1>. USE DEF config, channel, serverVars, history
<1>0. TypeInv /\ InStep /\ PidIsKnown
  BY DEF IInv
<1>1. CASE ExecuteInput
  <2>1. TypeInv'
    BY <1>0, <1>1 DEF ExecuteInput, TypeInv
  <2>2. Idle /\ ctl' = <<last_run_timed_out>> /\ st' = <<>> /\ server = "reading"
    BY <1>0, <1>1 DEF ExecuteInput, InStep, Idle
  <2>3. Requested'
    BY <1>0, <1>1, <2>2 DEF ExecuteInput, Idle, Requested, Asked, AtRest, TypeInv
  <2>4. InStep' /\ PidIsKnown'
    BY <1>0, <1>1, <2>3 DEF ExecuteInput, InStep, PidIsKnown
  <2>. QED
    BY <2>1, <2>4 DEF IInv
<1>2. CASE ExecuteFails
  BY <1>0, <1>2 DEF ExecuteFails, IInv, TypeInv, InStep, Idle, PidIsKnown, Alive
<1>3. CASE ReadPid
  <2>1. Requested /\ failed_at = "nowhere"
    BY <1>0, <1>3 DEF ReadPid, InStep
  <2>2. child_pid' = child.pid /\ Waiting'
    <3>1. CASE st = <<child.pid>> /\ ctl = <<>> /\ server \in {"waiting", "dead"} /\ InRun
      <4>1. child_pid' = child.pid /\ st' = <<>>
        BY <1>3, <3>1 DEF ReadPid
      <4>. QED
        BY <1>3, <3>1, <4>1 DEF ReadPid, Waiting, InRun, Fits
    <3>2. ASSUME NEW w \in Wait, st = <<child.pid, w>>, Reported(w),
                 ctl = <<>>, server \in {"reading", "dead"}
          PROVE  child_pid' = child.pid /\ Waiting'
      <4>1. child_pid' = child.pid /\ st' = <<w>>
        BY <1>3, <3>2 DEF ReadPid
      <4>2. Reported(w)'
        BY <1>3, <3>2 DEF ReadPid, Reported, Fits
      <4>. QED
        BY <1>3, <3>2, <4>1, <4>2 DEF ReadPid, Waiting
    <3>. QED
      BY <1>3, <2>1, <3>1, <3>2 DEF Requested, Asked, ReadPid
  <2>3. TypeInv'
    BY <1>0, <1>3, <2>2 DEF ReadPid, TypeInv
  <2>4. InStep' /\ PidIsKnown'
    BY <1>3, <2>1, <2>2 DEF ReadPid, InStep, Requested, PidIsKnown
  <2>. QED
    BY <2>3, <2>4 DEF IInv
<1>4. CASE ReadStatus
  <2>1. Waiting /\ last_run_timed_out = 0 /\ failed_at = "nowhere"
    BY <1>0, <1>4 DEF ReadStatus, InStep
  <2>2. PICK w \in Wait : st = <<w>> /\ Reported(w)
    BY <1>4, <2>1 DEF Waiting, ReadStatus
  <2>3. /\ status' = w /\ st' = <<>> /\ pc' = "idle"
        /\ exit_kind' = (IF IsCrash(w) THEN "crash" ELSE "ok")
        /\ child_pid' = KeptPid(w)
    BY <1>4, <2>2 DEF ReadStatus
  <2>4. TypeInv'
    BY <1>0, <1>4, <2>3 DEF ReadStatus, TypeInv, KeptPid
  <2>5. VerdictsAreRight'
    BY <1>4, <2>2, <2>3, StatesDiffer
    DEF ReadStatus, VerdictsAreRight, IsCrash, Reported, Fits, Stopped, Signaled, Status
  <2>6. Idle'
    BY <1>4, <2>1, <2>2, <2>3, <2>5, StatesDiffer
    DEF ReadStatus, Idle, AtRest, Reported, Waiting
  <2>7. PidIsKnown'
    BY <1>4, <2>1, <2>2, <2>3, StatesDiffer
    DEF ReadStatus, PidIsKnown, Alive, Reported, KeptPid, Waiting
  <2>. QED
    BY <1>4, <2>1, <2>3, <2>4, <2>6, <2>7 DEF ReadStatus, IInv, InStep
<1>5. CASE TimeOut
  <2>1. Waiting'
    BY <1>0, <1>5 DEF TimeOut, InStep, Waiting, InRun, Fits
  <2>. QED
    BY <1>0, <1>5, <2>1 DEF TimeOut, IInv, TypeInv, InStep, PidIsKnown, Alive
<1>6. CASE KillChild
  <2>1. Waiting /\ last_run_timed_out = 1 /\ failed_at = "nowhere"
    BY <1>0, <1>6 DEF KillChild, InStep
  <2>2. /\ child' \in [pid : Nat, state : Wait \cup {Running, Reaped}, pending : BOOLEAN]
        /\ child'.pid = child.pid
        /\ ~ Alive => child' = child
        /\ Alive => child'.state \in {child.state, Signaled}
        /\ kill_signal = "SIGKILL" => child'.state \notin {Running, Stopped}
    BY <1>0, <1>6, <2>1, KilledIs DEF KillChild, Waiting
  <2>3. TypeInv'
    BY <1>0, <1>6, <2>2 DEF KillChild, TypeInv
  <2>4. Draining'
    <3>1. CASE st = <<>> /\ server \in {"waiting", "dead"} /\ InRun
      BY <1>6, <2>1, <2>2, <3>1, StatesDiffer DEF KillChild, Draining, Waiting, InRun, Fits, Alive
    <3>2. ASSUME NEW w \in Wait, st = <<w>>, Reported(w), server \in {"reading", "dead"}
          PROVE  Draining'
      <4>1. AtRest(1)'
        BY <1>6, <2>2, <3>2, StatesDiffer DEF KillChild, AtRest, Reported, Alive
      <4>. QED
        BY <1>6, <2>1, <3>2, <4>1 DEF KillChild, Draining, Waiting
    <3>. QED
      BY <2>1, <3>1, <3>2 DEF Waiting
  <2>5. PidIsKnown'
    BY <1>6, <2>2 DEF KillChild, PidIsKnown, Alive
  <2>. QED
    BY <1>6, <2>1, <2>3, <2>4, <2>5 DEF KillChild, IInv, InStep
<1>7. CASE ReadLate
  <2>1. Draining /\ last_run_timed_out = 1 /\ failed_at = "nowhere"
    BY <1>0, <1>7 DEF ReadLate, InStep
  <2>2. st' = <<>> /\ server \in {"reading", "dead"} /\ AtRest(1)
    <3>1. PICK w \in Wait : st = <<w>>
      BY <1>7, <2>1 DEF Draining, ReadLate
    <3>2. st' = <<>>
      BY <1>7, <3>1 DEF ReadLate
    <3>. QED
      BY <1>7, <2>1, <3>2 DEF Draining, ReadLate
  <2>3. Idle'
    BY <1>7, <2>1, <2>2 DEF ReadLate, Idle, AtRest, VerdictsAreRight, Draining
  <2>4. TypeInv'
    BY <1>0, <1>7 DEF ReadLate, TypeInv, KeptPid
  <2>5. PidIsKnown'
    BY <1>0, <1>7 DEF ReadLate, PidIsKnown, Alive
  <2>. QED
    BY <1>7, <2>1, <2>3, <2>4, <2>5 DEF ReadLate, IInv, InStep
<1>8. CASE ReadFails
  <2>1. pc # "requested" => ctl = <<>> /\ server \notin {"starting", "reaping"}
    BY <1>0, <1>8 DEF ReadFails, InStep, Waiting, Draining
  <2>2. InStep'
    BY <1>8, <2>1 DEF ReadFails, InStep
  <2>3. PidIsKnown' /\ TypeInv'
    BY <1>0, <1>8 DEF ReadFails, PidIsKnown, Alive, TypeInv, InStep
  <2>. QED
    BY <2>2, <2>3 DEF IInv
<1>9. CASE DropChild
  <2>1. /\ child' \in [pid : Nat, state : Wait \cup {Running, Reaped}, pending : BOOLEAN]
        /\ (kill_signal = "SIGKILL" /\ (Alive => child_pid = child.pid)) =>
              child'.state \notin {Running, Stopped}
    BY <1>0, <1>9, KilledIs DEF DropChild
  <2>2. InStep'
    BY <1>0, <1>9 DEF DropChild, InStep, Idle
  <2>3. PidIsKnown' /\ TypeInv'
    BY <1>0, <1>9, <2>1 DEF DropChild, PidIsKnown, Alive, TypeInv
  <2>. QED
    BY <2>2, <2>3 DEF IInv
<1>10. CASE DropServer
  <2>1. child' \in [pid : Nat, state : Wait \cup {Running, Reaped}, pending : BOOLEAN]
    BY <1>0, <1>10, KilledIs DEF DropServer, TypeInv
  <2>2. kill_signal = "SIGKILL" => child' = child
    BY <1>10 DEF DropServer
  <2>. QED
    BY <1>0, <1>10, <2>1, <2>2 DEF DropServer, IInv, TypeInv, InStep, PidIsKnown, Alive
<1>11. CASE ServerReads
  <2>1. ctl # <<>> /\ server = "reading"
    BY <1>11 DEF ServerReads
  <2>2. pc \in {"requested"} \/ (pc \in {"failed", "dropping"} /\ failed_at = "requested")
    BY <1>0, <2>1 DEF InStep, Idle, Waiting, Draining, TypeInv
  <2>3. TypeInv'
    BY <1>0, <1>11 DEF ServerReads, TypeInv
  <2>4. ASSUME pc = "requested" PROVE Requested'
    <3>1. Asked
      BY <1>0, <2>1, <2>4 DEF InStep, Requested
    <3>2. PICK told \in {0, 1} : ctl = <<told>> /\ AtRest(told)
      BY <2>1, <3>1 DEF Asked
    <3>3. Head(ctl) = told /\ ctl' = <<>>
      BY <1>11, <3>2 DEF ServerReads
    <3>4. Asked'
      BY <1>11, <3>1, <3>2, <3>3 DEF ServerReads, Asked, AtRest
    <3>. QED
      BY <1>0, <1>11, <2>4, <3>4 DEF ServerReads, Requested, InStep
  <2>5. InStep' /\ PidIsKnown'
    BY <1>0, <1>11, <2>2, <2>4 DEF ServerReads, InStep, PidIsKnown
  <2>. QED
    BY <2>3, <2>5 DEF IInv
<1>12. CASE ServerReaps
  <2>1. server = "reaping"
    BY <1>12 DEF ServerReaps
  <2>2. pc \in {"requested"} \/ (pc \in {"failed", "dropping"} /\ failed_at = "requested")
    BY <1>0, <2>1 DEF InStep, Idle, Waiting, Draining, TypeInv
  <2>3. child' = [child EXCEPT !.state = Reaped] /\ child'.state = Reaped
        /\ child'.pid = child.pid /\ child'.pending = child.pending
    BY <1>0, <1>12 DEF ServerReaps, TypeInv
  <2>4. TypeInv'
    BY <1>0, <1>12, <2>3 DEF ServerReaps, TypeInv
  <2>5. InStep' /\ PidIsKnown'
    BY <1>0, <1>12, <2>2, <2>3, StatesDiffer
    DEF ServerReaps, InStep, PidIsKnown, Requested, Asked, AtRest, Ended, Alive
  <2>. QED
    BY <2>4, <2>5 DEF IInv
<1>13. CASE ServerStarts
  <2>1. server = "starting"
    BY <1>13 DEF ServerStarts
  <2>2. pc \in {"requested"} \/ (pc \in {"failed", "dropping"} /\ failed_at = "requested")
    BY <1>0, <2>1 DEF InStep, Idle, Waiting, Draining, TypeInv
  <2>3. /\ child' \in [pid : Nat, state : Wait \cup {Running, Reaped}, pending : BOOLEAN]
        /\ child_stopped /\ child.state = Stopped /\ ~ child.pending => child' = NewChild(child.pid)
        /\ ~ child_stopped => child' = NewChild(child.pid + 1)
    <3>1. child.pid \in Nat /\ child.pid + 1 \in Nat
      BY <1>0 DEF TypeInv
    <3>2. \A p \in Nat : NewChild(p) \in [pid : Nat, state : Wait \cup {Running, Reaped}, pending : BOOLEAN]
      BY DEF NewChild
    <3>3. CASE ~ child_stopped
      <4>1. child' = NewChild(child.pid + 1)
        BY <1>13, <3>3 DEF ServerStarts
      <4>. QED
        BY <3>1, <3>2, <3>3, <4>1
    <3>4. CASE child_stopped
      <4>1. child' \in Continued
        BY <1>13, <3>4 DEF ServerStarts
      <4>2. [child EXCEPT !.state = Signaled] \in
              [pid : Nat, state : Wait \cup {Running, Reaped}, pending : BOOLEAN]
        BY <1>0, StatesDiffer DEF TypeInv
      <4>3. child \in [pid : Nat, state : Wait \cup {Running, Reaped}, pending : BOOLEAN]
        BY <1>0 DEF TypeInv
      <4>4. child' \in {child, NewChild(child.pid), [child EXCEPT !.state = Signaled]}
        BY <4>1 DEF Continued
      <4>5. child.state = Stopped /\ ~ child.pending => child' = NewChild(child.pid)
        BY <4>1 DEF Continued
      <4>. QED
        BY <3>1, <3>2, <3>4, <4>2, <4>3, <4>4, <4>5
    <3>. QED
      BY <3>3, <3>4
  <2>4. TypeInv'
    BY <1>0, <1>13, <2>3 DEF ServerStarts, TypeInv
  <2>5. ASSUME pc = "requested" PROVE Requested'
    <3>1. Asked /\ AtRest(0) /\ ctl = <<>> /\ st = <<>>
          /\ fate = "none"
      BY <1>0, <2>1, <2>5 DEF InStep, Requested, Asked
    <3>2. child'.state = Running /\ child'.pending = FALSE
      BY <1>0, <2>3, <3>1, StatesDiffer DEF AtRest, NewChild, TypeInv
    <3>3. InRun'
      BY <1>13, <3>1, <3>2, StatesDiffer DEF ServerStarts, InRun, Fits
    <3>4. st' = <<child'.pid>>
      BY <1>13, <3>1 DEF ServerStarts
    <3>. QED
      BY <1>0, <1>13, <2>5, <3>1, <3>3, <3>4 DEF ServerStarts, Requested, InStep
  <2>6. InStep' /\ PidIsKnown'
    BY <1>0, <1>13, <2>2, <2>5 DEF ServerStarts, InStep, PidIsKnown
  <2>. QED
    BY <2>4, <2>6 DEF IInv
<1>14. CASE ServerWaits
  <2>1. /\ server = "waiting" /\ server' = "reading"
        /\ child.state \notin {Running, Reaped} /\ child.state \in Wait
        /\ st' = Append(st, child.state)
        /\ child_stopped' <=> child.state = Stopped
        /\ child'.state = (IF child.state = Stopped THEN Stopped ELSE Reaped)
        /\ child' \in [pid : Nat, state : Wait \cup {Running, Reaped}, pending : BOOLEAN]
        /\ child'.pid = child.pid /\ child'.pending = child.pending
    BY <1>0, <1>14, StatesDiffer DEF ServerWaits, TypeInv, Ended, Alive
  <2>2. TypeInv'
    BY <1>0, <1>14, <2>1 DEF ServerWaits, TypeInv
  <2>3. InRun => \A w : w = child.state => Reported(w)'
    BY <1>14, <2>1, StatesDiffer DEF ServerWaits, InRun, Reported, Fits
  <2>4. pc = "requested" => Requested'
    <3>1. SUFFICES ASSUME pc = "requested" PROVE Requested'
      OBVIOUS
    <3>2. Requested
      BY <1>0, <3>1 DEF InStep
    <3>3. ctl = <<>> /\ st = <<child.pid>> /\ InRun
      BY <2>1, <3>2 DEF Requested, Asked
    <3>4. st' = <<child'.pid, child.state>>
      <4>1. child.pid \in Nat \cup Wait /\ child.state \in Nat \cup Wait
        BY <1>0, <2>1 DEF TypeInv
      <4>2. Append(<<child.pid>>, child.state) = <<child.pid, child.state>>
        BY <4>1, AppendToOne
      <4>3. st' = Append(<<child.pid>>, child.state)
        BY <2>1, <3>3
      <4>. QED
        BY <2>1, <4>2, <4>3, Zenon
    <3>5. \E w \in Wait : st' = <<child'.pid, w>> /\ Reported(w)'
      BY <2>1, <2>3, <3>3, <3>4
    <3>. QED
      BY <1>14, <2>1, <3>2, <3>3, <3>5 DEF ServerWaits, Requested
  <2>5. pc \in {"waiting", "killing"} => Waiting'
    <3>1. SUFFICES ASSUME pc \in {"waiting", "killing"} PROVE Waiting'
      OBVIOUS
    <3>2. Waiting
      BY <1>0, <3>1 DEF InStep
    <3>3. ctl = <<>> /\ st = <<>> /\ InRun /\ child_pid = child.pid
      BY <2>1, <3>2 DEF Waiting
    <3>4. st' = <<child.state>>
      BY <2>1, <3>3
    <3>5. \E w \in Wait : st' = <<w>> /\ Reported(w)'
      BY <2>1, <2>3, <3>3, <3>4
    <3>. QED
      BY <1>14, <2>1, <3>3, <3>5 DEF ServerWaits, Waiting
  <2>6. pc = "draining" => Draining'
    <3>1. SUFFICES ASSUME pc = "draining" PROVE Draining'
      OBVIOUS
    <3>2. ctl = <<>> /\ st = <<>>
      BY <1>0, <2>1, <3>1 DEF InStep, Draining
    <3>3. st' = <<child.state>>
      BY <2>1, <3>2
    <3>4. AtRest(1)'
      BY <2>1, StatesDiffer DEF AtRest
    <3>. QED
      BY <1>14, <2>1, <3>2, <3>3, <3>4 DEF ServerWaits, Draining
  <2>7. PidIsKnown'
    BY <1>0, <1>14, <2>1, StatesDiffer DEF ServerWaits, PidIsKnown, Alive
  <2>8. pc \notin {"idle", "dropped"}
    BY <1>0, <2>1 DEF InStep, Idle
  <2>. QED
    BY <1>0, <1>14, <2>2, <2>4, <2>5, <2>6, <2>7, <2>8 DEF ServerWaits, IInv, InStep
<1>15. CASE ServerDies
  <2>1. UNCHANGED <<config, pc, channel, exit_kind, ctl, st, child_stopped, child, history>>
        /\ server' = "dead"
    BY <1>15 DEF ServerDies
  <2>2. \A w : Reported(w)' <=> Reported(w)
    BY <2>1 DEF Reported, Fits
  <2>3. InStep'
    BY <1>0, <2>1, <2>2
    DEF InStep, Idle, AtRest, VerdictsAreRight, Requested, Asked, InRun, Fits, Waiting, Draining
  <2>. QED
    BY <1>0, <2>1, <2>3 DEF IInv, TypeInv, PidIsKnown, Alive
<1>16. CASE Child
  <2>1. PICK wait \in Wait, why \in {"crashed", "finished"} :
          /\ ChildEnds(wait, why)
          /\ wait = Stopped => why = "finished"
          /\ wait = Signaled => why = "crashed"
          /\ wait.how = "exited" =>
               why = (IF wait.code = crash_exitcode THEN "crashed" ELSE "finished")
    BY <1>16, StatesDiffer DEF Child, ChildExits, ChildCrashes, ChildStops
  <2>2. /\ child.state = Running /\ child'.state = wait /\ fate' = why
        /\ child'.pid = child.pid /\ child'.pending = child.pending
        /\ child' \in [pid : Nat, state : Wait \cup {Running, Reaped}, pending : BOOLEAN]
        /\ UNCHANGED <<config, pc, channel, exit_kind, ctl, st, serverVars, runs, failed_at>>
    BY <1>0, <2>1 DEF ChildEnds, TypeInv
  <2>3. InRun => InRun'
    BY <2>1, <2>2, StatesDiffer DEF InRun, Fits
  <2>4. pc # "idle"
    BY <1>0, <2>2 DEF InStep, Idle, AtRest
  <2>5. \A w \in Wait : ~ Reported(w)
    BY <2>2, StatesDiffer DEF Reported
  <2>6. pc = "requested" => Requested'
    <3>1. SUFFICES ASSUME pc = "requested" PROVE Requested'
      OBVIOUS
    <3>2. Requested
      BY <1>0, <3>1 DEF InStep
    <3>3. (Asked /\ server = "dead") \/ (ctl = <<>> /\ st = <<child.pid>> /\ server \in {"waiting", "dead"} /\ InRun)
      BY <2>2, <2>5, <3>2, StatesDiffer DEF Requested, Asked, AtRest
    <3>. QED
      BY <2>2, <2>3, <3>2, <3>3 DEF Requested, Asked
  <2>7. pc \in {"waiting", "killing"} => Waiting'
    BY <1>0, <2>2, <2>3, <2>5 DEF InStep, Waiting
  <2>8. pc = "draining" => Draining'
    BY <1>0, <2>2, StatesDiffer DEF InStep, Draining, AtRest
  <2>9. PidIsKnown' /\ TypeInv'
    BY <1>0, <2>2, StatesDiffer DEF PidIsKnown, Alive, TypeInv
  <2>. QED
    BY <1>0, <2>2, <2>4, <2>6, <2>7, <2>8, <2>9 DEF IInv, InStep
<1>17. CASE UNCHANGED vars
  BY <1>0, <1>17
  DEF vars, IInv, TypeInv, InStep, PidIsKnown, Alive, Idle, AtRest, VerdictsAreRight, Requested,
      Asked, InRun, Reported, Fits, Waiting, Draining
<1>. QED
  BY <1>1, <1>2, <1>3, <1>4, <1>5, <1>6, <1>7, <1>8, <1>9, <1>10, <1>11, <1>12, <1>13, <1>14,
     <1>15, <1>16, <1>17 DEF Next, Executor, Server

-----------------------------------------------------------------------------
(* The theorems.                                                           *)

\* A verdict is of the input it is given for, however the child and the fork
\* server interleave with the timeout, and whatever signal kills.
THEOREM VerdictsAreOfTheirInput == Spec => []VerdictsAreRight
<1>1. IInv => VerdictsAreRight
  BY DEF IInv, InStep, Idle, VerdictsAreRight
<1>. QED
  BY IInvInit, IInvStep, <1>1, PTL DEF Spec

\* A dropped executor that kills for sure leaves no child it knew of.
THEOREM NoChildIsLeft == Spec => []DropLeavesNoChild
<1>1. IInv => DropLeavesNoChild
  BY DEF IInv, PidIsKnown, DropLeavesNoChild
<1>. QED
  BY IInvInit, IInvStep, <1>1, PTL DEF Spec

-----------------------------------------------------------------------------
(* Nobody waits for somebody who waits.                                    *)

\* While the executor blocks in a read and the fork server is there, the message has
\* been written, or the fork server can go on by itself: it has a request, or the child
\* it waits for has ended, or it is about to start one.
ReadsAreAnswered ==
    (pc \in {"requested", "draining"} /\ kill_signal = "SIGKILL" /\ server # "dead") =>
        \/ st # <<>>
        \/ server = "reading" /\ ctl # <<>>
        \/ server = "starting"
        \/ server \in {"reaping", "waiting"} /\ Ended

\* Between two runs the pipes are empty, and the child that is killed is that of the
\* run that timed out, although a stopped one keeps its pid over many runs.
KillsAimRight ==
    /\ pc = "idle" => ctl = <<>> /\ st = <<>>
    /\ pc \in {"waiting", "killing"} => child_pid = child.pid

\* What the fork server is told to have been killed has ended, if the signal kills.
ToldIsTrue ==
    kill_signal = "SIGKILL" =>
        /\ (pc = "idle" /\ last_run_timed_out = 1) => ~ Alive
        /\ (pc = "requested" /\ server = "reading" /\ st = <<>> /\ Head(ctl) = 1) => ~ Alive
        /\ (pc = "requested" /\ server = "reaping") => ~ Alive

LEMMA ToldStep == IInv /\ ToldIsTrue /\ [Next]_vars => ToldIsTrue'
<1>. SUFFICES ASSUME IInv, ToldIsTrue, [Next]_vars PROVE ToldIsTrue'
  OBVIOUS
<1>. USE DEF config, channel, serverVars, history
<1>0. TypeInv /\ InStep /\ PidIsKnown
  BY DEF IInv
<1>1. CASE ExecuteInput
  <2>1. Idle /\ ctl' = <<last_run_timed_out>>
    BY <1>0, <1>1 DEF ExecuteInput, InStep, Idle
  <2>2. Head(ctl') = last_run_timed_out
    BY <2>1
  <2>. QED
    BY <1>1, <2>1, <2>2 DEF ExecuteInput, Idle, ToldIsTrue, Alive
<1>2. CASE ReadLate
  <2>1. kill_signal = "SIGKILL" => ~ Alive
    BY <1>0, <1>2 DEF ReadLate, InStep, PidIsKnown
  <2>. QED
    BY <1>2, <2>1 DEF ReadLate, ToldIsTrue, Alive
<1>3. CASE ReadStatus
  <2>1. last_run_timed_out' = 0
    BY <1>0, <1>3 DEF ReadStatus, InStep
  <2>. QED
    BY <1>3, <2>1 DEF ReadStatus, ToldIsTrue
<1>4. CASE ExecuteFails \/ ReadPid \/ TimeOut \/ KillChild \/ ReadFails \/ DropChild \/ DropServer
  <2>1. pc' \notin {"idle", "requested"}
    BY <1>4 DEF ExecuteFails, ReadPid, TimeOut, KillChild, ReadFails, DropChild, DropServer
  <2>. QED
    BY <2>1 DEF ToldIsTrue
<1>5. CASE ServerReads
  <2>1. pc' = pc /\ child' = child /\ kill_signal' = kill_signal /\ pc # "idle"
    BY <1>0, <1>5 DEF ServerReads, InStep, Idle
  <2>2. ASSUME pc = "requested", kill_signal = "SIGKILL", server' = "reaping" PROVE ~ Alive
    <3>1. PICK told \in {0, 1} : ctl = <<told>> /\ st = <<>>
      BY <1>0, <1>5, <2>2 DEF ServerReads, InStep, Requested, Asked
    <3>2. Head(ctl) = told
      BY <3>1
    <3>3. told = 1
      BY <1>5, <2>2, <3>2 DEF ServerReads
    <3>. QED
      BY <1>5, <2>2, <3>1, <3>2, <3>3 DEF ServerReads, ToldIsTrue
  <2>3. server' # "reading"
    BY <1>5 DEF ServerReads
  <2>. QED
    BY <2>1, <2>2, <2>3 DEF ToldIsTrue, Alive
<1>6. CASE ServerReaps \/ ServerStarts
  <2>1. pc' = pc /\ pc # "idle" /\ server' \notin {"reading", "reaping"}
    BY <1>0, <1>6 DEF ServerReaps, ServerStarts, InStep, Idle
  <2>. QED
    BY <2>1 DEF ToldIsTrue
<1>7. CASE ServerWaits
  <2>1. pc' = pc /\ pc # "idle" /\ server' = "reading"
    BY <1>0, <1>7 DEF ServerWaits, InStep, Idle
  <2>2. pc = "requested" => st' # <<>>
    <3>1. SUFFICES ASSUME pc = "requested" PROVE st' # <<>>
      OBVIOUS
    <3>2. st = <<child.pid>> /\ st' = Append(st, child.state)
      BY <1>0, <1>7, <3>1 DEF ServerWaits, InStep, Requested, Asked
    <3>3. Len(st') = 2
      BY <3>2
    <3>. QED
      BY <3>3
  <2>. QED
    BY <2>1, <2>2 DEF ToldIsTrue
<1>8. CASE ServerDies
  BY <1>8 DEF ServerDies, ToldIsTrue, Alive
<1>9. CASE Child
  <2>1. child.state = Running /\ Alive
    BY <1>9 DEF Child, ChildExits, ChildCrashes, ChildStops, ChildEnds, Alive
  <2>2. UNCHANGED <<kill_signal, pc, last_run_timed_out, ctl, st, server>>
    BY <1>9 DEF Child, ChildExits, ChildCrashes, ChildStops, ChildEnds
  <2>. QED
    BY <2>1, <2>2 DEF ToldIsTrue
<1>10. CASE UNCHANGED vars
  BY <1>10 DEF vars, ToldIsTrue, Alive
<1>. QED
  BY <1>1, <1>2, <1>3, <1>4, <1>5, <1>6, <1>7, <1>8, <1>9, <1>10 DEF Next, Executor, Server

\* An execution never waits for a fork server that waits for it, or for a child that
\* waits to be killed: what ExecutionEnds needs of every state.
THEOREM ExecutorNeverStarves == Spec => []ReadsAreAnswered
<1>1. Init => ToldIsTrue
  BY DEF Init, ToldIsTrue
<1>2. IInv /\ ToldIsTrue => ReadsAreAnswered
  <2>. SUFFICES ASSUME IInv, ToldIsTrue, pc \in {"requested", "draining"},
                       kill_signal = "SIGKILL", server # "dead", st = <<>>
                PROVE  \/ server = "reading" /\ ctl # <<>>
                       \/ server = "starting"
                       \/ server \in {"reaping", "waiting"} /\ Ended
    BY DEF ReadsAreAnswered
  <2>1. CASE pc = "requested"
    <3>1. Asked
      BY <2>1 DEF IInv, InStep, Requested
    <3>. QED
      BY <2>1, <3>1 DEF Asked, ToldIsTrue, Ended
  <2>2. CASE pc = "draining"
    <3>1. server = "waiting" /\ child.state # Reaped
      BY <2>2 DEF IInv, InStep, Draining
    <3>2. ~ Alive
      BY <2>2 DEF IInv, InStep, PidIsKnown
    <3>. QED
      BY <3>1, <3>2 DEF Ended
  <2>. QED
    BY <2>1, <2>2
<1>. QED
  BY IInvInit, IInvStep, ToldStep, <1>1, <1>2, PTL DEF Spec

\* The pid that is killed after a timeout is that of the child the input was given to.
THEOREM KillsTheRightChild == Spec => []KillsAimRight
<1>1. IInv => KillsAimRight
  BY DEF IInv, InStep, Idle, Waiting, KillsAimRight
<1>. QED
  BY IInvInit, IInvStep, <1>1, PTL DEF Spec
=============================================================================
