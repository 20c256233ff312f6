------------------------------- MODULE CliMode -------------------------------
(***************************************************************************)
(* run_cli_mode of src/src/lib.rs: the single-shot and ping modes.  One    *)
(* task owns the ProbeLoopHandle, takes results from its channel, exports  *)
(* each to the OTLP collector, records it in its target's statistics, and  *)
(* at the end turns the statistics into the exit code.  Ctrl-C cancels the *)
(* probe loop and drains what is still in the channel.                     *)
(*                                                                         *)
(* The probe loop is ProbeRunner itself: every step here is a step of      *)
(* ProbeRunner or leaves it alone (RunnerSpec).  Pausing and dropping the  *)
(* handle are not reachable from this mode.                                *)
(***************************************************************************)
EXTENDS ProbeRunner

CONSTANTS Pass,        \* no error, every --expect held
          ExpectFail,  \* a response, but an --expect assertion failed
          NetFail,     \* error is Some: DNS, TCP, TLS, HTTP or timeout
          NoResult     \* nothing in hand

ASSUME CliAssumption == /\ Outcomes = {Pass, ExpectFail, NetFail}
                        /\ NoResult \notin Result

VARIABLES
    phase,     \* where run_cli_mode is, see Phases
    current,   \* the result taken from the channel and not recorded yet
    name,      \* [Targets -> Targets] cfgs[i].url, as the first target with it
    slots,     \* [Targets -> results] what targets[i].stats has been fed
    circuit,   \* otlp_circuit_open
    sig,       \* a Ctrl-C waits in the ctrl_c() future of this select!
    exitCode,  \* of the process; NoExit while it runs
    produced,  \* ghost: every result a task has sent
    stalls     \* ghost: exports that ran into an unreachable collector

Phases == {"select",    \* in select! { ctrl_c, recv }
           "busy",      \* handling a result taken there
           "drain",     \* cancelled, in while let Some = recv()
           "drainBusy", \* handling a result taken there
           "summary",   \* past the loop
           "exited"}

NoExit == -1

cliVars == <<phase, current, name, slots, circuit, sig, exitCode, produced,
             stalls>>
allVars == <<vars, cliVars>>

\* The ways in which targets can share URLs.
Namings == {f \in [Targets -> Targets] : \A t \in Targets : f[t] <= t /\ f[f[t]] = f[t]}

\* index is collected from (name, i) pairs, so of targets with the same URL
\* the last one gets the results of all of them.
Slot(t) == CHOOSE i \in Targets :
              /\ name[i] = name[t]
              /\ \A j \in Targets : name[j] = name[t] => j <= i

Recorded == UNION {slots[i] : i \in Targets}

CliInit ==
    /\ Init
    /\ phase = "select"
    /\ current = NoResult
    /\ name \in Namings
    /\ slots = [i \in Targets |-> {}]
    /\ circuit = FALSE
    /\ sig = FALSE
    /\ exitCode = NoExit
    /\ produced = {}
    /\ stalls = 0

-----------------------------------------------------------------------------
(* The probe loop goes on by itself; what it sends is noted.               *)

Queued == {chan[i] : i \in 1..Len(chan)}

Probing ==
    /\ (\E t \in Targets : Task(t)) \/ Tick
    /\ produced' = produced \cup Queued'
    /\ UNCHANGED <<phase, current, name, slots, circuit, sig, exitCode,
                   stalls>>

-----------------------------------------------------------------------------
(* Ctrl-C.                                                                 *)

\* tokio::signal::ctrl_c() is called anew by every pass through the select!
\* and sees only signals that arrive while that future exists.
PressCtrlC ==
    /\ phase # "exited"
    /\ sig' = (sig \/ phase = "select")
    /\ UNCHANGED <<vars, phase, current, name, slots, circuit, exitCode,
                   produced, stalls>>

\* Faulty: leaves the loop without draining the channel.
HearCtrlC_NoDrain ==
    /\ phase = "select"
    /\ sig
    /\ RequestCancel
    /\ phase' = "summary"
    /\ UNCHANGED <<current, name, slots, circuit, sig, exitCode,
                   produced, stalls>>

\* Faulty: drains, but never cancels the probe loop.
HearCtrlC_NoCancel ==
    /\ phase = "select"
    /\ sig
    /\ phase' = "drain"
    /\ UNCHANGED <<vars, current, name, slots, circuit, sig, exitCode,
                   produced, stalls>>

\* The ctrl_c arm, first in a biased select!.
HearCtrlC ==
    /\ phase = "select"
    /\ sig
    /\ RequestCancel
    /\ phase' = "drain"
    /\ UNCHANGED <<current, name, slots, circuit, sig, exitCode,
                   produced, stalls>>

-----------------------------------------------------------------------------
(* The collecting loop, and the draining loop after Ctrl-C.                *)

\* The other arm of the select!, or the drain's recv(): a result.
Take ==
    /\ \/ phase = "select" /\ ~sig /\ phase' = "busy"
       \/ phase = "drain" /\ phase' = "drainBusy"
    /\ Receive
    /\ current' = Head(chan)
    /\ UNCHANGED <<name, slots, circuit, sig, exitCode,
                   produced, stalls>>

\* Faulty: an unreachable collector is tried again for every result.
StreamOtlp_NoBreaker ==
    \E reached \in BOOLEAN : /\ circuit' = ~reached
                             /\ stalls' = IF reached THEN stalls ELSE stalls + 1

\* stream_otlp: export one result unless the circuit is open; a failure to
\* reach the collector opens it.  Any other outcome of the export (accepted,
\* refused, reset) only differs in what is printed, and a run without
\* --otlp is one in which every export succeeds.
StreamOtlp ==
    \/ circuit /\ UNCHANGED <<circuit, stalls>>
    \/ /\ ~circuit
       /\ \E reached \in BOOLEAN : /\ circuit' = ~reached
                                   /\ stalls' = IF reached THEN stalls ELSE stalls + 1

\* consume: record the result in the statistics of its target.
Consume == slots' = [slots EXCEPT ![Slot(current.target)] = @ \cup {current}]

\* stream_otlp().await, then consume(), which does not yield.
Handle ==
    /\ \/ phase = "busy" /\ phase' = "select"
       \/ phase = "drainBusy" /\ phase' = "drain"
    /\ StreamOtlp
    /\ Consume
    /\ current' = NoResult
    /\ UNCHANGED <<vars, name, sig, exitCode, produced>>

\* recv() returned None: every target is done and the channel is empty.
SeeEnd ==
    /\ (phase = "select" /\ ~sig) \/ phase = "drain"
    /\ ReceiveNone
    /\ phase' = "summary"
    /\ UNCHANGED <<current, name, slots, circuit, sig, exitCode,
                   produced, stalls>>

-----------------------------------------------------------------------------
(* The end of the run.                                                     *)

Reported(o) == \E r \in Recorded : r.outcome = o

\* Faulty: the expectations are looked at before the network failures.
ExitStatus_ExpectFirst(changed) ==
    IF Reported(ExpectFail) THEN 3
    ELSE IF Reported(NetFail) \/ changed THEN 1 ELSE 0

\* Network failures, then --expect failures, then --on-change.
ExitStatus(changed) ==
    IF Reported(NetFail) THEN 1
    ELSE IF Reported(ExpectFail) THEN 3
    ELSE IF changed THEN 1 ELSE 0

\* Summary, baseline, fingerprint, record and report.  Writing a file may
\* fail, which ends the process with 1 whatever the statistics say.
Finish ==
    /\ phase = "summary"
    /\ phase' = "exited"
    /\ \E changed, written \in BOOLEAN :
          exitCode' = IF written THEN ExitStatus(changed) ELSE 1
    /\ UNCHANGED <<vars, current, name, slots, circuit, sig,
                   produced, stalls>>

Collector == HearCtrlC \/ Take \/ Handle \/ SeeEnd \/ Finish

CliNext == Probing \/ PressCtrlC \/ Collector

CliSpec == CliInit /\ [][CliNext]_allVars

\* The collector is an ordinary task of the runtime; an export ends by its own
\* time limits (otlp.rs: CONNECT_TIMEOUT, REQUEST_TIMEOUT).
CliFairSpec == /\ CliSpec
               /\ TaskFairness
               /\ WF_vars(Tick)
               /\ WF_allVars(Collector)

-----------------------------------------------------------------------------
(* Properties.                                                             *)

CliTypeOK ==
    /\ phase \in Phases
    /\ current \in Result \cup {NoResult}
    /\ current # NoResult <=> phase \in {"busy", "drainBusy"}
    /\ name \in Namings
    /\ slots \in [Targets -> SUBSET Result]
    /\ circuit \in BOOLEAN /\ sig \in BOOLEAN
    /\ exitCode \in {NoExit, 0, 1, 3}
    /\ exitCode # NoExit <=> phase = "exited"
    /\ produced \in SUBSET Result
    /\ stalls \in Nat

\* No result a task has sent goes missing: it is in the channel, in the
\* collector's hand or in the statistics of a slot of its own URL, and once
\* the loop is left, by Ctrl-C too, it is in the statistics.
AllCounted ==
    /\ produced = Queued \cup Recorded \cup ({current} \ {NoResult})
    /\ \A i \in Targets : \A r \in slots[i] : name[r.target] = name[i]
    /\ phase \in {"summary", "exited"} => produced = Recorded

\* The exit code tells what was probed, whenever the run was stopped: 0 only if
\* everything sent had passed, 1 if anything failed on the network, 3 only for
\* failed expectations without a network failure (lib.rs, README "Exit codes").
ExitAgrees ==
    LET seen == {r.outcome : r \in produced} IN
    phase = "exited" => /\ exitCode = 0 => seen \subseteq {Pass}
                        /\ exitCode = 3 => ExpectFail \in seen /\ NetFail \notin seen
                        /\ NetFail \in seen => exitCode = 1

\* A dead collector costs one stall per run, however many results follow
\* (lib.rs: circuit-break after the first failure to reach it).
OneStall == stalls <= 1

\* This mode uses the probe loop only in ways ProbeRunner allows.
RunnerSpec == Spec

\* The inductive strengthening of the invariants above: the loop is left only at
\* the end of the stream, and the one stall opened the circuit.
CliIndInv ==
    /\ CliTypeOK
    /\ AllCounted
    /\ ExitAgrees
    /\ phase \in {"summary", "exited"} => closed
    /\ stalls = 0 \/ (stalls = 1 /\ circuit)

\* A Ctrl-C that the select! heard ends an endless run too: every task sees the
\* cancellation while the drain keeps the channel moving, and the drain ends.
CtrlCEnds == sig ~> (phase = "exited")
=============================================================================
