------------------------------ MODULE TrapMode ------------------------------
(***************************************************************************)
(* run_trap_mode of src/src/lib.rs (--trap): probe without end until the   *)
(* first result that is not a pass arrives, then stop the probe loop, save *)
(* everything received up to it as a session file and exit with 1.  Ctrl-C *)
(* saves what has been received and exits with 0.                          *)
(***************************************************************************)
EXTENDS ProbeRunner

CONSTANTS Pass,      \* the outcome the trap does not react to
          NoResult   \* nothing in hand

ASSUME TrapAssumption == /\ Count = 0
                         /\ Pass \in Outcomes
                         /\ NoResult \notin Result

VARIABLES
    phase,     \* where run_trap_mode is, see Phases
    captured,  \* the results received, oldest first
    failing,   \* the result that sprang the trap
    sig,       \* a Ctrl-C waits in the ctrl_c() future of this select!
    session,   \* the session file: a sequence of results; NoResult before
    exitCode   \* of the process; NoExit while it runs

Phases == {"select",  \* in select! { ctrl_c, recv }
           "sprung",  \* a failure in hand, about to cancel
           "drain",   \* cancelled, throwing away what still arrives
           "saving",  \* past the loop
           "exited"}

NoExit == -1

trapVars == <<phase, captured, failing, sig, session, exitCode>>
allVars == <<vars, trapVars>>

TrapInit ==
    /\ Init
    /\ phase = "select"
    /\ captured = <<>>
    /\ failing = NoResult
    /\ sig = FALSE
    /\ session = NoResult
    /\ exitCode = NoExit

-----------------------------------------------------------------------------

\* The probe loop goes on by itself.
Probing == ((\E t \in Targets : Task(t)) \/ Tick) /\ UNCHANGED trapVars

\* The future of this pass through the select! has seen a Ctrl-C.
PressCtrlC ==
    /\ phase = "select" /\ ~sig
    /\ sig' = TRUE
    /\ UNCHANGED <<vars, phase, captured, failing, session, exitCode>>

\* A pass is kept and the loop goes on.
TakePass ==
    /\ phase = "select" /\ ~sig
    /\ Receive
    /\ Head(chan).outcome = Pass
    /\ captured' = Append(captured, Head(chan))
    /\ UNCHANGED <<phase, failing, sig, session, exitCode>>

\* Anything else springs the trap.
Spring ==
    /\ phase = "select" /\ ~sig
    /\ Receive
    /\ Head(chan).outcome # Pass
    /\ captured' = Append(captured, Head(chan))
    /\ failing' = Head(chan)
    /\ phase' = "sprung"
    /\ UNCHANGED <<sig, session, exitCode>>

\* Faulty: the probe loop is not told to stop.
Stop_NoCancel ==
    /\ phase = "sprung" \/ (phase = "select" /\ sig)
    /\ phase' = "drain"
    /\ UNCHANGED <<vars, captured, failing, sig, session, exitCode>>

\* cancel.cancel(), after the trap has sprung or in the ctrl_c arm, which comes
\* first in a biased select!.
Stop ==
    /\ phase = "sprung" \/ (phase = "select" /\ sig)
    /\ RequestCancel
    /\ phase' = "drain"
    /\ UNCHANGED <<captured, failing, sig, session, exitCode>>

\* Faulty: the results that arrive after the cancellation are captured too.
Discard_Captures ==
    /\ phase = "drain"
    /\ Receive
    /\ captured' = Append(captured, Head(chan))
    /\ UNCHANGED <<phase, failing, sig, session, exitCode>>

\* while rx.recv().await.is_some() {}
Discard ==
    /\ phase = "drain"
    /\ Receive
    /\ UNCHANGED trapVars

\* recv() returned None.  Only the drain sees this: an endless loop that nobody
\* has cancelled does not end.
SeeEnd ==
    /\ phase \in {"select", "drain"}
    /\ phase = "select" => ~sig
    /\ ReceiveNone
    /\ phase' = "saving"
    /\ UNCHANGED <<captured, failing, sig, session, exitCode>>

\* save_session, the OTLP exports, the report.  What cannot be written ends the
\* process with 1; the report may fail after the session has been saved.
Save ==
    /\ phase = "saving"
    /\ phase' = "exited"
    /\ \/ session' = captured /\ exitCode' = IF failing # NoResult THEN 1 ELSE 0
       \/ session' \in {captured, NoResult} /\ exitCode' = 1
    /\ UNCHANGED <<vars, captured, failing, sig>>

Collector == TakePass \/ Spring \/ Stop \/ Discard \/ SeeEnd \/ Save

TrapNext == Probing \/ PressCtrlC \/ Collector

TrapSpec == TrapInit /\ [][TrapNext]_allVars

TrapFairSpec == /\ TrapSpec
                /\ TaskFairness
                /\ WF_vars(Tick)
                /\ WF_allVars(Collector)
-----------------------------------------------------------------------------
(* Properties.                                                             *)

TrapTypeOK ==
    /\ phase \in Phases
    /\ captured \in Seq(Result)
    /\ failing \in Result \cup {NoResult}
    /\ sig \in BOOLEAN
    /\ session \in {NoResult, captured}
    /\ exitCode \in {NoExit, 0, 1} /\ (exitCode = NoExit <=> phase # "exited")
    /\ phase \in {"drain", "saving", "exited"} => cancel

\* The session is the whole story up to the failure and nothing after it: of
\* every target the first results without a gap, all of them passes but the one
\* that sprang the trap, which is the last.
SessionIsWhole ==
    /\ \A i \in DOMAIN captured :
          LET before == {j \in 1..(i - 1) : captured[j].target = captured[i].target}
          IN \A s \in 0..captured[i].seq :
                (\E j \in before : captured[j].seq = s) <=> s < captured[i].seq
    /\ \A i \in DOMAIN captured :
          captured[i].outcome # Pass <=> i = Len(captured) /\ failing = captured[i]
    /\ failing # NoResult => captured # <<>>

\* Sprung or interrupted, the trap ends, also with tasks blocked on a channel
\* full of results that nobody wants any more.
TrapEnds == (sig \/ failing # NoResult) ~> (phase = "exited")

\* This mode uses the probe loop only in ways ProbeRunner allows.
RunnerSpec == Spec
=============================================================================
