--------------------------------- MODULE Tui ---------------------------------
(***************************************************************************)
(* run_tui of src/src/tui/mod.rs and the App of tui/app.rs: a blocking     *)
(* thread that empties the result channel, draws, looks at the keyboard    *)
(* and starts over, while the probe loop (ProbeRunner) goes on in the      *)
(* runtime.  The keys cancel, pause and resume that loop and clear what is *)
(* shown.                                                                  *)
(*                                                                         *)
(* The statistics are kept as the set of results they were fed: that they  *)
(* are split by target, and which target tab has selected, matters to the  *)
(* layout only, so tab is a key that means nothing here.                   *)
(***************************************************************************)
EXTENDS ProbeRunner, FiniteSets

CONSTANTS Pass, ExpectFail, NetFail,   \* see CliMode
          HistoryCap                   \* HISTORY_CAP (512 in the code)

ASSUME TuiAssumption == /\ Outcomes = {Pass, ExpectFail, NetFail}
                        /\ HistoryCap \in Nat \ {0}

VARIABLES
    ui,         \* where event_loop is, see Steps
    appPaused,  \* App.paused
    finished,   \* App.finished
    stats,      \* the results counted in targets[..].stats
    history,    \* App.history, oldest first
    exitCode,   \* of the process; NoExit while it runs
    produced,   \* ghost: every result a task has sent
    cleared     \* ghost: the results r has cleared

Steps == {"drain",    \* in the try_recv loop
          "keys",     \* drawing, then in event::poll / event::read
          "leaving",  \* cancelled, about to return
          "exited"}

NoExit == -1

appVars == <<appPaused, finished, stats, history, cleared>>
tuiVars == <<ui, appVars, exitCode, produced>>
allVars == <<vars, tuiVars>>

TuiInit ==
    /\ Init
    /\ ui = "drain"
    /\ appPaused = FALSE
    /\ finished = FALSE
    /\ stats = {}
    /\ history = <<>>
    /\ exitCode = NoExit
    /\ produced = {} /\ cleared = {}

-----------------------------------------------------------------------------
(* The probe loop goes on by itself; what it sends is noted.               *)

Probing ==
    /\ (\E t \in Targets : Task(t)) \/ Tick
    /\ produced' = produced \cup {chan'[i] : i \in 1..Len(chan')}
    /\ UNCHANGED <<ui, appVars, exitCode>>

-----------------------------------------------------------------------------
(* One round of event_loop: try_recv until the channel is empty, then draw. *)

\* Faulty: pops the newest entry of a full history.
Push_DropsNewest(h, r) ==
    IF Len(h) < HistoryCap THEN Append(h, r)
    ELSE Append(SubSeq(h, 1, HistoryCap - 1), r)

\* push_back, then pop_front while longer than HISTORY_CAP.
Push(h, r) == IF Len(h) < HistoryCap THEN Append(h, r) ELSE Append(Tail(h), r)

\* Ok(result): App::update.
Update ==
    /\ ui = "drain"
    /\ Receive
    /\ stats' = stats \cup {Head(chan)}
    /\ history' = Push(history, Head(chan))
    /\ UNCHANGED <<ui, appPaused, finished, cleared, exitCode, produced>>

\* Err(Empty): some task is alive and will send more, or end.
SeeEmpty ==
    /\ ui = "drain"
    /\ chan = <<>> /\ ~AllDone
    /\ ui' = "keys"
    /\ UNCHANGED <<vars, appVars, exitCode, produced>>

\* Faulty: the tasks are done, so the channel is taken to be empty too.
SeeFinished_Undrained ==
    /\ ui = "drain"
    /\ AllDone
    /\ closed' = TRUE
    /\ finished' = TRUE
    /\ ui' = "keys"
    /\ UNCHANGED <<taskVars, chan, rxOpen, cancel, paused, ghostVars, appPaused,
                   stats, history, cleared, exitCode, produced>>

\* Err(Disconnected): App::finish, on every later round too.
SeeFinished ==
    /\ ui = "drain"
    /\ chan = <<>> /\ AllDone
    /\ closed' = TRUE
    /\ finished' = TRUE
    /\ ui' = "keys"
    /\ UNCHANGED <<taskVars, chan, rxOpen, cancel, paused, ghostVars, appPaused,
                   stats, history, cleared, exitCode, produced>>

\* draw, poll or read fails: the error leaves event_loop with the handle still
\* uncancelled, and cli_main turns it into exit code 1.
Fail ==
    /\ ui = "keys"
    /\ DropHandle
    /\ ui' = "exited"
    /\ exitCode' = 1
    /\ UNCHANGED <<appVars, produced>>

-----------------------------------------------------------------------------
(* Keys.                                                                   *)

\* The poll ran into its 50 ms, or the event means nothing here.
NoKey ==
    /\ ui = "keys"
    /\ ui' = "drain"
    /\ UNCHANGED <<vars, appVars, exitCode, produced>>

Space ==
    /\ ui = "keys" /\ ~finished
    /\ appPaused' = ~appPaused
    /\ StorePaused(appPaused')
    /\ ui' = "drain"
    /\ UNCHANGED <<finished, stats, history, cleared, exitCode, produced>>

\* r: App::reset.
Reset ==
    /\ ui = "keys"
    /\ stats' = {} /\ history' = <<>>
    /\ cleared' = cleared \cup stats
    /\ ui' = "drain"
    /\ UNCHANGED <<vars, appPaused, finished, exitCode, produced>>

\* q, Esc or Ctrl-C.
Quit ==
    /\ ui = "keys"
    /\ RequestCancel
    /\ ui' = "leaving"
    /\ UNCHANGED <<appVars, exitCode, produced>>

Counted(o) == \E r \in stats : r.outcome = o

ExitStatus == IF Counted(NetFail) THEN 1
              ELSE IF Counted(ExpectFail) THEN 3 ELSE 0

\* event_loop returns and drops the handle with what its channel still holds;
\* run_tui turns the statistics into the exit code.
Leave ==
    /\ ui = "leaving"
    /\ DropHandle
    /\ ui' = "exited"
    /\ exitCode' = ExitStatus
    /\ UNCHANGED <<appVars, produced>>

EventLoop == \/ Update \/ SeeEmpty \/ SeeFinished \/ Fail
             \/ NoKey \/ Space \/ Reset \/ Quit \/ Leave

TuiNext == Probing \/ EventLoop

TuiSpec == TuiInit /\ [][TuiNext]_allVars

-----------------------------------------------------------------------------
(* Properties.                                                             *)

\* Everything kept is of its kind.
TuiTypeOK ==
    /\ ui \in Steps
    /\ appPaused \in BOOLEAN /\ finished \in BOOLEAN
    /\ stats \subseteq Result /\ produced \subseteq Result /\ cleared \subseteq Result
    /\ history \in Seq(Result) /\ Len(history) <= HistoryCap
    /\ exitCode \in {NoExit, 0, 1, 3} /\ (exitCode = NoExit <=> ui # "exited")

\* The chart and the statistics show the same run: the history is the newest
\* HISTORY_CAP of the results counted since the last reset, in order; and the
\* pause shown is the pause the probe loop obeys (mod.rs: "synchronised with the
\* runner's flag").
ViewsAgree ==
    LET shown == {history[i] : i \in DOMAIN history} IN
    /\ appPaused = paused
    /\ shown \subseteq stats
    /\ Len(history) = (IF Cardinality(stats) < HistoryCap
                       THEN Cardinality(stats) ELSE HistoryCap)
    /\ \A i, j \in DOMAIN history :
          i < j /\ history[i].target = history[j].target
              => history[i].seq < history[j].seq
    /\ \A r \in stats \ shown : \A s \in shown :
          r.target = s.target => r.seq < s.seq

\* FINISHED means everything: no task can send any more, nothing is left in the
\* channel, and quitting from there yields the exit code of all that was probed
\* and not cleared.
FinishedIsFinal ==
    finished =>
        LET counted == {r.outcome : r \in produced \ cleared} IN
        /\ AllDone /\ chan = <<>>
        /\ exitCode = 0 => counted \subseteq {Pass}
        /\ exitCode = 3 => ExpectFail \in counted /\ NetFail \notin counted
        /\ NetFail \in counted /\ exitCode # NoExit => exitCode = 1

\* The event loop uses the probe loop only in ways ProbeRunner allows.
RunnerSpec == Spec
=============================================================================
