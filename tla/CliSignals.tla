----------------------------- MODULE CliSignals -----------------------------
(***************************************************************************)
(* CliMode with a record of whether Ctrl-C has been pressed at all, heard  *)
(* or not.                                                                 *)
(***************************************************************************)
EXTENDS CliMode

VARIABLE pressed   \* ghost: the user has pressed Ctrl-C

signalVars == <<allVars, pressed>>

SignalInit == CliInit /\ pressed = FALSE

SignalNext == \/ PressCtrlC /\ pressed' = TRUE
              \/ (Probing \/ Collector) /\ UNCHANGED pressed

SignalSpec == SignalInit /\ [][SignalNext]_signalVars

\* README "1s interval until Ctrl-C": while the run goes on, a Ctrl-C that was
\* pressed is waiting to be heard or has cancelled the probe loop.
CtrlCHeard == pressed => sig \/ cancel \/ phase \in {"summary", "exited"}
=============================================================================
