----------------------------- MODULE ProbeStream -----------------------------
(***************************************************************************)
(* What src/src/runner.rs promises the code that owns a ProbeLoopHandle:   *)
(* each target's results arrive one at a time, numbered 0, 1, 2, ... with  *)
(* no gap and no repetition; every probe that has finished is delivered as *)
(* long as the handle is kept, also after a cancellation; and the stream   *)
(* ends (recv returns None) only when nothing is left to deliver and every *)
(* target has delivered its full count or the consumer has asked the loop  *)
(* to stop.  Nothing is said of how: tasks, the channel, pacing and        *)
(* pausing belong to ProbeRunner, which implements this module.            *)
(***************************************************************************)
EXTENDS Naturals

CONSTANTS N,       \* number of targets (runner.rs: cfgs.len())
          Count    \* probes per target; 0 stands for count = None (endless)

Targets == 1..N

VARIABLES finished,    \* per target, results the consumer is to see in the end
          delivered,   \* per target, one past the number of the latest it took
          stopping,    \* the consumer has cancelled the loop or dropped it
          ended        \* the consumer has seen the end of the stream

vars == <<finished, delivered, stopping, ended>>

Init == /\ finished = [t \in Targets |-> 0]
        /\ delivered = [t \in Targets |-> 0]
        /\ stopping = FALSE
        /\ ended = FALSE

Complete == Count # 0 /\ \A t \in Targets : delivered[t] = Count

Finish(t) == /\ ~ended
             /\ Count # 0 => finished[t] < Count
             /\ finished' = [finished EXCEPT ![t] = @ + 1]
             /\ UNCHANGED <<delivered, stopping, ended>>

Deliver(t) == /\ ~ended
              /\ delivered[t] < finished[t]
              /\ delivered' = [delivered EXCEPT ![t] = @ + 1]
              /\ UNCHANGED <<finished, stopping, ended>>

Stop == stopping' = TRUE /\ UNCHANGED <<finished, delivered, ended>>

\* The handle is dropped, and what was to come with it.
Abandon == /\ stopping' = TRUE
           /\ finished' = delivered
           /\ UNCHANGED <<delivered, ended>>

End == /\ stopping \/ Complete
       /\ finished = delivered
       /\ ended' = TRUE
       /\ UNCHANGED <<finished, delivered, stopping>>

Next == (\E t \in Targets : Finish(t) \/ Deliver(t)) \/ Stop \/ Abandon \/ End

Spec == Init /\ [][Next]_vars
=============================================================================
