----------------------------- MODULE ProbeRunner -----------------------------
(***************************************************************************)
(* The probe loop of src/src/runner.rs: one task per target, all sending   *)
(* into one bounded mpsc channel, steered by a CancellationToken and a     *)
(* relaxed AtomicBool.  Each atomic step here is the code between two      *)
(* points where another thread can be seen: an await, a load of `paused`,  *)
(* or the end of the task.                                                 *)
(*                                                                         *)
(* Time is relative, so that no clock has to be bounded: wait[t] is what   *)
(* is left of sleep_until(next_start), and Tick makes all of it pass.      *)
(*                                                                         *)
(* The consumer is the code that owns the handle.  It is left free here    *)
(* (it may receive, cancel, pause or drop the handle at any time); CliMode *)
(* and the other front ends restrict it to what they do.                   *)
(***************************************************************************)
EXTENDS Integers, Sequences

CONSTANTS N,          \* number of targets
          Count,      \* probes per target, 0 for an endless loop
          Capacity,   \* CHANNEL_CAPACITY (64 in the code)
          Interval,   \* ticks between two starts of one target
          Outcomes,   \* what a probe can report, as far as consumers care
          NoOutcome,  \* a task that holds no unsent result
          MaxSeq      \* BOUND: probes a target starts in an endless loop

ASSUME RunnerAssumption ==
    /\ N \in Nat \ {0}
    /\ Count \in Nat
    /\ Capacity \in Nat \ {0}
    /\ Interval \in Nat
    /\ NoOutcome \notin Outcomes
    /\ MaxSeq \in Nat
    /\ Count <= MaxSeq

Targets == 1..N

Result == [target : Targets, seq : Nat, outcome : Outcomes]

\* Where a task is in the body of probe_loop.
PCs == {"top",      \* at the head of the loop
        "pacing",   \* select! { cancelled, sleep_until(next_start) }
        "gate",     \* about to load `paused`
        "polling",  \* paused: select! { cancelled, sleep(100ms) }
        "ready",    \* saw paused = false, has not started the probe yet
        "probing",  \* select! { cancelled, probe(seq) }
        "sending",  \* tx.send(result).await
        "done"}     \* returned; its tx is dropped

VARIABLES
    pc,        \* [Targets -> PCs]
    seq,       \* [Targets -> Nat] the task's local seq
    wait,      \* [Targets -> 0..Interval] time left until next_start
    pending,   \* [Targets -> result not sent yet]
    chan,      \* the mpsc channel, a sequence of results
    rxOpen,    \* the Receiver has not been dropped
    closed,    \* the consumer's recv has returned None
    cancel,    \* the CancellationToken
    paused,    \* the AtomicBool
    recvd,     \* ghost: per target, one past the number of the latest result taken
    since,     \* ghost: time since the target's last start, up to Interval
    slips      \* ghost: probes started since `paused` was last stored

taskVars    == <<pc, seq, wait, pending>>
controlVars == <<rxOpen, closed, cancel, paused>>
ghostVars   == <<recvd, since, slips>>
vars        == <<taskVars, chan, controlVars, ghostVars>>

AllDone == \A t \in Targets : pc[t] = "done"

-----------------------------------------------------------------------------
(* spawn_probe_loop: the i-th target starts i * interval / N late.         *)

StartOffset(t) == (Interval * (t - 1)) \div N

Init ==
    /\ pc = [t \in Targets |-> "top"]
    /\ seq = [t \in Targets |-> 0]
    /\ wait = [t \in Targets |-> StartOffset(t)]
    /\ pending = [t \in Targets |-> NoOutcome]
    /\ chan = <<>>
    /\ rxOpen = TRUE
    /\ closed = FALSE
    /\ cancel = FALSE
    /\ paused = FALSE
    /\ recvd = [t \in Targets |-> 0]
    /\ since = [t \in Targets |-> Interval]
    /\ slips = [t \in Targets |-> 0]

-----------------------------------------------------------------------------
(* The body of probe_loop.                                                 *)

CountReached(t) == Count # 0 /\ seq[t] >= Count

LoopTop(t) ==
    /\ pc[t] = "top"
    /\ pc' = [pc EXCEPT ![t] = IF CountReached(t) THEN "done" ELSE "pacing"]
    /\ UNCHANGED <<seq, wait, pending, chan, controlVars, ghostVars>>

\* The sleep of the pacing select! fires.  MaxSeq bounds an endless loop: at
\* the bound the task sleeps on, still cancellable.
Wake(t) ==
    /\ pc[t] = "pacing"
    /\ wait[t] = 0
    /\ seq[t] < MaxSeq
    /\ pc' = [pc EXCEPT ![t] = "gate"]
    /\ UNCHANGED <<seq, wait, pending, chan, controlVars, ghostVars>>

\* paused.load(Relaxed)
ReadPaused(t) ==
    /\ pc[t] = "gate"
    /\ pc' = [pc EXCEPT ![t] = IF paused THEN "polling" ELSE "ready"]
    /\ UNCHANGED <<seq, wait, pending, chan, controlVars, ghostVars>>

\* Faulty: resumes after one poll interval without loading `paused` again.
PollAgain_NoReload(t) ==
    /\ pc[t] = "polling"
    /\ pc' = [pc EXCEPT ![t] = "ready"]
    /\ UNCHANGED <<seq, wait, pending, chan, controlVars, ghostVars>>

\* Faulty: loops on the value of `paused` loaded before the pause loop.
PollAgain_Stale(t) ==
    /\ pc[t] = "polling"
    /\ UNCHANGED vars

\* The 100 ms sleep of the pause loop fires.
PollAgain(t) ==
    /\ pc[t] = "polling"
    /\ pc' = [pc EXCEPT ![t] = "gate"]
    /\ UNCHANGED <<seq, wait, pending, chan, controlVars, ghostVars>>

\* Faulty: next_start keeps its old value, so a late target catches up at once.
StartProbe_NoRearm(t) ==
    /\ pc[t] = "ready"
    /\ pc' = [pc EXCEPT ![t] = "probing"]
    /\ since' = [since EXCEPT ![t] = 0]
    /\ slips' = [slips EXCEPT ![t] = @ + 1]
    /\ UNCHANGED <<seq, wait, pending, chan, controlVars, recvd>>

\* started = now; next_start = started + interval.
StartProbe(t) ==
    /\ pc[t] = "ready"
    /\ pc' = [pc EXCEPT ![t] = "probing"]
    /\ wait' = [wait EXCEPT ![t] = Interval]
    /\ since' = [since EXCEPT ![t] = 0]
    /\ slips' = [slips EXCEPT ![t] = @ + 1]
    /\ UNCHANGED <<seq, pending, chan, controlVars, recvd>>

FinishProbe(t) ==
    /\ pc[t] = "probing"
    /\ \E o \in Outcomes : pending' = [pending EXCEPT ![t] = o]
    /\ pc' = [pc EXCEPT ![t] = "sending"]
    /\ UNCHANGED <<seq, wait, chan, controlVars, ghostVars>>

\* tx.send(result).await with room in the channel, then seq += 1.
Send(t) ==
    /\ pc[t] = "sending"
    /\ rxOpen
    /\ Len(chan) < Capacity
    /\ chan' = Append(chan, [target |-> t, seq |-> seq[t], outcome |-> pending[t]])
    /\ pending' = [pending EXCEPT ![t] = NoOutcome]
    /\ seq' = [seq EXCEPT ![t] = @ + 1]
    /\ pc' = [pc EXCEPT ![t] = "top"]
    /\ UNCHANGED <<wait, controlVars, ghostVars>>

\* tx.send(result).await after the receiver is gone: the task returns.
SendFails(t) ==
    /\ pc[t] = "sending"
    /\ ~rxOpen
    /\ pending' = [pending EXCEPT ![t] = NoOutcome]
    /\ pc' = [pc EXCEPT ![t] = "done"]
    /\ UNCHANGED <<seq, wait, chan, controlVars, ghostVars>>

\* Faulty: the send as well is given up when the loop is cancelled.
Cancelled_InSend(t) ==
    /\ cancel
    /\ pc[t] \in {"pacing", "polling", "probing", "sending"}
    /\ pc' = [pc EXCEPT ![t] = "done"]
    /\ pending' = [pending EXCEPT ![t] = NoOutcome]
    /\ UNCHANGED <<seq, wait, chan, controlVars, ghostVars>>

\* The cancelled() arm of any of the three select!s.  None of them is biased,
\* so a timer or a probe that is ready at the same moment may win instead.
Cancelled(t) ==
    /\ cancel
    /\ pc[t] \in {"pacing", "polling", "probing"}
    /\ pc' = [pc EXCEPT ![t] = "done"]
    /\ UNCHANGED <<seq, wait, pending, chan, controlVars, ghostVars>>

Task(t) == \/ LoopTop(t) \/ Wake(t) \/ ReadPaused(t) \/ PollAgain(t)
           \/ StartProbe(t) \/ FinishProbe(t)
           \/ Send(t) \/ SendFails(t) \/ Cancelled(t)

\* Time passes for every target at once.
Tick ==
    /\ \E t \in Targets : wait[t] > 0 \/ since[t] < Interval
    /\ wait' = [t \in Targets |-> IF wait[t] > 0 THEN wait[t] - 1 ELSE 0]
    /\ since' = [t \in Targets |->
                   IF since[t] < Interval THEN since[t] + 1 ELSE Interval]
    /\ UNCHANGED <<pc, seq, pending, chan, controlVars, recvd, slips>>

-----------------------------------------------------------------------------
(* What the owner of the ProbeLoopHandle can do.                           *)

\* rx.recv() / rx.try_recv() takes the oldest result.
Receive ==
    /\ rxOpen
    /\ chan # <<>>
    /\ chan' = Tail(chan)
    /\ recvd' = [recvd EXCEPT ![Head(chan).target] = Head(chan).seq + 1]
    /\ UNCHANGED <<taskVars, controlVars, since, slips>>

\* rx.recv() returns None: every Sender is dropped and the channel is empty.
ReceiveNone ==
    /\ rxOpen
    /\ ~closed
    /\ chan = <<>>
    /\ AllDone
    /\ closed' = TRUE
    /\ UNCHANGED <<taskVars, chan, rxOpen, cancel, paused, ghostVars>>

\* handle.cancel.cancel()
RequestCancel ==
    /\ ~cancel
    /\ cancel' = TRUE
    /\ UNCHANGED <<taskVars, chan, rxOpen, closed, paused, ghostVars>>

\* handle.paused.store(..., Relaxed)
StorePaused(b) ==
    /\ paused' = b
    /\ slips' = [t \in Targets |-> 0]
    /\ UNCHANGED <<taskVars, chan, rxOpen, closed, cancel, recvd, since>>

\* The handle, and the results still in its channel, are dropped.
DropHandle ==
    /\ rxOpen
    /\ rxOpen' = FALSE
    /\ chan' = <<>>
    /\ UNCHANGED <<taskVars, closed, cancel, paused, ghostVars>>

Consumer == \/ Receive \/ ReceiveNone \/ RequestCancel \/ DropHandle
            \/ StorePaused(~paused)

Next == (\E t \in Targets : Task(t)) \/ Tick \/ Consumer

Spec == Init /\ [][Next]_vars

\* Every task is polled by the runtime.  tokio's mpsc semaphore serves waiting
\* senders in order, and select! picks among ready arms at random, so neither a
\* sender nor a raised cancellation is passed over for ever.
TaskFairness == \A t \in Targets : /\ WF_vars(Task(t))
                                   /\ SF_vars(Send(t))
                                   /\ SF_vars(Cancelled(t))

\* A consumer that keeps receiving.  Nothing makes it cancel, pause or resume.
FairSpec == /\ Spec
            /\ TaskFairness
            /\ WF_vars(Tick)
            /\ WF_vars(Receive)
            /\ WF_vars(ReceiveNone)

-----------------------------------------------------------------------------
(* Properties.                                                             *)

TypeOK ==
    /\ pc \in [Targets -> PCs]
    /\ seq \in [Targets -> Nat]
    /\ wait \in [Targets -> 0..Interval]
    /\ pending \in [Targets -> Outcomes \cup {NoOutcome}]
    /\ \A t \in Targets : pending[t] # NoOutcome <=> pc[t] = "sending"
    /\ chan \in Seq(Result)
    /\ Len(chan) <= Capacity
    /\ rxOpen \in BOOLEAN /\ closed \in BOOLEAN
    /\ cancel \in BOOLEAN /\ paused \in BOOLEAN
    /\ recvd \in [Targets -> Nat]
    /\ since \in [Targets -> 0..Interval]
    /\ slips \in [Targets -> Nat]

\* Whatever the interleaving of the tasks on the shared channel, the next
\* result the consumer takes is its target's next one: none is lost, repeated
\* or overtaken, not even under backpressure (runner.rs: seq counts per target
\* from 0, send().await instead of try_send).
HeadInOrder == chan # <<>> => Head(chan).seq = recvd[Head(chan).target]

\* Two probes of one target never start less than `interval` apart: a probe
\* that overran, a pause or a stalled channel is never followed by a burst
\* that catches up with the missed starts (runner.rs: next_start is taken from
\* the actual start).
NoBurst == [][\A t \in Targets :
                 pc[t] = "ready" /\ pc'[t] = "probing" => since[t] >= Interval]_vars

\* The load of `paused` and the start of the probe are not atomic, so a pause
\* can be overtaken; but by one probe per target at most, however long it
\* lasts (runner.rs: while paused no new probe is started).
PauseSlip == paused => \A t \in Targets : slips[t] <= 1

\* Once cancelled, every task ends, also one that is paused, asleep, in the
\* middle of a probe or blocked on a full channel, provided the consumer goes
\* on draining the channel or drops it.
CancelStops == cancel ~> AllDone

\* A bounded run that is not left paused comes to its end by itself.
BoundedRunEnds == Count # 0 => (<>[]~paused => <>AllDone)

\* No task is left behind, whatever the consumer does.
TasksEnd == CancelStops /\ BoundedRunEnds

-----------------------------------------------------------------------------
(* The inductive strengthening of the safety properties above.             *)

\* What is in the channel is what has been sent and not yet received: every
\* number from recvd[t] to seq[t] - 1 once, in order, as long as a receiver
\* exists.
ChannelInv ==
    /\ \A i \in 1..Len(chan) : /\ recvd[chan[i].target] <= chan[i].seq
                               /\ chan[i].seq < seq[chan[i].target]
    /\ \A i, j \in 1..Len(chan) :
          i < j /\ chan[i].target = chan[j].target => chan[i].seq < chan[j].seq
    /\ rxOpen => \A t \in Targets : \A s \in recvd[t]..(seq[t] - 1) :
                    \E i \in 1..Len(chan) : chan[i].target = t /\ chan[i].seq = s
    /\ \A t \in Targets : recvd[t] <= seq[t]
    /\ ~rxOpen => chan = <<>>

\* A task past its sleep has no time left to wait, and what is left to wait
\* plus what has passed since the last start is at least the interval.
PaceInv == \A t \in Targets :
    /\ since[t] + wait[t] >= Interval
    /\ pc[t] \in {"gate", "polling", "ready"} => wait[t] = 0

\* Only a task that had already read paused = FALSE can start in a pause, and
\* having done so it is no longer there.
SlipInv == paused =>
    \A t \in Targets : slips[t] = 0 \/ (slips[t] = 1 /\ pc[t] # "ready")

\* A task past the loop head has probes left, and a task that returned had
\* a reason to.
CountInv == \A t \in Targets :
    /\ Count # 0 => seq[t] <= Count
    /\ Count # 0 /\ pc[t] \notin {"top", "done"} => seq[t] < Count
    /\ pc[t] = "done" => cancel \/ ~rxOpen \/ (Count # 0 /\ seq[t] = Count)

ClosedInv == closed => AllDone /\ chan = <<>>

IndInv == TypeOK /\ ChannelInv /\ PaceInv /\ SlipInv /\ CountInv /\ ClosedInv

\* What the owner of the handle is to see of t: what has been sent, and the
\* result in hand.
Finished(t) == IF rxOpen THEN seq[t] + (IF pc[t] = "sending" THEN 1 ELSE 0) ELSE recvd[t]

\* The loop implements the stream it promises: every result of a probe that has
\* finished, one at a time, in order and up to Count, also after a cancellation
\* (runner.rs: the send is in no select!), and an end the consumer sees only
\* when it has them all and asked for the end or every target is complete.
Stream == INSTANCE ProbeStream WITH finished  <- [t \in Targets |-> Finished(t)],
                                    delivered <- recvd,
                                    stopping  <- cancel \/ ~rxOpen,
                                    ended     <- closed
StreamSpec == Stream!Spec
=============================================================================
