------------------------------ MODULE Exporter ------------------------------
(***************************************************************************)
(* run_exporter of src/src/exporter.rs (--listen): an update task feeds    *)
(* the results of an endless probe loop into a state behind a Mutex, and   *)
(* an accept loop serves that state to scrapers, at most MAX_CONNECTIONS   *)
(* at a time and none for longer than CONN_TIMEOUT.  Ctrl-C cancels the    *)
(* probe loop and waits for the update task.                               *)
(*                                                                         *)
(* Of the probe loop only what it promises is used (ProbeStream).          *)
(***************************************************************************)
EXTENDS ProbeStream, Integers, FiniteSets

CONSTANTS Conns,           \* scrapers, each with one connection at a time
          MaxConnections,  \* MAX_CONNECTIONS (64 in the code)
          None,            \* no result in hand, nothing taken yet
          MaxSeq,          \* BOUND: results of one target
          MaxTime,         \* BOUND: of the wall clock
          MaxScrapes       \* BOUND: scrapes of /metrics

\* A result as the update task sees it.
Result == [target : Targets, ok : BOOLEAN, seq : Nat]

ASSUME ExporterAssumption == /\ N \in Nat /\ Count = 0
                             /\ IsFiniteSet(Conns)
                             /\ MaxConnections \in Nat \ {0}
                             /\ MaxSeq \in Nat /\ MaxTime \in Nat \ {0}
                             /\ None \notin Result

VARIABLES
    name,      \* [Targets -> Targets] cfgs[i].url, as the first target with it
    hand,      \* the result the update task has received and not recorded
    slots,     \* ExporterState.targets
    requests,  \* ExporterState.metrics_requests_total
    phase,     \* where run_exporter is, see Phases
    sig,       \* Ctrl-C has been pressed: the one ctrl_c() future keeps it
    conn,      \* [Conns -> where the connection is, see States]
    body,      \* [Conns -> the snapshot rendered for it; None without one]
    scraped    \* ghost: the last snapshot of slots; None before the first

Phases == {"accepting",  \* in select! { ctrl_c, accept }
           "backoff",    \* asleep after a failed accept
           "draining",   \* awaiting the update task
           "exited"}

States == {"idle",     \* not connected
           "backlog",  \* connected, not accepted yet
           "reading",  \* accepted: waiting for the head of the request
           "writing",  \* sending the response
           "closed"}   \* closed by the exporter

Active == {c \in Conns : conn[c] \in {"reading", "writing"}}

\* The semaphore: what is not held by a connection task.
Permits == MaxConnections - Cardinality(Active)

streamVars == vars
stateVars == <<hand, slots, requests>>
connVars == <<conn, body, scraped>>
allVars == <<streamVars, name, stateVars, phase, sig, connVars>>

Namings == {f \in [Targets -> Targets] : \A t \in Targets : f[t] <= t /\ f[f[t]] = f[t]}

NewSlot == [sent |-> 0, failed |-> 0, lastOk |-> None, verdict |-> None,
            attempt |-> 0, success |-> 0]

ExpInit ==
    /\ Init
    /\ name \in Namings
    /\ hand = None
    /\ slots = [t \in Targets |-> NewSlot]
    /\ requests = 0
    /\ phase = "accepting"
    /\ sig = FALSE
    /\ conn = [c \in Conns |-> "idle"]
    /\ body = [c \in Conns |-> None]
    /\ scraped = None

-----------------------------------------------------------------------------
(* The update task.                                                        *)

\* A probe of t has ended; its result is on the way.
Probed(t) ==
    /\ finished[t] < MaxSeq
    /\ Finish(t)
    /\ UNCHANGED <<name, stateVars, phase, sig, connVars>>

\* rx.recv() = Some(result): a probe of t that passed, or one that failed.
RecvSome(t) ==
    /\ hand = None
    /\ Deliver(t)
    /\ \E ok \in BOOLEAN : hand' = [target |-> t, ok |-> ok, seq |-> delivered[t]]
    /\ UNCHANGED <<name, slots, requests, phase, sig, connVars>>

\* Faulty: takes the wall clock as it is.
Later_Raw(previous, observed) == observed

\* monotonic_timestamp: never less than before.
Later(previous, observed) == IF observed > previous THEN observed ELSE previous

\* Faulty: the verdict shown is that of the last success.
Recorded_StaleVerdict(slot, r, now) ==
    [sent    |-> slot.sent + 1,
     failed  |-> IF r.ok THEN slot.failed ELSE slot.failed + 1,
     lastOk  |-> IF r.ok THEN r ELSE slot.lastOk,
     verdict |-> IF r.ok THEN r ELSE slot.verdict,
     attempt |-> Later(slot.attempt, now),
     success |-> IF r.ok THEN Later(slot.success, now) ELSE slot.success]

\* A slot after stats.record, the verdict of the newest result (the result
\* itself here), and the two timestamps.
Recorded(slot, r, now) ==
    [sent    |-> slot.sent + 1,
     failed  |-> IF r.ok THEN slot.failed ELSE slot.failed + 1,
     lastOk  |-> IF r.ok THEN r ELSE slot.lastOk,
     verdict |-> r,
     attempt |-> Later(slot.attempt, now),
     success |-> IF r.ok THEN Later(slot.success, now) ELSE slot.success]

\* The first slot with the result's URL is updated, under the lock, at what the
\* wall clock shows; it may have been set back since the last time.
Record ==
    /\ hand # None
    /\ \E now \in 1..MaxTime :
          slots' = [slots EXCEPT ![name[hand.target]] = Recorded(@, hand, now)]
    /\ hand' = None
    /\ UNCHANGED <<streamVars, name, requests, phase, sig, connVars>>

\* rx.recv() = None: the update task ends.
RecvNone ==
    /\ hand = None
    /\ ~ended
    /\ End
    /\ UNCHANGED <<name, stateVars, phase, sig, connVars>>

-----------------------------------------------------------------------------
(* The accept loop.  Its select! picks any arm that is ready.              *)

Connect(c) ==
    /\ conn[c] \in {"idle", "closed"}
    /\ conn' = [conn EXCEPT ![c] = "backlog"]
    /\ body' = [body EXCEPT ![c] = None]
    /\ UNCHANGED <<streamVars, name, stateVars, phase, sig, scraped>>

\* A connection beyond the limit is closed without a response.
Accept(c) ==
    /\ phase = "accepting"
    /\ conn[c] = "backlog"
    /\ conn' = [conn EXCEPT ![c] = IF Permits > 0 THEN "reading" ELSE "closed"]
    /\ UNCHANGED <<streamVars, name, stateVars, phase, sig, body, scraped>>

AcceptError ==
    /\ phase = "accepting"
    /\ phase' = "backoff"
    /\ UNCHANGED <<streamVars, name, stateVars, sig, connVars>>

BackoffOver ==
    /\ phase = "backoff"
    /\ phase' = "accepting"
    /\ UNCHANGED <<streamVars, name, stateVars, sig, connVars>>

PressCtrlC ==
    /\ phase # "exited" /\ ~sig
    /\ sig' = TRUE
    /\ UNCHANGED <<streamVars, name, stateVars, phase, connVars>>

\* Faulty: leaves the loop without cancelling the probe loop.
Shutdown_NoCancel ==
    /\ phase = "accepting" /\ sig
    /\ phase' = "draining"
    /\ UNCHANGED <<streamVars, name, stateVars, sig, connVars>>

\* The ctrl_c arm, then cancel.cancel().
Shutdown ==
    /\ phase = "accepting" /\ sig
    /\ Stop
    /\ phase' = "draining"
    /\ UNCHANGED <<name, stateVars, sig, connVars>>

\* Faulty: the update task is not waited for.
Exit_NoAwait ==
    /\ phase = "draining"
    /\ phase' = "exited"
    /\ UNCHANGED <<streamVars, name, stateVars, sig, connVars>>

\* update_task.await returned; the connection tasks go with the runtime.
Exit ==
    /\ phase = "draining" /\ ended
    /\ phase' = "exited"
    /\ UNCHANGED <<streamVars, name, stateVars, sig, connVars>>

-----------------------------------------------------------------------------
(* handle_connection, inside a timeout.                                    *)

\* GET /metrics: count the request and copy the slots, under the lock.
ReadMetrics(c) ==
    /\ conn[c] = "reading" /\ requests < MaxScrapes
    /\ requests' = requests + 1
    /\ scraped' = slots
    /\ body' = [body EXCEPT ![c] = [slots |-> slots, requests |-> requests']]
    /\ conn' = [conn EXCEPT ![c] = "writing"]
    /\ UNCHANGED <<streamVars, name, hand, slots, phase, sig>>

\* GET / or anything else: a fixed page.
ReadOther(c) ==
    /\ conn[c] = "reading"
    /\ conn' = [conn EXCEPT ![c] = "writing"]
    /\ UNCHANGED <<streamVars, name, stateVars, phase, sig, body, scraped>>

\* No request line, the response is written or fails: the task returns.
Return(c) ==
    /\ conn[c] \in {"reading", "writing"}
    /\ conn' = [conn EXCEPT ![c] = "closed"]
    /\ UNCHANGED <<streamVars, name, stateVars, phase, sig, body, scraped>>

\* Faulty: only the request is waited for with a limit.
Timeout_ReadOnly(c) ==
    /\ conn[c] = "reading"
    /\ conn' = [conn EXCEPT ![c] = "closed"]
    /\ UNCHANGED <<streamVars, name, stateVars, phase, sig, body, scraped>>

\* CONN_TIMEOUT is over, whatever the scraper has or has not done.
Timeout(c) ==
    /\ conn[c] \in {"reading", "writing"}
    /\ conn' = [conn EXCEPT ![c] = "closed"]
    /\ UNCHANGED <<streamVars, name, stateVars, phase, sig, body, scraped>>

Update == (\E t \in Targets : Probed(t) \/ RecvSome(t)) \/ Record \/ RecvNone

\* With the process its connections are gone.
Running == /\ phase # "exited"
           /\ \/ \E c \in Conns : \/ Connect(c) \/ Accept(c) \/ ReadMetrics(c)
                                  \/ ReadOther(c) \/ Return(c) \/ Timeout(c)
              \/ Update \/ AcceptError \/ BackoffOver
              \/ PressCtrlC \/ Shutdown \/ Exit

ExpSpec == ExpInit /\ [][Running]_allVars

\* The tasks are polled and their timers fire; scrapers do as they like.  The
\* select! picks a ready arm at random, so the ctrl_c arm has its turn; that
\* the cancelled stream ends is what ProbeRunner's CancelStops shows.
ExpFairSpec == /\ ExpSpec
               /\ \A t \in Targets : WF_allVars(RecvSome(t))
               /\ WF_allVars(Record) /\ WF_allVars(RecvNone)
               /\ WF_allVars(BackoffOver) /\ SF_allVars(Shutdown) /\ WF_allVars(Exit)
               /\ \A c \in Conns : WF_allVars(Timeout(c))

-----------------------------------------------------------------------------
(* Properties.                                                             *)

\* Whatever a scraper is sent was true at one instant: counters, verdict and
\* timestamps of a target are of the same results, a good verdict is that of the
\* last success, and no success is newer than the last attempt (exporter.rs: a
\* failure shows as Down).
Coherent(s) ==
    \A t \in Targets :
        /\ s[t].sent = 0 <=> s[t].verdict = None
        /\ s[t].lastOk = None <=> s[t].sent = s[t].failed
        /\ s[t].success <= s[t].attempt
        /\ s[t].success = 0 <=> s[t].lastOk = None
        /\ s[t].verdict # None => (s[t].verdict.ok => s[t].lastOk = s[t].verdict)
BodiesCoherent == \A c \in Conns : body[c] # None => Coherent(body[c].slots)

\* From scrape to scrape no counter and no timestamp goes back, also when the
\* wall clock does (monotonic_timestamp).
ScrapesAdvance ==
    [][scraped' # scraped /\ scraped # None =>
         \A t \in Targets : /\ scraped'[t].sent >= scraped[t].sent
                            /\ scraped'[t].failed >= scraped[t].failed
                            /\ scraped'[t].attempt >= scraped[t].attempt
                            /\ scraped'[t].success >= scraped[t].success]_allVars

\* The results of the probes of the URL of t that have ended: <<target, number>>.
ProbesOf(t) == {r \in Targets \X (0..MaxSeq) :
                  name[r[1]] = t /\ r[2] < finished[r[1]]}

\* Ctrl-C loses no result: the process ends with every probe that has finished, in
\* the hands of the update task or not, in the slot of its URL.
ShutdownDrains ==
    phase = "exited" =>
        \A t \in Targets : name[t] = t =>
            slots[t].sent = Cardinality(ProbesOf(t))

\* A scraper that stalls, while sending or receiving, holds its permit for a
\* bounded time only, and no more are served than the limit allows.
ConnectionsEnd == /\ [](Permits \in 0..MaxConnections)
                  /\ \A c \in Conns : c \in Active ~> c \notin Active \/ phase = "exited"

\* Ctrl-C ends the exporter, also one pressed in a backoff or under a flood of
\* connections.
CtrlCEnds == sig ~> (phase = "exited")
=============================================================================
