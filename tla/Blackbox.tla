-------------------------------- MODULE Blackbox --------------------------------
(***************************************************************************)
(* httprove --blackbox-config FILE --listen ADDR: the /probe endpoint      *)
(* (run_blackbox_exporter of src/src/exporter.rs) with the modules of a    *)
(* blackbox_exporter configuration (src/src/blackbox.rs).  One probe for   *)
(* each request, within the time limit of its module; the whole            *)
(* connection within the time limit of the command line and five seconds.  *)
(*                                                                         *)
(* While the command runs, queue holds the scrapers that have not come     *)
(* yet, pool the connections that are served, rows what each of the        *)
(* others got.                                                             *)
(***************************************************************************)
EXTENDS Invocation, FiniteSets

CONSTANTS Scrapers,        \* each connects once
          MaxConnections,  \* MAX_CONNECTIONS
          DefaultTimeout,  \* --timeout, in ticks
          Margin,          \* the five seconds on top
          Modules,         \* the modules of the file, and what they say
          Statuses,        \* the status codes a probe may bring; 0: it failed
          NoTimeout,       \* a module says a number of ticks (maybe below 0), nothing,
          NotADuration     \* or something that cannot be read

ASSUME BlackboxAssumption ==
    /\ DefaultTimeout \in Nat /\ Margin \in Nat
    /\ \A m \in DOMAIN Modules :
          Modules[m].timeout \in {NoTimeout, NotADuration} \/ Modules[m].timeout \in Int

\* The module a request asks for; one the file does not have; or a request that
\* is no request for a probe, with the response to it.
UnknownModule == "unknown"
Malformed == {"bad request", "not GET", "other path", "no target"}

-----------------------------------------------------------------------------
(* to_probe_config.                                                        *)

\* A module without a time limit, or with one that parse_go_duration cannot
\* read, has the one of the command line.
TimeLimit(m) == IF m.timeout \in {NoTimeout, NotADuration} THEN DefaultTimeout ELSE m.timeout
Convertible(m) == m.prober \in {"", "http"}
\* Duration::from_secs_f64 panics for a number below 0.
Panics(m) == m.timeout \notin {NoTimeout, NotADuration} /\ m.timeout < 0
\* Without status codes any of 200..299 will do.
Expected(m) == IF m.codes = {} THEN 200..299 ELSE m.codes

-----------------------------------------------------------------------------
Idling == [stage |-> "reading", age |-> 0, spent |-> 0, module |-> UnknownModule]

StartBlackbox == /\ Idle /\ runs < MaxRuns
                 /\ command' = "blackbox" /\ args' = Empty /\ runs' = runs + 1
                 /\ queue' = SetToSeq(Scrapers) /\ pool' = Empty /\ rows' = Empty
                 /\ exitCode' = Pending

Serving == Running("blackbox")

\* A connection ends with this response, or without one, and its permit is free.
Ends(c, response) == /\ pool' = Without(pool, c)
                     /\ rows' = With(rows, c, response)
                     /\ UNCHANGED <<command, args, queue, exitCode, runs>>

\* accept: without a permit the connection is closed at once.
AcceptScraper ==
    /\ Serving /\ queue # Empty
    /\ queue' = Tail(queue)
    /\ IF Cardinality(DOMAIN pool) < MaxConnections
       THEN pool' = With(pool, Head(queue), Idling) /\ UNCHANGED rows
       ELSE rows' = With(rows, Head(queue), [code |-> 0, why |-> "refused"]) /\ UNCHANGED pool
    /\ UNCHANGED <<command, args, exitCode, runs>>

\* The request line has been read, or something that is none.
ReadRequest(c) ==
    /\ Serving /\ c \in DOMAIN pool /\ pool[c].stage = "reading"
    /\ \/ \E m \in Malformed :
             Ends(c, [code |-> CASE m = "not GET" -> 405
                                 [] m = "other path" -> 200
                                 [] OTHER -> 400, why |-> m])
       \/ Ends(c, [code |-> 400, why |-> "unknown module"])
       \/ Ends(c, [code |-> 0, why |-> "read error"])
       \/ \E m \in DOMAIN Modules :
             CASE ~Convertible(Modules[m]) -> Ends(c, [code |-> 400, why |-> "prober"])
               [] Convertible(Modules[m]) /\ Panics(Modules[m]) ->
                    Ends(c, [code |-> 0, why |-> "panic"])
               [] OTHER -> /\ pool' = [pool EXCEPT ![c] = [@ EXCEPT !.stage = "probing",
                                                                    !.module = m]]
                           /\ UNCHANGED <<command, args, queue, rows, exitCode, runs>>

\* The probe has ended, with a status or without, within its time limit.
Probed(c) == \E status \in Statuses :
    /\ Serving /\ c \in DOMAIN pool /\ pool[c].stage = "probing"
    /\ pool[c].spent < TimeLimit(Modules[pool[c].module]) \/ status = 0
    /\ Ends(c, [code |-> 200, why |-> "probed", status |-> status,
                success |-> status \in Expected(Modules[pool[c].module])])

\* Faulty: the probe and its response get the time of the probe alone.
Overdue_NoMargin(c) == pool[c].age = DefaultTimeout
\* The time of a connection is over.
Overdue(c) == pool[c].age = DefaultTimeout + Margin

\* tokio::time::timeout drops the handler and its stream.
Cut(c) == /\ Serving /\ c \in DOMAIN pool /\ Overdue(c)
          /\ Ends(c, [code |-> 0, why |-> "cut", module |-> pool[c].module,
                      read |-> pool[c].age - pool[c].spent])

\* Time passes, but a timer that has fired is served first.
Later(conn) == [conn EXCEPT !.age = @ + 1,
                            !.spent = IF conn.stage = "probing" THEN @ + 1 ELSE @]
ProbeOver(c) == /\ pool[c].stage = "probing"
                /\ pool[c].spent >= TimeLimit(Modules[pool[c].module])
TickBlackbox == /\ Serving /\ pool # Empty
                /\ \A c \in DOMAIN pool : ~Overdue(c) /\ ~ProbeOver(c)
                /\ pool' = [c \in DOMAIN pool |-> Later(pool[c])]
                /\ UNCHANGED <<command, args, queue, rows, exitCode, runs>>

\* Ctrl-C: the process ends, whatever is under way.
StopBlackbox == Serving /\ Exit(0) /\ UNCHANGED rows

Blackbox == \/ StartBlackbox \/ AcceptScraper \/ TickBlackbox \/ StopBlackbox
            \/ Serving /\ \E c \in DOMAIN pool : ReadRequest(c) \/ Probed(c) \/ Cut(c)
=============================================================================
