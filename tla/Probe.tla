--------------------------------- MODULE Probe ---------------------------------
(***************************************************************************)
(* One probe of src/src/probe.rs.  probe() follows redirects, each hop on  *)
(* a new connection, all hops under one deadline; KeepAliveProber::probe   *)
(* sends one request, on the connection it kept or on a new one.  A hop    *)
(* resolves its host (by Dns when --dns is given), connects, and sends the *)
(* request; every await of it is wrapped in phase_await(deadline).         *)
(*                                                                         *)
(* The clock `now` of Dns is the time since the deadline was set.          *)
(***************************************************************************)
EXTENDS Dns, Sequences

CONSTANTS MaxRedirects,  \* cfg.max_redirects when redirects are followed
          MaxProbes,     \* bound: calls of a keep-alive prober; probe() keeps nothing
          MaxTotal       \* --expect-total

ASSUME ProbeAssumption == {MaxRedirects, MaxProbes, MaxTotal} \subseteq Nat

VARIABLES
    cfg,     \* the configuration, fixed
    pc,      \* what is awaited; "idle" between calls, "done" before the report
    url,     \* current_url
    request, \* current_method and current_body
    hops,    \* the hops completed
    error,   \* ProbeError, or NoError
    conn,    \* the connection in use; NoConn
    kept,    \* established: the connection kept between the calls; NoConn
    peer,    \* what the server did with it: "open", "shut" (a FIN is under way)
             \* or "gone" (the connection's task saw it and ended)
    capture, \* the hop whose body was captured
    failures,\* expect_failures of the last report
    calls,   \* bound: calls so far
    made,    \* ghost: connections made so far; they are numbered
    spent,   \* ghost: time since the call began
    failedOn,\* ghost: connections on which a request failed
    atStart  \* ghost: peer when the call began

probeVars == <<cfg, pc, url, request, hops, error, conn, kept, peer, capture,
               failures, calls, made, spent, failedOn, atStart>>
allVars == <<vars, probeVars>>

None == "none"
NoError == [phase |-> None, timedOut |-> FALSE]
NoConn == 0

\* "name" is an https URL with a host name, "literal" an http URL with an IP.
Urls == {"name", "literal"}
IsHttps(u) == u = "name"

\* A Location that joins to no URL, and one that joins to another scheme.
Locations == Urls \cup {"invalid", "foreign"}
Statuses == {200, 303, 307}
IsRedirect(status) == status \in 300..399

Own == [method |-> "own", body |-> TRUE]
Get == [method |-> "GET", body |-> FALSE]
Expectations == {"status", "body", "total", "cert"}

Configs == [target    : Urls,
            keepAlive : BOOLEAN,  \* KeepAliveProber instead of probe()
            pinned    : BOOLEAN,  \* cfg.resolve is set
            servers   : BOOLEAN,  \* --dns
            follow    : {0, MaxRedirects}]

ProbeInit ==
    /\ Init
    /\ cfg \in {c \in Configs : c.keepAlive => c.follow = 0}  \* cli.rs forbids both
    /\ pc = "idle" /\ url = cfg.target /\ request = Own
    /\ hops = <<>> /\ error = NoError
    /\ conn = NoConn /\ kept = NoConn /\ peer = "open"
    /\ capture = 0 /\ failures = {}
    /\ calls = 0 /\ made = 0 /\ spent = 0 /\ failedOn = {} /\ atStart = "open"

-----------------------------------------------------------------------------
(* connect_hop.                                                            *)

\* --resolve gives the address of the first hop.
Pinned(first) == cfg.pinned /\ first

\* No lookup is needed.
AddressKnown(u, first) == Pinned(first) \/ u = "literal"

\* The hop to u begins: with the lookup, or with the connection.
BeginHop(u, first, t) ==
    /\ url' = u
    /\ pc' = IF AddressKnown(u, first) THEN "tcp"
             ELSE IF cfg.servers THEN "resolve" ELSE "lookup"
    /\ BeginAt(t)

\* The phase an error in the middle of the await is charged to.
ErrorPhase == CASE pc \in {"resolve", "lookup"} -> "dns"
                [] pc \in {"ready", "handshake", "request"} -> "request"
                [] OTHER -> pc

\* Faulty: the prober keeps the connection its request failed on.
Fail_KeepsConn(phase, timedOut) ==
    /\ error' = [phase |-> phase, timedOut |-> timedOut]
    /\ pc' = "done"
    /\ failedOn' = failedOn \cup ({conn} \ {NoConn})
    /\ conn' = NoConn
    /\ UNCHANGED <<cfg, url, request, hops, kept, peer, capture, failures, calls,
                   made, spent, atStart>>

\* The call ends with an error: the completed hops stay, the connection in use
\* is dropped, and probe_reused forgets it.
Fail(phase, timedOut) ==
    /\ error' = [phase |-> phase, timedOut |-> timedOut]
    /\ pc' = "done"
    /\ failedOn' = failedOn \cup ({conn} \ {NoConn})
    /\ conn' = NoConn
    /\ kept' = IF conn = kept THEN NoConn ELSE kept
    /\ UNCHANGED <<cfg, url, request, hops, peer, capture, failures, calls, made,
                   spent, atStart>>

GoOn(next) == /\ pc' = next
              /\ UNCHANGED <<cfg, url, request, hops, error, conn, kept, peer,
                             capture, failures, calls, made, spent, failedOn,
                             atStart>>

\* The steps of the resolver, under the deadline of the probe.
Resolve == /\ pc = "resolve"
           /\ Next
           /\ spent' = spent + (now' - now)
           /\ UNCHANGED <<cfg, pc, url, request, hops, error, conn, kept, peer,
                          capture, failures, calls, made, failedOn, atStart>>

Resolved == /\ pc = "resolve" /\ ~Resolving
            /\ IF outcome = "ok" THEN GoOn("tcp")
               ELSE Fail("dns", outcome = "timeout")
            /\ BeginAt(now)

\* lookup_host ends, with or without an address of the family asked for.
Lookup == /\ pc = "lookup"
          /\ GoOn("tcp") \/ Fail("dns", FALSE)
          /\ UNCHANGED vars

\* TcpStream::connect.  For https the TLS handshake follows.
Connect == /\ pc = "tcp"
           /\ \/ GoOn(IF IsHttps(url) THEN "tls" ELSE "handshake")
              \/ Fail("tcp", FALSE)
           /\ UNCHANGED vars

TlsHandshake == /\ pc = "tls"
                /\ GoOn("handshake") \/ Fail("tls", FALSE)
                /\ UNCHANGED vars

\* http_handshake spawns the connection's task; then the request is built.
HttpHandshake ==
    /\ pc = "handshake"
    /\ \/ /\ pc' = "request"
          /\ made' = made + 1 /\ conn' = made'
          /\ UNCHANGED <<cfg, url, request, hops, error, kept, peer, capture,
                         failures, calls, spent, failedOn, atStart>>
       \/ Fail("request", FALSE)
       \/ Fail("setup", FALSE)
    /\ UNCHANGED vars

-----------------------------------------------------------------------------
(* The request.  Only the server of a kept connection is modelled; what    *)
(* happens on a new one is any success or failure.                         *)

Reused == conn # NoConn /\ conn = kept

\* request_on: sender.ready() fails once the connection's task has ended.
Ready == /\ pc = "ready"
         /\ \/ peer # "gone" /\ GoOn("request")
            \/ Fail("request", FALSE)
         /\ UNCHANGED vars

\* send_request: the response's head.
ReceiveHead == /\ pc = "request"
               /\ \/ (Reused => peer = "open") /\ GoOn("download")
                  \/ Fail("request", FALSE)
               /\ UNCHANGED vars

HopOf(status, to) ==
    [url |-> url, request |-> request, conn |-> conn, reused |-> Reused,
     pinned |-> Pinned(hops = <<>>),
     cert |-> IF IsHttps(url) THEN conn ELSE NoConn,  \* whose chain is reported
     status |-> status, to |-> to]

\* The hop ends the call without an error.
Succeed(hop, keep) ==
    /\ hops' = Append(hops, hop)
    /\ capture' = Len(hops')
    /\ pc' = "done"
    /\ kept' = keep
    /\ peer' = IF keep # kept THEN "open" ELSE peer
    /\ conn' = NoConn
    /\ UNCHANGED <<cfg, url, request, error, failures, calls, made, spent,
                   failedOn, atStart>>

\* The chain cannot be followed; the hop itself is complete.
Astray(hop) ==
    /\ hops' = Append(hops, hop)
    /\ capture' = Len(hops')
    /\ error' = [phase |-> "redirect", timedOut |-> FALSE]
    /\ pc' = "done"
    /\ conn' = NoConn
    /\ UNCHANGED <<cfg, url, request, kept, peer, failures, calls, made, spent,
                   failedOn, atStart>>

\* Faulty: the next hop gets a deadline of its own.
HopClock_Fresh == 0

\* All hops share the deadline: the clock runs on.
HopClock == now

\* Faulty: the method changes and the body stays.
NextRequest_KeepsBody(status) ==
    IF status \in 301..303 THEN [request EXCEPT !.method = "GET"] ELSE request

NextRequest(status) == IF status \in 301..303 THEN Get ELSE request

\* The next hop: on a new connection, the clock running on.
Follow(hop) ==
    /\ hops' = Append(hops, hop)
    /\ capture' = Len(hops')
    /\ request' = NextRequest(hop.status)
    /\ BeginHop(hop.to, FALSE, HopClock)
    /\ conn' = NoConn
    /\ UNCHANGED <<cfg, error, kept, peer, failures, calls, made, spent, failedOn,
                   atStart>>

\* The body is read and the response judged.  redirect_to is recorded whenever
\* the Location joins to a URL.
ReceiveBody ==
    /\ pc = "download"
    /\ \E status \in Statuses, location \in Locations \cup {None} :
          LET loc == IF IsRedirect(status) THEN location ELSE None
              hop == HopOf(status, IF loc = "invalid" THEN None ELSE loc)
          IN  \/ /\ cfg.keepAlive
                 /\ Succeed(hop, conn)
                 /\ UNCHANGED vars
              \/ /\ ~cfg.keepAlive
                 /\ loc = None \/ cfg.follow = 0
                 /\ Succeed(hop, kept)
                 /\ UNCHANGED vars
              \/ /\ ~cfg.keepAlive /\ loc # None /\ cfg.follow > 0
                 /\ \/ loc \in {"invalid", "foreign"}
                    \/ Len(hops) >= cfg.follow
                 /\ Astray(hop)
                 /\ UNCHANGED vars
              \/ /\ ~cfg.keepAlive /\ loc \in Urls
                 /\ Len(hops) < cfg.follow
                 /\ Follow(hop)

BodyFails == pc = "download" /\ Fail("download", FALSE) /\ UNCHANGED vars

-----------------------------------------------------------------------------
(* Time, and the end of a call.                                            *)

Awaiting == pc \in {"lookup", "tcp", "tls", "handshake", "ready", "request",
                    "download"}

Elapse == /\ Awaiting
          /\ now < Deadline
          /\ now' = now + 1 /\ spent' = spent + 1
          /\ UNCHANGED <<server, pending, expiry, grace, got, outcome, start,
                         given, gotAt>>
          /\ UNCHANGED <<cfg, pc, url, request, hops, error, conn, kept, peer,
                         capture, failures, calls, made, failedOn, atStart>>

\* Faulty: waiting for the kept connection to be ready has no time limit.
TimedOut_NotReady == /\ Awaiting /\ pc # "ready" /\ now >= Deadline
                     /\ Fail(ErrorPhase, TRUE)
                     /\ UNCHANGED vars

\* phase_await: the deadline has passed.
TimedOut == /\ Awaiting /\ now >= Deadline
            /\ Fail(ErrorPhase, TRUE)
            /\ UNCHANGED vars

\* The last https hop has the certificate that is checked (leaf_cert).
CertHops == {i \in 1..Len(hops) : hops[i].cert # NoConn}

\* evaluate_expectations: the assertions asked for that do not hold.  lacking:
\* the captured body lacks the text.
Unmet(needs, lacking) ==
    {n \in needs :
        /\ error = NoError
        /\ CASE n = "status" -> hops # <<>> /\ hops[Len(hops)].status # 200
             [] n = "body"   -> lacking
             [] n = "total"  -> spent > MaxTotal
             [] n = "cert"   -> CertHops = {}}

\* The result is complete.  Nothing before this reads the assertions, so the
\* choice of them is made here.
Report == /\ pc = "done"
          /\ \E needs \in SUBSET Expectations, lacking \in BOOLEAN :
                failures' = Unmet(needs, lacking)
          /\ pc' = "idle"
          /\ UNCHANGED <<cfg, url, request, hops, error, conn, kept, peer, capture,
                         calls, made, spent, failedOn, atStart>>
          /\ UNCHANGED vars

\* A call.  The deadline is new; a kept connection known to be closed is dropped
\* and replaced in the same call.
Begin ==
    /\ pc = "idle" /\ calls < (IF cfg.keepAlive THEN MaxProbes ELSE 1)
    /\ calls' = calls + 1
    /\ request' = Own /\ hops' = <<>> /\ error' = NoError /\ capture' = 0
    /\ failures' = {} /\ spent' = 0 /\ atStart' = peer
    /\ IF kept # NoConn /\ peer # "gone"
       THEN /\ pc' = "ready" /\ url' = cfg.target /\ conn' = kept
            /\ UNCHANGED kept
            /\ BeginAt(0)
       ELSE /\ kept' = NoConn /\ conn' = NoConn
            /\ BeginHop(cfg.target, TRUE, 0)
    /\ UNCHANGED <<cfg, peer, made, failedOn>>

\* The server closes the kept connection: its idle timeout, its request limit or
\* a GOAWAY.  The connection's task sees it some time later.
ServerCloses == /\ kept # NoConn /\ peer = "open"
                /\ peer' = "shut"
                /\ UNCHANGED <<cfg, pc, url, request, hops, error, conn, kept,
                               capture, failures, calls, made, spent, failedOn,
                               atStart>>
                /\ UNCHANGED vars
CloseSeen == /\ kept # NoConn /\ peer = "shut"
             /\ peer' = "gone"
             /\ UNCHANGED <<cfg, pc, url, request, hops, error, conn, kept,
                            capture, failures, calls, made, spent, failedOn,
                            atStart>>
             /\ UNCHANGED vars

Step == Resolve \/ Resolved \/ Lookup \/ Connect \/ TlsHandshake \/ HttpHandshake
        \/ Ready \/ ReceiveHead \/ ReceiveBody \/ BodyFails
        \/ Elapse \/ TimedOut \/ Report
ProbeNext == Step \/ Begin \/ ServerCloses \/ CloseSeen

\* The resolver goes on by itself, the timeout of a query included.
Fires == \/ Ask \/ GiveUp \/ GraceOver \/ HardCap
         \/ now >= expiry /\ \E f \in Families : QueryEnds(f)

\* Time passes and the runtime fires the timers; the network may stay silent.
ProbeFairness ==
    /\ WF_allVars(Elapse) /\ WF_allVars(TimedOut) /\ WF_allVars(Report)
    /\ WF_allVars(Resolved)
    /\ WF_allVars(Resolve /\ Tick) /\ WF_allVars(Resolve /\ Fires)
ProbeSpec == ProbeInit /\ [][ProbeNext]_allVars /\ ProbeFairness

-----------------------------------------------------------------------------
(* Properties.                                                             *)

InCall == pc # "idle"

\* "cfg.timeout is the budget of the whole probe, all hops" (probe.rs:45): no
\* call takes longer, and only an expired budget is reported as a time-out.
WithinTimeout == /\ spent <= Deadline
                 /\ error.timedOut => spent = Deadline

\* The hops of a result are a chain (probe.rs:39-43): each is where the one
\* before pointed, sent as GET without the body after a 301-303 and unchanged
\* otherwise; only the first uses --resolve; there are at most as many as the
\* limit allows; without an error the last is not one to be followed.  Assertions
\* are judged on the body of that hop, and only without an error.
ResultCoherent ==
    /\ Len(hops) <= cfg.follow + 1
    /\ \A i \in 1..Len(hops) :
          /\ hops[i].pinned => i = 1
          /\ i > 1 => /\ hops[i].url = hops[i - 1].to
                      /\ hops[i].request = IF hops[i - 1].status = 303 THEN Get
                                           ELSE hops[i - 1].request
    /\ pc = "done" /\ error = NoError =>
          /\ hops # <<>> /\ capture = Len(hops)
          /\ cfg.follow > 0 => hops[Len(hops)].to = None
    /\ failures # {} => error = NoError

\* Keep-alive (probe.rs:1120-1135): no request is sent on a connection that
\* failed before or that was known to be closed when the call began, and a hop
\* reports the certificate of the connection it used.
ReuseSound ==
    /\ conn \notin failedOn /\ kept \notin failedOn
    /\ InCall /\ Reused => atStart # "gone"
    /\ \A i \in 1..Len(hops) :
          hops[i].cert = IF IsHttps(hops[i].url) THEN hops[i].conn ELSE NoConn

\* Every call ends, also when resolver and server stay silent for ever.
ProbeEnds == InCall ~> ~InCall
=============================================================================
