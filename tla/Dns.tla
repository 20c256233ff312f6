--------------------------------- MODULE Dns ---------------------------------
(***************************************************************************)
(* --dns: resolve_via_servers of src/src/dns.rs asks the configured        *)
(* servers one after the other until one of them gives an address.  With   *)
(* IpFamily::Auto the A and the AAAA query of a server run side by side.   *)
(* The whole resolution shares the probe's deadline, and connect_hop wraps *)
(* it in phase_await(deadline).                                            *)
(***************************************************************************)
EXTENDS Integers

CONSTANTS NServers,  \* --dns servers
          Families,  \* queries to each server: {"A"}, {"AAAA"} or both (Auto)
          Deadline,  \* the probe's deadline, in ticks
          QueryCap,  \* DNS_QUERY_CAP
          Grace      \* DNS_SECOND_FAMILY_GRACE

ASSUME DnsAssumption == /\ NServers \in Nat \ {0}
                        /\ Families \subseteq {"A", "AAAA"} /\ Families # {}
                        /\ {Deadline, QueryCap, Grace} \subseteq Nat

VARIABLES
    now,      \* the clock
    server,   \* the server of the for loop
    pending,  \* families whose query to it is under way
    expiry,   \* when its queries time out
    grace,    \* when the query still under way is given up; Never: not set
    got,      \* families of which it gave an address
    outcome,  \* "none" while resolving, then "ok", "failed" or "timeout"
    start,    \* ghost: when the resolution began
    given,    \* ghost: the budget each server was asked with; Never: not asked
    gotAt     \* ghost: when the first address came

vars == <<now, server, pending, expiry, grace, got, outcome, start, given, gotAt>>

Never == -1
Servers == 1..NServers
Smaller(a, b) == IF a < b THEN a ELSE b
Resolving == outcome = "none"

Init == /\ now = 0 /\ start = 0
        /\ server = 1
        /\ pending = {} /\ expiry = 0 /\ grace = Never /\ got = {}
        /\ outcome = "none"
        /\ given = [s \in Servers |-> Never]
        /\ gotAt = Never

\* The caller begins a resolution at time t: a hop after a redirect begins with
\* any part of the deadline left.
BeginAt(t) == /\ now' = t /\ start' = t
              /\ server' = 1
              /\ pending' = {} /\ expiry' = t /\ grace' = Never /\ got' = {}
              /\ outcome' = "none"
              /\ given' = [s \in Servers |-> Never]
              /\ gotAt' = Never

-----------------------------------------------------------------------------
(* One turn of the loop.                                                   *)

\* Faulty: each server may use up all the time that is left.
Budget_Whole == Smaller(Deadline - now, QueryCap)

\* An even share of what is left, for this server and those after it.
Budget == Smaller((Deadline - now) \div (NServers - server + 1), QueryCap)

\* The queries to the next server are sent.
Ask == /\ Resolving /\ pending = {}
       /\ server \in Servers
       /\ now < Deadline
       /\ pending' = Families
       /\ expiry' = now + Budget
       /\ grace' = Never
       /\ given' = [given EXCEPT ![server] = Budget]
       /\ UNCHANGED <<now, server, got, outcome, start, gotAt>>

\* The loop ends without an address: no server is left, or no time.
GiveUp == /\ Resolving /\ pending = {}
          /\ server > NServers \/ now >= Deadline
          /\ outcome' = "failed"
          /\ UNCHANGED <<now, server, pending, expiry, grace, got, start, given,
                         gotAt>>

\* The queries left are rest: the server's result, once there is none left, is
\* the addresses it gave, or the loop turns to the next server.
Settle(rest, addresses) ==
    /\ pending' = rest
    /\ got' = addresses
    /\ outcome' = IF rest = {} /\ addresses # {} THEN "ok" ELSE outcome
    /\ server' = IF rest = {} /\ addresses = {} THEN server + 1 ELSE server

\* Faulty: the other family may take the whole budget.
GraceEnd_Budget == expiry

GraceEnd == now + Grace

\* A query of family f ends: with addresses, without (no records, an error, a
\* reply that does not parse), or at its expiry.  The first one to end starts
\* the grace of the other.
QueryEnds(f) ==
    /\ Resolving /\ f \in pending
    /\ \E found \in {{}, {f}} :
          /\ Settle(pending \ {f}, got \cup found)
          /\ gotAt' = IF got = {} /\ found # {} THEN now ELSE gotAt
    /\ grace' = IF pending = Families THEN GraceEnd ELSE grace
    /\ UNCHANGED <<now, expiry, start, given>>

\* tokio::time::timeout(DNS_SECOND_FAMILY_GRACE) gives the other query up.
GraceOver == /\ Resolving /\ pending # {}
             /\ grace # Never /\ now >= grace
             /\ Settle({}, got)
             /\ UNCHANGED <<now, expiry, grace, start, given, gotAt>>

\* phase_await: the deadline, whatever the resolution was waiting for.
HardCap == /\ Resolving /\ pending # {}
           /\ now >= Deadline
           /\ outcome' = "timeout"
           /\ UNCHANGED <<now, server, pending, expiry, grace, got, start,
                          given, gotAt>>

\* Time passes while a query is awaited, up to the next timer that fires.
Tick == /\ Resolving /\ pending # {}
        /\ now < expiry
        /\ grace # Never => now < grace
        /\ now' = now + 1
        /\ UNCHANGED <<server, pending, expiry, grace, got, outcome, start,
                       given, gotAt>>

Next == Ask \/ GiveUp \/ (\E f \in Families : QueryEnds(f))
        \/ GraceOver \/ HardCap \/ Tick

Spec == Init /\ [][Next]_vars

-----------------------------------------------------------------------------
(* Properties.                                                             *)

\* "Dead servers do not starve the live ones behind them" (dns.rs:286-287): a
\* resolution with time left at its start only fails once every server was
\* asked, each with an even share of that time or the cap.
FairShare ==
    outcome \in {"failed", "timeout"} /\ start < Deadline =>
        \A s \in Servers :
            given[s] >= Smaller((Deadline - start) \div NServers, QueryCap)

\* dns.rs:289-291: a family that stays silent holds the answer back for the
\* grace, and no address comes after the deadline.
SilentFamilyCostsGrace ==
    outcome = "ok" => /\ gotAt \in start..Deadline
                      /\ now <= Smaller(gotAt + Grace, Deadline)
=============================================================================
