-------------------------------- MODULE Fanout --------------------------------
(***************************************************************************)
(* httprove --fanout and --all-families (src/src/fanout.rs): one probe for *)
(* every address of a host, in turn, and the addresses that answer         *)
(* otherwise than the rest; one probe for each family.                     *)
(*                                                                         *)
(* What the lookup returns and how each address answers is up to the       *)
(* network.  Times are whole milliseconds; the median is kept doubled.     *)
(***************************************************************************)
EXTENDS Invocation, FiniteSetsExt

CONSTANTS Lookups,   \* the answers of a lookup: sequences of addresses
          IPv6,      \* the addresses that are IPv6
          Answers    \* what a probe brings: ok, status, total

NoStatus == 0        \* an answer without a final hop
NoTotal == -1
OutlierFactor == 2

ASSUME AnswersAssumption ==
    \A a \in Answers : /\ a.ok \in BOOLEAN /\ a.status \in Nat
                      /\ a.total \in Nat \union {NoTotal}

\* resolve_all: the addresses of the family, each once, in the order found.
Matches(family, ip) == CASE family = "auto" -> TRUE
                         [] family = "v4" -> ip \notin IPv6
                         [] family = "v6" -> ip \in IPv6
ResolveAll(found, family) ==
    FoldLeft(LAMBDA ips, ip : IF Matches(family, ip) /\ ~Contains(ips, ip)
                              THEN Append(ips, ip) ELSE ips, Empty, found)

-----------------------------------------------------------------------------
(* The judgement of the rows.                                              *)

\* Faulty: the rows of probes that failed count as well.
Timed_All(rs) == DOMAIN rs

\* The good rows that have a total.
Timed(rs) == {i \in DOMAIN rs : rs[i].ok /\ rs[i].total # NoTotal}

\* Twice the median of their totals, which p lists from the least.
MedianTwice(rs, p) ==
    LET n == Cardinality(Timed(rs))
        total(k) == rs[p[k]].total
    IN IF n = 0 THEN NoTotal
       ELSE IF n % 2 = 1 THEN 2 * total(n \div 2 + 1) ELSE total(n \div 2) + total(n \div 2 + 1)

\* The one status that more good rows have than any other, if there is one.
Votes(rs, s) == Cardinality({i \in DOMAIN rs : rs[i].ok /\ rs[i].status = s})
Majority(rs) ==
    LET seen == {rs[i].status : i \in {i \in DOMAIN rs : rs[i].ok}} \ {NoStatus}
        top == {s \in seen : \A u \in seen : Votes(rs, u) <= Votes(rs, s)}
    IN IF Cardinality(top) = 1 THEN CHOOSE s \in top : TRUE ELSE NoStatus

IsOutlier(r, medianTwice, majority) ==
    \/ ~r.ok
    \/ majority # NoStatus /\ r.status # NoStatus /\ r.status # majority
    \/ medianTwice > 0 /\ 2 * r.total >= medianTwice * OutlierFactor

Flag(rs, medianTwice) ==
    [i \in DOMAIN rs |-> [rs[i] EXCEPT !.outlier =
                             IsOutlier(rs[i], medianTwice, Majority(rs))]]

-----------------------------------------------------------------------------
StartFanout ==
    \E found \in Lookups, family \in {"auto", "v4", "v6"} :
        LET ips == ResolveAll(found, family) IN
        Start("fanout", ips) /\ queue' = ips

\* The probe of the next address, alone.
ProbeNext == \E a \in Answers :
    /\ Running("fanout") /\ queue # Empty
    /\ rows' = Append(rows, [ip |-> Head(queue), ok |-> a.ok, status |-> a.status,
                             total |-> a.total, outlier |-> FALSE])
    /\ queue' = Tail(queue)
    /\ UNCHANGED <<command, args, pool, exitCode, runs>>

\* No address of the family: an error.
NoAddress == Running("fanout") /\ args = Empty /\ Exit(1) /\ UNCHANGED rows

\* The rows in the order of the addresses, the outliers, the exit code.
JudgeRows ==
    /\ Running("fanout") /\ queue = Empty /\ args # Empty
    /\ \E o \in Listings(DOMAIN rows, LAMBDA i, j : rows[i].ip <= rows[j].ip) :
          LET rs == [i \in DOMAIN rows |-> rows[o[i]]] IN
          \E p \in Listings(Timed(rs), LAMBDA i, j : rs[i].total <= rs[j].total) :
              rows' = Flag(rs, MedianTwice(rs, p))
    /\ Exit(IF \E i \in DOMAIN rows' : ~rows'[i].ok \/ rows'[i].outlier THEN 1 ELSE 0)

-----------------------------------------------------------------------------
(* --all-families: each family is looked up and probed by itself.          *)

StartFamilies == Start("families", Empty) /\ queue' = <<"v4", "v6">>

ProbeFamily == \E found \in Lookups, a \in Answers :
    /\ Running("families") /\ queue # Empty
    /\ rows' = Append(rows, [family |-> Head(queue),
                             resolved |-> ResolveAll(found, Head(queue)) # Empty,
                             ok |-> ResolveAll(found, Head(queue)) # Empty /\ a.ok])
    /\ queue' = Tail(queue)
    /\ UNCHANGED <<command, args, pool, exitCode, runs>>

JudgeFamilies == /\ Running("families") /\ queue = Empty
                 /\ Exit(IF \A i \in DOMAIN rows : rows[i].ok THEN 0 ELSE 1)
                 /\ UNCHANGED rows

Compare == \/ StartFanout \/ NoAddress \/ ProbeNext \/ JudgeRows
           \/ StartFamilies \/ ProbeFamily \/ JudgeFamilies
=============================================================================
