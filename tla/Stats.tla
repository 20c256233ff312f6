--------------------------------- MODULE Stats ---------------------------------
(***************************************************************************)
(* StatsCollector (src/src/stats.rs) and the verdict of one result         *)
(* (src/src/verdict.rs), as operators.  Times are whole milliseconds.  Of  *)
(* the six phases two are kept apart, the connection (tcp), which a reused *)
(* connection does not have, and the total; the others are kept as one of  *)
(* them.                                                                   *)
(*                                                                         *)
(* Welford's mean and sum of squares are exact here: the mean is kept      *)
(* times Scale, a common multiple of the numbers of samples, and the sum   *)
(* of squares times its square.  Rounding of floats is left out.           *)
(***************************************************************************)
EXTENDS Integers, SequencesExt

CONSTANTS RingCap,    \* RING_CAP
          Scale,      \* bound: a multiple of every number of samples
          ApdexT,     \* --apdex-threshold
          WarnTotal,  \* --warn total=..., 0 without
          CertWarn    \* --cert-warn

ASSUME StatsAssumption == RingCap \in Nat \ {0} /\ Scale \in Nat \ {0}

NoCert == 99999       \* the days of a result without a certificate

-----------------------------------------------------------------------------
(* One phase.                                                              *)

NoSamples == [count |-> 0, min |-> 0, max |-> 0, mean |-> 0, m2 |-> 0, recent |-> <<>>]

\* A full ring gives up its oldest sample.
Ring(recent, v) == Append(IF Len(recent) = RingCap THEN Tail(recent) ELSE recent, v)

\* Faulty: the sum of squares with the old mean twice.
Push_OldMean(acc, v) ==
    LET n == acc.count + 1
        delta == Scale * v - acc.mean
    IN [count |-> n,
        min |-> IF n = 1 \/ v < acc.min THEN v ELSE acc.min,
        max |-> IF n = 1 \/ v > acc.max THEN v ELSE acc.max,
        mean |-> acc.mean + delta \div n,
        m2 |-> acc.m2 + delta * delta,
        recent |-> Ring(acc.recent, v)]

Push(acc, v) ==
    LET n == acc.count + 1
        delta == Scale * v - acc.mean
        mean == acc.mean + delta \div n
    IN [count |-> n,
        min |-> IF n = 1 \/ v < acc.min THEN v ELSE acc.min,
        max |-> IF n = 1 \/ v > acc.max THEN v ELSE acc.max,
        mean |-> mean,
        m2 |-> acc.m2 + delta * (Scale * v - mean),
        recent |-> Ring(acc.recent, v)]

\* A sorted copy, and the nearest rank: the value at place ceil(p/100 * n) of it.
Sorted(s) ==
    LET order == CHOOSE p \in Bijection(DOMAIN s, DOMAIN s) :
                     \A i, j \in DOMAIN s : i < j => s[p[i]] <= s[p[j]]
    IN [i \in DOMAIN s |-> s[order[i]]]
Percentile(acc, p) ==
    LET n == Len(acc.recent)
        rank == (p * n + 99) \div 100
    IN Sorted(acc.recent)[IF rank < 1 THEN 1 ELSE IF rank > n THEN n ELSE rank]

-----------------------------------------------------------------------------
(* The collector.                                                          *)

NewStats == [sent |-> 0, succeeded |-> 0, failed |-> 0, expectFailed |-> 0,
             tcp |-> NoSamples, total |-> NoSamples, reused |-> 0,
             lastIps |-> {}, ipChanges |-> 0, satisfied |-> 0, tolerating |-> 0]

\* A failed probe counts as such and touches nothing else.
RecordStats(s, r) ==
    IF ~r.ok THEN [s EXCEPT !.sent = @ + 1, !.failed = @ + 1]
    ELSE [s EXCEPT
            !.sent = @ + 1,
            !.succeeded = @ + 1,
            !.expectFailed = @ + (IF r.unmet > 0 THEN 1 ELSE 0),
            !.reused = @ + (IF r.reused THEN 1 ELSE 0),
            !.ipChanges = @ + (IF r.ips # {} /\ s.lastIps \notin {{}, r.ips} THEN 1 ELSE 0),
            !.lastIps = IF r.ips = {} THEN @ ELSE r.ips,
            !.tcp = IF r.reused THEN @ ELSE Push(@, r.tcp),
            !.total = Push(@, r.total),
            !.satisfied = @ + (IF r.total <= ApdexT THEN 1 ELSE 0),
            !.tolerating = @ + (IF r.total \in (ApdexT + 1)..(4 * ApdexT) THEN 1 ELSE 0)]

-----------------------------------------------------------------------------
(* The verdict.  A signal's severity is the fraction num/den.  That a      *)
(* baseline is given too never happens: every caller passes none.          *)

Signals(r) ==
    [i \in 1..r.unmet |-> [kind |-> "expect", at |-> i, num |-> 3, den |-> 2]]
    \o (IF WarnTotal > 0 /\ r.total >= WarnTotal
        THEN <<[kind |-> "total", at |-> 1, num |-> r.total, den |-> WarnTotal]>> ELSE <<>>)
    \o (IF r.days # NoCert /\ r.days < CertWarn
        THEN <<IF CertWarn > 0
               THEN [kind |-> "cert", at |-> 1, num |-> 2 * CertWarn - r.days, den |-> CertWarn]
               ELSE [kind |-> "cert", at |-> 1, num |-> 2, den |-> 1]>>
        ELSE <<>>)

Milder(a, b) == a.num * b.den < b.num * a.den

\* The most severe signal; of equals the last, as max_by chooses it.
Worst(signals) ==
    CHOOSE i \in DOMAIN signals :
        \A j \in DOMAIN signals : /\ ~Milder(signals[i], signals[j])
                                  /\ ~Milder(signals[j], signals[i]) => j <= i

Assess(r) ==
    CASE ~r.ok -> [state |-> "down", headline |-> "error", at |-> 1]
      [] r.ok /\ Signals(r) = <<>> -> [state |-> "pass", headline |-> "ok", at |-> 1]
      [] OTHER -> LET w == Signals(r)[Worst(Signals(r))]
                  IN [state |-> "degraded", headline |-> w.kind, at |-> w.at]
=============================================================================
