------------------------------- MODULE Commands -------------------------------
(***************************************************************************)
(* One user's invocations of the one-shot commands of httprove, one after  *)
(* the other.  Only the ping mode leaves a file to the next invocation;    *)
(* the other commands are tried as the first.                              *)
(***************************************************************************)
EXTENDS CertCheck, Ping, Investigate, Responses, Blackbox

CONSTANT Messages   \* what a resolver may send: question, answers, rest

vars == <<local, pingVars>>

\* One datagram, the question it answers and how much of it has arrived: more
\* than RECV_BUF is cut off.  To a command it is the outcome of its lookup.
ReadResponse ==
    \E message \in Messages, kind \in {"address", "text", "host"} :
        LET sent == Encode(message) \o message.rest IN
        \E cut \in 0..Len(sent) :
            AtOnce("response", [kind |-> kind, message |-> message, cut |-> cut],
                   Read(kind, SubSeq(sent, 1, cut)), 0)

FileLess == CheckCerts \/ Inspect \/ Compare \/ LookInto \/ ReadResponse \/ Blackbox

CommandsInit == Init /\ PingInit
CommandsNext == \/ (Idle => runs = 0 /\ file = Absent) /\ FileLess /\ UNCHANGED pingVars
                \/ PingNext \/ Environment
CommandsSpec == CommandsInit /\ [][CommandsNext]_vars

-----------------------------------------------------------------------------
(* cert-check                                                              *)

\* The rows are those of the targets, each once: as many, and for each host as
\* often as it was named.
Named(h) == Cardinality({i \in DOMAIN Targets(args.specs) : Targets(args.specs)[i] = h})
RowsOf(h) == Cardinality({i \in DOMAIN rows : rows[i].host = h})

\* cert_check.rs:139-176: whatever order the tasks end in, and also when some of
\* them fail or panic, every target gets its row, and the rows are printed from
\* the worst to the best.
OneRowEach ==
    Ended("cert-check") /\ Readable(args.specs) =>
        /\ \A h \in Hosts \union {Invalid} : Named(h) = RowsOf(h)
        /\ \A i, j \in DOMAIN rows :
              i < j => (rows[j].error => rows[i].error)
                       /\ (~rows[i].error => rows[i].days <= rows[j].days)

\* cert_check.rs:200-203: without --insecure an exit code of 0 is not given
\* for a server whose leaf has expired, nor for one that is trusted by nobody,
\* unless it was its expired chain that kept the trust from being judged.  A leaf
\* that cert.rs cannot parse shows no date and counts as good.
CertExitTrue ==
    Ended("cert-check") /\ exitCode = 0 /\ ~args.insecure =>
        \A i \in DOMAIN Targets(args.specs) :
            LET h == Targets(args.specs)[i] IN
            /\ h # Invalid
            /\ server[h].chain[1].parses => server[h].chain[1].ends >= 0
            /\ server[h].trusted \/ AnyExpired(server[h].chain)

\* cert_check.rs:10-12 and 200-203 say that a certificate whose date has passed
\* is reported as EXPIRED rather than OK: no exit code 0 for a chain the
\* verification refused for a date.
ExpiredReported ==
    Ended("cert-check") /\ exitCode = 0 /\ ~args.insecure =>
        \A i \in DOMAIN Targets(args.specs) :
            ~AnyExpired(server[Targets(args.specs)[i]].chain)

-----------------------------------------------------------------------------
(* fan-out                                                                 *)

OnlySlow == {i \in DOMAIN rows : /\ rows[i].outlier /\ rows[i].ok
                                 /\ \/ Majority(rows) = NoStatus
                                    \/ rows[i].status \in {NoStatus, Majority(rows)}}
Fine == {i \in DOMAIN rows : rows[i].ok /\ ~rows[i].outlier}
InTime == {i \in DOMAIN rows : rows[i].ok /\ rows[i].total # NoTotal}

\* fanout.rs:204-273: an address that is flagged for its time alone is slower
\* than every one that is not, and such addresses are never more than half of
\* those that answered with a time: a whole group is no outlier of itself.
OutliersAreFew ==
    Ended("fanout") /\ args # Empty =>
        /\ \A i \in OnlySlow, j \in Fine : rows[i].total > rows[j].total
        /\ 2 * Cardinality(OnlySlow) <= Cardinality(InTime)

-----------------------------------------------------------------------------
(* the reference file of the ping mode                                     *)

\* The rows of the successes of u.
Succeeding(u) == {i \in DOMAIN rows : rows[i].target = u /\ rows[i].result.ok}

\* lib.rs:646-727 and 919: an invocation that judges and ends with 0 has read no
\* reference that a crash of an earlier one cut off; and with --on-change each
\* target, as seen last, is what the reference said, also where --since-good has
\* replaced it in the meantime.
NoSilentDrift ==
    Ended("ping") /\ exitCode = 0 /\ step # "collecting" =>
        /\ before # Torn
        /\ args.onChange /\ before.kind = "probe" =>
              \A u \in Urls : \A i \in Succeeding(u) :
                  (\A j \in Succeeding(u) : j <= i) =>
                      DiffFingerprints(before.fp, Fingerprint(rows[i].result)) = {}

-----------------------------------------------------------------------------
(* statistics                                                              *)

\* The successes of u among some rows, in their order.
SuccessesIn(rs, u) ==
    LET upTo[n \in 0..Len(rs)] ==
            IF n = 0 THEN <<>>
            ELSE IF rs[n].target = u /\ rs[n].result.ok THEN Append(upTo[n - 1], rs[n])
                 ELSE upTo[n - 1]
    IN upTo[Len(rs)]
SuccessesOf(u) == SuccessesIn(rows, u)
TotalsOf(s) == [i \in DOMAIN s |-> s[i].result.total]
Sum(s) == LET upTo[n \in 0..Len(s)] == IF n = 0 THEN 0 ELSE upTo[n - 1] + s[n]
          IN upTo[Len(s)]
Changes(s) == Cardinality({i \in 2..Len(s) : s[i - 1].result.ips # s[i].result.ips})
Squares(s) == [i \in DOMAIN s |-> s[i] * s[i]]

\* stats.rs:82-150, 153-262: the running figures of a target are those of the
\* results it has had: Welford's mean and sum of squares are those of the
\* definition, the ring holds the last samples in their order, and the median
\* taken from it has half of them on either side.
StatsFaithful ==
    command = "ping" => \A u \in Urls :
        LET s == slots[u].stats
            ts == TotalsOf(SuccessesOf(u))
            n == Len(ts)
            acc == s.total
        IN /\ s.sent = Cardinality({i \in DOMAIN rows : rows[i].target = u})
           /\ acc.count = n /\ s.succeeded = n /\ s.failed = s.sent - n
           /\ s.ipChanges = Changes(SuccessesOf(u))
           /\ n * acc.mean = Scale * Sum(ts)
           /\ n * acc.m2 = Scale * Scale * (n * Sum(Squares(ts)) - Sum(ts) * Sum(ts))
           /\ acc.recent = SubSeq(ts, (IF n > RingCap THEN n - RingCap ELSE 0) + 1, n)
           /\ n > 0 => LET p == Percentile(acc, 50)
                           m == Len(acc.recent)
                           Below(v) == Cardinality({i \in 1..m : acc.recent[i] < v})
                           UpTo(v) == Cardinality({i \in 1..m : acc.recent[i] <= v})
                       IN 2 * Below(p) < m /\ m <= 2 * UpTo(p)

-----------------------------------------------------------------------------
(* the responses of DNS                                                    *)

NameOf(message, name) ==
    name.labels \o CASE name.tail = "root" -> <<>>
                     [] name.tail = "question" -> message.question
                     [] name.tail = "parent" -> Tail(message.question)

\* What a message says to each kind of question.
HasAddress(r) == <<r.type, r.data.kind>> \in {QTYPE_A, QTYPE_AAAA} \X {"bytes"}
                 /\ Len(r.data.bytes) = (IF r.type = QTYPE_A THEN 4 ELSE 16)
Said(kind, message) ==
    LET Those(test(_)) == SelectSeq(message.answers, test)
        addresses == Those(HasAddress)
        texts == Those(IsText)
        hosts == Those(LAMBDA r : r.type = QTYPE_PTR)
    IN CASE kind = "address" -> Found([i \in DOMAIN addresses |-> addresses[i].data.bytes])
         [] kind = "text" ->
                Found([i \in DOMAIN texts |-> FlattenSeq(texts[i].data.segments)])
         [] kind = "host" ->
                IF hosts = <<>> THEN Found(<<>>)
                ELSE IF hosts[1].data.name.tail = "itself" THEN Refused
                ELSE Found(<<NameOf(message, hosts[1].data.name)>>)

\* dns.rs:748-902: a response that has arrived as a whole says what its records
\* say, whatever lies between and behind them and however names are compressed;
\* one that is cut off is refused and not taken for a shorter one, but for the
\* name of a host that had arrived.
ResponsesRead ==
    Ended("response") =>
        LET said == Said(args.kind, args.message)
            whole == args.cut >= Len(Encode(args.message))
        IN /\ rows \in {Refused, said}
           /\ whole => rows = said
           /\ ~whole /\ args.kind # "host" => rows = Refused

-----------------------------------------------------------------------------
(* the blackbox endpoint                                                   *)

\* exporter.rs:393: a request that has been read in time for its probe to end
\* within the time of the connection is answered, not cut off.
AnsweredUnlessSlow ==
    command = "blackbox" => \A c \in DOMAIN rows :
        rows[c].why = "cut" /\ rows[c].module # UnknownModule =>
            rows[c].read + TimeLimit(Modules[rows[c].module]) >= DefaultTimeout + Margin
=============================================================================
