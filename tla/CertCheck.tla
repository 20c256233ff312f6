------------------------------- MODULE CertCheck -------------------------------
(***************************************************************************)
(* httprove --cert-check (src/src/cert_check.rs): the certificates of many *)
(* servers, by at most MaxConcurrency tasks; and the inspection of one     *)
(* connection with --check-chain and --tls-grade (src/src/lib.rs).         *)
(*                                                                         *)
(* A target is a host, or Invalid for a spelling that is none.  An         *)
(* argument names one target or a file of targets and comments.  What a    *)
(* server presents does not change during a run; any attempt to reach it   *)
(* may fail.  The arguments and what the servers present are kept in args. *)
(***************************************************************************)
EXTENDS Invocation, Certificates, FiniteSets

CONSTANTS MaxConcurrency,  \* MAX_CONCURRENCY
          Presented,       \* the chains a server may present
          Hosts,           \* a finite set of naturals, in the order of names
          Requests,        \* the command lines tried: their targets and --insecure
          Connections,     \* negotiated: version, cipher, kx, hsts
          Answering        \* caIssuers urls that answer with a certificate

Invalid == 0   \* no host

\* The chain a host presents, and whether its CA is trusted and its name right.
ServerTypes == [chain : Presented, trusted : BOOLEAN]
server == args.server

-----------------------------------------------------------------------------
(* fetch_cert of probe.rs as a verifying client sees it (rustls, webpki):  *)
(* the dates of the whole chain are checked, and a date that has passed is *)
(* reported rather than an unknown issuer.                                 *)
AnyExpired(chain) == \E i \in DOMAIN chain : chain[i].ends < 0
Handshake(s) == CASE AnyExpired(s.chain) -> "expired"
                [] ~AnyExpired(s.chain) /\ ~s.trusted -> "untrusted"
                [] OTHER -> "ok"

-----------------------------------------------------------------------------
(* expand_targets: the lines of a file are targets too, a file in a file   *)
(* is not followed.                                                        *)
Line(l) == CASE l.kind = "host" -> <<l.host>>
             [] l.kind = "comment" -> <<>>
             [] OTHER -> <<Invalid>>
Targets(specs) == FlattenSeq([i \in DOMAIN specs |->
    CASE specs[i].kind = "host" -> <<specs[i].host>>
      [] specs[i].kind = "file" -> FlattenSeq([j \in DOMAIN specs[i].lines |->
                                                Line(specs[i].lines[j])])
      [] OTHER -> <<Invalid>>])
\* What a server presents begins with a leaf; the hosts named are some of Hosts.
ASSUME CertAssumption ==
    /\ MaxConcurrency \in Nat \ {0}
    /\ Hosts \subseteq Nat \ {Invalid}
    /\ \A chain \in Presented :
          /\ 1 \in DOMAIN chain
          /\ \A i \in DOMAIN chain : chain[i].parses \in BOOLEAN /\ chain[i].ends \in Int
    /\ \A request \in Requests :
          request.insecure \in BOOLEAN /\ Targets(request.specs) \in Seq(Hosts \union {Invalid})

Readable(specs) == \A i \in DOMAIN specs : specs[i].kind # "unreadable file"

ErrorRow(h) == [host |-> h, error |-> TRUE, days |-> 0]
Row(h, chain) == [host |-> h, error |-> FALSE, days |-> chain[1].days]

\* Errors first, then the fewest days; sort_by is stable.
Before(r, s) == \/ r.error /\ ~s.error
                \/ r.error = s.error /\ r.days < s.days
                \/ r.error = s.error /\ r.days = s.days /\ r.host <= s.host

-----------------------------------------------------------------------------
StartCertCheck ==
    \E request \in Requests, servers \in [Hosts -> ServerTypes] :
        /\ Start("cert-check", [specs |-> request.specs, insecure |-> request.insecure,
                                server |-> servers])
        /\ UNCHANGED queue

Task(h, insecure) == [host |-> h, insecure |-> insecure]

\* The targets are read; the first of them get a task each.
Expand == /\ Running("cert-check") /\ queue = Empty /\ pool = Empty /\ rows = Empty
          /\ LET all == Targets(args.specs)
                 good == {i \in DOMAIN all : all[i] # Invalid}
                 n == Cardinality(good)
                 first == IF n < MaxConcurrency THEN n ELSE MaxConcurrency
             IN IF ~Readable(args.specs) \/ all = <<>>
                THEN Exit(1) /\ UNCHANGED rows
                ELSE \E p \in Listings(good, <) :
                       /\ rows' = [i \in 1..(Len(all) - n) |-> ErrorRow(Invalid)]
                       /\ pool' = [t \in 1..first |-> Task(all[p[t]], args.insecure)]
                       /\ queue' = [i \in 1..(n - first) |-> all[p[first + i]]]
                       /\ UNCHANGED <<command, args, exitCode, runs>>

\* Faulty: the place of a task that panicked stays empty.
Joined_NoRefill(t, row) ==
    /\ rows' = Append(rows, row)
    /\ IF queue = Empty \/ row.error
       THEN pool' = Without(pool, t) /\ UNCHANGED queue
       ELSE /\ pool' = [pool EXCEPT ![t] = Task(Head(queue), args.insecure)]
            /\ queue' = Tail(queue)

\* A task has ended: its row, and the next target in its place, under the number
\* that has become free.
Joined(t, row) ==
    /\ rows' = Append(rows, row)
    /\ IF queue = Empty
       THEN pool' = Without(pool, t) /\ UNCHANGED queue
       ELSE /\ pool' = [pool EXCEPT ![t] = Task(Head(queue), args.insecure)]
            /\ queue' = Tail(queue)

\* Only a date is worth a second attempt.
MayRetry(t) == ~pool[t].insecure /\ Handshake(server[pool[t].host]) = "expired"

\* fetch_cert ends with the chain: the verified handshake of a good server, or
\* the second one, that verifies nothing.
Fetched(t) ==
    /\ t \in DOMAIN pool
    /\ pool[t].insecure \/ Handshake(server[pool[t].host]) = "ok"
    /\ Joined(t, Row(pool[t].host, ParseChain(server[pool[t].host].chain)))
    /\ UNCHANGED <<command, args, exitCode, runs>>

\* The verification failed because of a date: once more, without verifying.
Retry(t) ==
    /\ t \in DOMAIN pool /\ MayRetry(t) /\ Handshake(server[pool[t].host]) # "ok"
    /\ pool' = [pool EXCEPT ![t].insecure = TRUE]
    /\ UNCHANGED <<command, args, queue, rows, exitCode, runs>>

\* Any other failure of the verification; the server cannot be reached or is
\* too slow, at the first or the second attempt; the task panics.
Failed(t) ==
    /\ t \in DOMAIN pool
    /\ Joined(t, ErrorRow(pool[t].host))
    /\ UNCHANGED <<command, args, exitCode, runs>>

\* All tasks have ended: the rows are sorted and printed, the exit code told.
Judge == /\ Running("cert-check") /\ pool = Empty /\ rows # Empty
         /\ \E p \in Listings(DOMAIN rows, LAMBDA i, j : Before(rows[i], rows[j])) :
               rows' = [i \in DOMAIN rows |-> rows[p[i]]]
         /\ Exit(IF \E i \in DOMAIN rows : rows[i].error \/ rows[i].days < 0 THEN 1 ELSE 0)

CheckCerts == \/ StartCertCheck \/ Expand \/ Judge
              \/ Running("cert-check") /\ \E t \in DOMAIN pool :
                                              Fetched(t) \/ Retry(t) \/ Failed(t)

-----------------------------------------------------------------------------
(* One URL with --check-chain (which does not verify) and --tls-grade.     *)

Inspect == \E s \in ServerTypes, tls \in Connections :
    LET chain == ParseChain(s.chain) IN
    /\ Idle /\ runs < MaxRuns
    /\ command' = "inspect" /\ runs' = runs + 1
    /\ args' = [presented |-> s.chain, tls |-> tls]
    /\ rows' = <<[analysis |-> CheckAia(chain, Answering), score |-> Score(tls, chain),
                  letter |-> Letter(Score(tls, chain))]>>
    /\ exitCode' = 0
    /\ UNCHANGED <<queue, pool>>
=============================================================================
