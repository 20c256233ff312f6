---------------------------------- MODULE Ping ----------------------------------
(***************************************************************************)
(* The results of run_cli_mode from where CliMode leaves them: the slots   *)
(* they are recorded in, and what is made of them once the run has ended:  *)
(* the fingerprint of the service against a reference file (--since-good,  *)
(* --annotate-deploy; src/src/lib.rs, src/src/diff.rs) that the next       *)
(* invocation reads again.                                                 *)
(*                                                                         *)
(* Between two invocations a service may become another one; during one it *)
(* stays what it is, though its addresses answer in turn.  The process may *)
(* be killed while it writes the file.                                     *)
(***************************************************************************)
EXTENDS Invocation, Stats, FiniteSetsExt

CONSTANTS Urls,        \* the targets, all of them different
          Lines,       \* the argument lists: targets, count, keepAlive, mode, onChange
          Services,    \* what a target may be: the answers of its lookup, which may
                       \* alternate, its key, the days of its certificate
          Timings      \* of a probe: tcp, total, unmet expectations

ASSUME LinesAssumption == \A line \in Lines : ToSet(line.targets) \subseteq Urls
ASSUME TimingsAssumption == \A t \in Timings : t.total \in Nat

\* The bound on the numbers of samples: Scale is a multiple of each.
ASSUME ScaleAssumption ==
    \A line \in Lines : line.count \in Nat /\ \A n \in 1..line.count : Scale % n = 0

None == [none |-> TRUE]

VARIABLES service,   \* what each target is
          slots,     \* TargetState of each target: stats, last success, verdict
          step,      \* of run_cli_mode: "collecting", "reference" or "writing"
          changed,   \* fingerprint_changed
          file,      \* the reference file
          before     \* ghost: what the file held when it was read

pingVars == <<service, slots, step, changed, file, before>>

Absent == [kind |-> "absent"]
Torn == [kind |-> "torn"]        \* cut off: no JSON
NoHop == [kind |-> "no hop"]     \* the capture of a probe that failed
Holds(fp) == [kind |-> "probe", fp |-> fp]

NewSlot == [stats |-> NewStats, last |-> None, verdict |-> None]

PingInit == /\ service = Empty
            /\ slots = [u \in Urls |-> NewSlot] /\ step = "collecting"
            /\ changed = FALSE /\ file = Absent /\ before = Absent

\* Only the file is still there.
Leaving == /\ Gone
           /\ service' = Empty
           /\ slots' = [u \in Urls |-> NewSlot] /\ step' = "collecting"
           /\ changed' = FALSE /\ before' = Absent /\ UNCHANGED file

-----------------------------------------------------------------------------
\* The user names a capture as the reference, that of a probe that failed; or
\* removes a file that cannot be read.
Provide == /\ Idle /\ command = "none" /\ file = Absent /\ file' = NoHop
           /\ UNCHANGED <<local, service, slots, step, changed, before>>
Discard == /\ Idle /\ command = "none" /\ file = Torn /\ file' = Absent
           /\ UNCHANGED <<local, service, slots, step, changed, before>>

\* Since the last invocation the targets may have become others.
StartPing == \E line \in Lines :
    /\ Start("ping", line)
    /\ service' \in [ToSet(line.targets) -> Services]
    /\ slots' = [u \in Urls |-> NewSlot] /\ step' = "collecting" /\ changed' = FALSE
    /\ UNCHANGED <<queue, file, before>>

\* What a probe of u may bring: any of its addresses, in any time, or nothing.
\* With --keepalive the connection of an earlier one may be used again.
Failure == [ok |-> FALSE]
Answered(u, ips, ip, t, reused) ==
    [ok |-> TRUE, unmet |-> t.unmet, tcp |-> t.tcp, total |-> t.total, reused |-> reused,
     ips |-> ips, connected |-> ip, key |-> service[u].key, days |-> service[u].days]
Results(u) == {Failure} \union
    UNION {{Answered(u, ips, ip, t, reused) : ip \in ips, t \in Timings,
              reused \in {FALSE, args.keepAlive /\ slots[u].last # None}} :
             ips \in service[u].answers}

\* consume: the statistics, the verdict, the last success.
Collect ==
    /\ Running("ping") /\ step = "collecting"
    /\ \E u \in ToSet(args.targets) : \E r \in Results(u) :
         /\ slots[u].stats.sent < args.count
         /\ rows' = Append(rows, [target |-> u, result |-> r])
         /\ slots' = [slots EXCEPT ![u] = [stats |-> RecordStats(@.stats, r),
                                           last |-> IF r.ok THEN r ELSE @.last,
                                           verdict |-> Assess(r)]]
    /\ UNCHANGED <<command, args, queue, pool, exitCode, runs, service, step, changed,
                   file, before>>

-----------------------------------------------------------------------------
(* diff.rs                                                                 *)

\* The identity of the final hop.  The addresses are a set, in whatever order
\* they came; the one connected to is part of the fingerprint.
Fingerprint(r) == [ips |-> r.ips, connected |-> r.connected, key |-> r.key]

DiffFingerprints(old, new) ==
    (IF old.ips # new.ips THEN {"resolved IPs"} ELSE {})
    \union (IF old.connected # new.connected THEN {"connected_ip"} ELSE {})
    \union (IF old.key # new.key THEN {"cert_spki"} ELSE {})

-----------------------------------------------------------------------------
(* After the loop.                                                         *)

Succeeded(u) == slots[u].last # None
Good == LET us == SelectSeq(args.targets, Succeeded)   \* current_good
        IN IF us = <<>> THEN None ELSE slots[us[1]].last

ExitStatus(ch) ==
    CASE \E u \in Urls : slots[u].stats.failed > 0 -> 1
      [] /\ \A u \in Urls : slots[u].stats.failed = 0
         /\ \E u \in Urls : slots[u].stats.expectFailed > 0 -> 3
      [] OTHER -> IF args.onChange /\ ch THEN 1 ELSE 0

\* The loop has ended: by itself or by Ctrl-C, with or without results.
EndCollecting ==
    /\ Running("ping") /\ step = "collecting"
    /\ IF args.mode = "none"
       THEN Exit(ExitStatus(FALSE)) /\ UNCHANGED step
       ELSE step' = "reference" /\ UNCHANGED <<command, args, queue, pool, exitCode, runs>>
    /\ UNCHANGED <<rows, service, slots, changed, file, before>>

Reading == Running("ping") /\ step = "reference"

\* fs::write truncates first; a file that cannot be opened stays as it is.
Truncate == \/ /\ step' = "writing" /\ file' = Torn
               /\ UNCHANGED <<command, args, queue, pool, exitCode, runs>>
            \/ Exit(1) /\ UNCHANGED <<step, file>>

Leave == Exit(ExitStatus(changed')) /\ UNCHANGED <<step, file>>

\* No file yet: what was seen now becomes the reference.
Seed == /\ Reading /\ file = Absent /\ before' = file /\ changed' = FALSE
        /\ IF Good # None THEN Truncate ELSE Leave
        /\ UNCHANGED <<rows, service, slots>>

\* load_probe finds no JSON: an error.
UnreadableReference == /\ Reading /\ file = Torn /\ before' = file /\ Exit(1)
                       /\ UNCHANGED <<rows, service, slots, step, changed, file>>

NotComparable == /\ Reading /\ file = NoHop /\ before' = file /\ changed' = FALSE
                 /\ Leave /\ UNCHANGED <<rows, service, slots>>

\* Faulty: only the first target is compared, whichever is written.
Differs_FirstOnly(fp) ==
    /\ Succeeded(args.targets[1])
    /\ DiffFingerprints(fp, Fingerprint(slots[args.targets[1]].last)) # {}
\* The fingerprint of a target differs from the one reference.
Differs(fp) == \E u \in Urls : /\ Succeeded(u)
                               /\ DiffFingerprints(fp, Fingerprint(slots[u].last)) # {}

\* Every target is compared with it; with --since-good the first target that
\* succeeded becomes the new reference.
CompareWith == /\ Reading /\ file.kind = "probe" /\ before' = file
               /\ changed' = Differs(file.fp)
               /\ IF args.mode = "since-good" /\ Good # None THEN Truncate ELSE Leave
               /\ UNCHANGED <<rows, service, slots>>

\* The contents are written, or the disk is full.
Write == /\ Running("ping") /\ step = "writing"
         /\ \/ file' = Holds(Fingerprint(Good)) /\ Exit(ExitStatus(changed))
            \/ Exit(1) /\ UNCHANGED file
         /\ UNCHANGED <<rows, service, slots, step, changed, before>>

\* Before the file is opened a kill only ends the run.
Killed == /\ Running("ping") /\ step = "writing" /\ Exit(137)
          /\ UNCHANGED <<rows, service, slots, step, changed, file, before>>

PingNext == \/ StartPing \/ Collect \/ EndCollecting \/ Seed \/ UnreadableReference
            \/ NotComparable \/ CompareWith \/ Write
Environment == Provide \/ Discard \/ Killed \/ Leaving
=============================================================================
