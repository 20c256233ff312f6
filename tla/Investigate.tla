------------------------------ MODULE Investigate ------------------------------
(***************************************************************************)
(* The commands that look into one host or into files: --via (dns.rs),     *)
(* diff (diff.rs), replay (record.rs) and trace (trace.rs).                *)
(*                                                                         *)
(* A file is what a reader makes of it: Unreadable, or its contents.  The  *)
(* headers of a response are a function from lower-case names to values.   *)
(***************************************************************************)
EXTENDS Fanout

CONSTANTS Resolvers,   \* the lists of --via tried
          Replies,     \* what a resolver answers: addresses, or NoReply
          NoReply,     \* no answer in time, or one that cannot be parsed
          Captures,    \* contents of a file of one result, see DiffLines
          Sessions,    \* contents of a session: a sequence of targets
          Unreadable,  \* a file that is missing or cannot be parsed
          Routes,      \* outputs of traceroute: sequences of lines
          NoAddr,      \* no address to show
          Continued    \* a line that is no hop

-----------------------------------------------------------------------------
(* --via: one resolver after the other, and a probe of what it answered.   *)

\* The records asked for, in this order.
Questions(family) == CASE family = "v4" -> <<"A">>
                       [] family = "v6" -> <<"AAAA">>
                       [] family = "auto" -> <<"A", "AAAA">>

StartVia == \E rs \in Resolvers, family \in {"auto", "v4", "v6"}, literal \in BOOLEAN :
    Start("via", [resolvers |-> rs, family |-> family, literal |-> literal]) /\ queue' = rs

\* An address needs no resolver, and is an error.
NothingToResolve ==
    Running("via") /\ args.literal /\ Exit(1) /\ UNCHANGED rows

\* Every record is asked for, also after an error; an error only counts when no
\* address has been found.  The first address of them all is probed.
AskResolver == \E replies \in [1..2 -> Replies], a \in Answers :
    LET asked == DOMAIN Questions(args.family)
        found == {ip \in UNION {IF replies[i] = NoReply THEN {} ELSE replies[i] : i \in asked} :
                    Matches(args.family, ip)}
    IN /\ Running("via") /\ ~args.literal /\ queue # Empty
       /\ rows' = Append(rows,
              [resolver |-> Head(queue), resolved |-> found,
               status |-> CASE found = {} /\ (\E i \in asked : replies[i] = NoReply) -> "error"
                            [] found = {} /\ (\A i \in asked : replies[i] # NoReply) -> "none"
                            [] found # {} /\ ~a.ok -> "probe failed"
                            [] OTHER -> a.status,
               ok |-> found # {} /\ a.ok])
       /\ queue' = Tail(queue)
       /\ UNCHANGED <<command, args, pool, exitCode, runs>>

\* Two resolvers that found something found different addresses.
Diverged(rs) == \E i, j \in DOMAIN rs :
    /\ rs[i].resolved # {} /\ rs[j].resolved # {} /\ rs[i].resolved # rs[j].resolved

\* The exit code does not depend on the note about diverging answers.
JudgeVia == /\ Running("via") /\ ~args.literal /\ queue = Empty
            /\ Exit(IF \A i \in DOMAIN rows : rows[i].ok THEN 0 ELSE 1)
            /\ rows' = Append(rows, [diverged |-> Diverged(rows)])

-----------------------------------------------------------------------------
(* diff: the fields of two captures that differ.  A capture is a record of *)
(* the status, the time of each phase in tenths of a millisecond, what     *)
(* identifies the connection and the certificate, the headers, and the     *)
(* redirects; NoValue stands for what it lacks.                            *)

NoValue == "(none)"

ChangedFields(a, b) == {<<f, "changed">> : f \in {g \in {"status", "tls", "cert", "redirects"} :
                                                    a[g] # b[g]}}

\* The keys on which two functions disagree, or that only one of them has.
Differing(f, g) == {k \in DOMAIN f \union DOMAIN g :
                      ~(k \in DOMAIN f /\ k \in DOMAIN g /\ f[k] = g[k])}

\* Less than a tenth of a millisecond is noise.
ChangedTimes(a, b) == {<<p, "changed">> : p \in Differing(a.times, b.times)}

DiffHeaders(old, new) ==
    {<<k, CASE k \notin DOMAIN new -> "removed"
            [] k \notin DOMAIN old -> "added"
            [] OTHER -> "changed">> : k \in Differing(old, new)}

DiffLines(a, b) == ChangedFields(a, b) \union ChangedTimes(a, b)
                     \union DiffHeaders(a.headers, b.headers)

\* A command that is done in one step.
AtOnce(c, a, rs, code) ==
    /\ Idle /\ runs < MaxRuns
    /\ command' = c /\ args' = a /\ rows' = rs /\ exitCode' = code /\ runs' = runs + 1
    /\ UNCHANGED <<queue, pool>>

\* Both files are read; a difference is no error.
Diff == \E a, b \in Captures \union {Unreadable} :
    IF Unreadable \in {a, b} THEN AtOnce("diff", <<a, b>>, {}, 1)
    ELSE AtOnce("diff", <<a, b>>, DiffLines(a, b), 0)

-----------------------------------------------------------------------------
(* replay: every result of the session, with its target when it is not     *)
(* alone.  Whatever the results were, the exit code is 0.                  *)

Replay == \E s \in Sessions \union {Unreadable} :
    IF s = Unreadable THEN AtOnce("replay", <<s>>, Empty, 1)
    ELSE AtOnce("replay", <<s>>,
                [i \in DOMAIN s |-> [result |-> s[i], named |-> Len(s) >= 2]], 0)

-----------------------------------------------------------------------------
(* trace: the system's traceroute, then one probe without redirects.  A    *)
(* line is a hop with the address of its first answer, NoAddr if it is a   *)
(* star, or Continued: the further answers of the hop before, a header, a  *)
(* warning.                                                                *)

Hops(lines) == SelectSeq(lines, LAMBDA l : l # Continued)

\* The hops, those marked at which the connection ends, and the note.
TraceRows(lines, endpoint) ==
    LET hops == Hops(lines)
    IN [hops |-> hops,
        marked |-> {i \in DOMAIN hops : endpoint # NoAddr /\ hops[i] = endpoint},
        note |-> CASE endpoint = NoAddr -> "not determined"
                   [] endpoint # NoAddr /\ ~Contains(hops, endpoint) -> "not in the route"
                   [] OTHER -> "none"]

\* endpoint is the address connected to, NoAddr when the probe failed.
Trace == \E lines \in Routes \union {Unreadable}, endpoint \in (UNION {ToSet(l) : l \in Lookups}) \union {NoAddr} :
    IF lines = Unreadable THEN AtOnce("trace", <<lines>>, Empty, 1)
    ELSE IF Hops(lines) = <<>> THEN AtOnce("trace", <<lines>>, Empty, 1)
    ELSE AtOnce("trace", <<lines, endpoint>>, <<TraceRows(lines, endpoint)>>, 0)

LookInto == \/ StartVia \/ NothingToResolve \/ AskResolver \/ JudgeVia
            \/ Diff \/ Replay \/ Trace
=============================================================================
