------------------------------ MODULE Invocation ------------------------------
(***************************************************************************)
(* What the one-shot commands of httprove keep while they run: cli_main    *)
(* and run (src/src/lib.rs) choose one command from the arguments, the     *)
(* command works through a list of items, collects a row for each, judges  *)
(* the rows and ends with an exit code.  The next invocation starts from   *)
(* nothing but the files the last one left.                                *)
(***************************************************************************)
EXTENDS Integers, SequencesExt

CONSTANT MaxRuns   \* bound: invocations

VARIABLES
    command,  \* the command that runs or ran last
    args,     \* what it works on
    queue,    \* items that wait: targets, addresses or results
    pool,     \* the items at work, by the number of their task
    rows,     \* what is known of the items that are done
    exitCode, \* Pending while the command runs
    runs      \* invocations so far

local == <<command, args, queue, pool, rows, exitCode, runs>>

Empty == <<>>   \* no task, no row
Pending == -1

Idle == exitCode # Pending
Running(c) == command = c /\ ~Idle
Ended(c) == command = c /\ Idle

Init == /\ command = "none" /\ args = Empty /\ queue = Empty
        /\ pool = Empty /\ rows = Empty /\ exitCode = 0 /\ runs = 0

\* run (or run_subcommand) hands over to the command c for a.
Start(c, a) == /\ Idle /\ command = "none" /\ runs < MaxRuns
               /\ command' = c /\ args' = a /\ runs' = runs + 1
               /\ rows' = Empty /\ pool' = Empty /\ exitCode' = Pending

\* The command returns, and cli_main ends the process with the code.
Exit(code) == /\ exitCode' = code /\ queue' = Empty /\ pool' = Empty
              /\ UNCHANGED <<command, args, runs>>

\* The process is gone: what it kept in memory is lost.
Gone == /\ Idle /\ command # "none" /\ command' = "none"
        /\ args' = Empty /\ queue' = Empty /\ pool' = Empty /\ rows' = Empty
        /\ exitCode' = 0 /\ UNCHANGED runs

\* The ways to list the finite set S without a step down: what a stable sort or
\* a filter may make of a list with the places S.
Listings(S, NotAfter(_, _)) ==
    {p \in Bijection(1..Cardinality(S), S) :
        \A i, j \in 1..Cardinality(S) : i < j => NotAfter(p[i], p[j])}

Without(f, x) == [y \in DOMAIN f \ {x} |-> f[y]]
With(f, x, v) == [y \in DOMAIN f \union {x} |-> IF y = x THEN v ELSE f[y]]
=============================================================================
