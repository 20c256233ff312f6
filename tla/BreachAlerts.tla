---------------------------- MODULE BreachAlerts ----------------------------
(***************************************************************************)
(* --on-breach of src/src/watch.rs for one target: BreachTracker decides,  *)
(* result by result, whether to raise an alert, and watch::fire hands each *)
(* alert to a task of its own that POSTs it.  The tasks run concurrently   *)
(* with the collecting loop and with each other, and nobody waits for      *)
(* them.                                                                   *)
(***************************************************************************)
EXTENDS Integers, Sequences, FiniteSets

CONSTANTS BreachAfter,  \* --breach-after
          Cooldown,     \* --cooldown, in ticks
          OnRecover,    \* --on-recover
          MaxResults    \* BOUND: results of one run

ASSUME AlertAssumption == /\ BreachAfter \in Nat
                          /\ Cooldown \in Nat
                          /\ OnRecover \in BOOLEAN
                          /\ MaxResults \in Nat

VARIABLES
    consecutive,  \* BreachTracker.consecutive
    breaching,    \* BreachTracker.breaching
    age,          \* ticks since last_fire, up to Cooldown; Never if None
    posts,        \* alerts whose POST is under way: [id, event]
    posted,       \* ids the receiver got
    warned,       \* ids whose failure went to stderr
    fired,        \* ghost: the alerts raised, in order
    results,      \* ghost: the results evaluated, TRUE for a breach
    quiet         \* ghost: ticks since the last breach alert, up to Cooldown

alertVars == <<consecutive, breaching, age, posts, posted, warned,
               fired, results, quiet>>

Never == -1
Ids == 1..MaxResults
Threshold == IF BreachAfter > 1 THEN BreachAfter ELSE 1   \* breach_after.max(1)

AlertInit == /\ consecutive = 0
             /\ breaching = FALSE
             /\ age = Never
             /\ posts = {} /\ posted = {} /\ warned = {}
             /\ fired = <<>>
             /\ results = <<>>
             /\ quiet = Cooldown

-----------------------------------------------------------------------------
(* BreachTracker::evaluate, and the watch::fire its caller makes of it.    *)

\* Spawns the task that POSTs an alert.
Fire(event) ==
    LET alert == [id |-> Len(fired) + 1, event |-> event, at |-> Len(results) + 1]
    IN /\ fired' = Append(fired, alert)
       /\ posts' = posts \cup {alert}
       /\ quiet' = IF event = "breach" THEN 0 ELSE quiet

NoFire == UNCHANGED <<fired, posts, quiet>>

Cooled == age = Never \/ age >= Cooldown

\* Faulty: the breaching flag outlives the recovery.
Passed_StaysBreaching ==
    /\ consecutive' = 0
    /\ UNCHANGED <<breaching, age>>
    /\ IF breaching /\ OnRecover THEN Fire("recover") ELSE NoFire

\* The branch of a result that met every threshold.
Passed ==
    /\ consecutive' = 0
    /\ breaching' = FALSE
    /\ UNCHANGED age
    /\ IF breaching /\ OnRecover THEN Fire("recover") ELSE NoFire

\* Faulty: the cooldown is not looked at.
Breached_NoCooldown ==
    /\ consecutive' = consecutive + 1
    /\ breaching' = TRUE
    /\ IF consecutive + 1 >= Threshold
       THEN Fire("breach") /\ age' = 0
       ELSE NoFire /\ UNCHANGED age

\* Faulty: an alert the cooldown holds back starts the cooldown afresh.
Breached_Refreshes ==
    /\ consecutive' = consecutive + 1
    /\ breaching' = TRUE
    /\ IF consecutive + 1 >= Threshold /\ Cooled
       THEN Fire("breach") /\ age' = 0
       ELSE NoFire /\ age' = IF consecutive + 1 >= Threshold THEN 0 ELSE age

\* The branch of a result that breached: alert from the threshold on, unless
\* the last alert is too recent.
Breached ==
    /\ consecutive' = consecutive + 1
    /\ breaching' = TRUE
    /\ IF consecutive + 1 >= Threshold /\ Cooled
       THEN Fire("breach") /\ age' = 0
       ELSE NoFire /\ UNCHANGED age

\* consume() of one result with --on-breach.
Evaluate(breach) ==
    /\ Len(results) < MaxResults
    /\ IF breach THEN Breached ELSE Passed
    /\ results' = Append(results, breach)
    /\ UNCHANGED <<posted, warned>>

-----------------------------------------------------------------------------
(* The tasks of watch::fire, and time.                                     *)

\* Faulty: the alert is given up without a word.
Post_Silent ==
    \E a \in posts :
        /\ posts' = posts \ {a}
        /\ \/ posted' = posted \cup {a.id}
           \/ UNCHANGED posted
        /\ UNCHANGED <<consecutive, breaching, age, warned, fired,
                       results, quiet>>

\* post_json ends: the receiver took the alert, or the failure (unreachable,
\* timed out, no 2xx) is reported on stderr.  Tasks end in any order.
Post ==
    \E a \in posts :
        /\ posts' = posts \ {a}
        /\ \/ posted' = posted \cup {a.id} /\ UNCHANGED warned
           \/ warned' = warned \cup {a.id} /\ UNCHANGED posted
        /\ UNCHANGED <<consecutive, breaching, age, fired, results,
                       quiet>>

AlertTick ==
    /\ age \in 0..(Cooldown - 1) \/ quiet < Cooldown
    /\ age' = IF age \in 0..(Cooldown - 1) THEN age + 1 ELSE age
    /\ quiet' = IF quiet < Cooldown THEN quiet + 1 ELSE quiet
    /\ UNCHANGED <<consecutive, breaching, posts, posted, warned,
                   fired, results>>

AlertNext == (\E b \in BOOLEAN : Evaluate(b)) \/ Post \/ AlertTick

\* A run that goes on: -c 0 before Ctrl-C.  What is left of posts when the
\* process exits is lost with it.
AlertSpec == AlertInit /\ [][AlertNext]_alertVars /\ WF_alertVars(Post)

-----------------------------------------------------------------------------
(* Properties.                                                             *)

\* The last n of the first k results s of a run all breached.
Row(s, k, n) == n <= k /\ \A j \in (k - n + 1)..k : s[j]

\* The tracker knows what it needs of the past: the length of the outage going
\* on, whether there is one, and how long ago it last alerted.
AlertTypeOK ==
    /\ results \in Seq(BOOLEAN)
    /\ fired \in Seq([id : Nat, event : {"breach", "recover"}, at : Nat])
    /\ consecutive \in Nat /\ Row(results, Len(results), consecutive)
    /\ consecutive < Len(results) => ~results[Len(results) - consecutive]
    /\ breaching \in BOOLEAN /\ (breaching <=> consecutive > 0)
    /\ age = quiet \/ (age = Never /\ quiet = Cooldown)
    /\ quiet \in 0..Cooldown
    /\ \A i \in DOMAIN fired : fired[i].id = i
    /\ posts \subseteq {fired[i] : i \in DOMAIN fired}
    /\ posted \cup warned \subseteq DOMAIN fired

Breaches == {i \in DOMAIN fired : fired[i].event = "breach"}
Recovers == {i \in DOMAIN fired : fired[i].event = "recover"}

\* --breach-after: an alert means that many results in a row had breached, all
\* after the last recovery; an outage cut short by a pass starts over.
Debounced == \A i \in Breaches : Row(results, fired[i].at, BreachAfter)

\* --cooldown: no two breach alerts come less than a cooldown apart, whatever
\* recoveries and shorter outages lie between them.
CooldownKept ==
    [][\A i \in DOMAIN fired' \ DOMAIN fired :
          fired'[i].event = "breach" => quiet >= Cooldown]_alertVars

\* --on-recover: one recovery alert for each outage that has ended, none for
\* an outage still going on, and none without an outage before it.
OneRecoverPerOutage ==
    OnRecover => {fired[i].at : i \in Recovers} =
                 {k \in 2..Len(results) : results[k - 1] /\ ~results[k]}

\* No alert without its outage.
AlertsEarned == Debounced /\ OneRecoverPerOutage

\* An outage that outlasts both the debounce and the cooldown is alerted: no
\* state left from earlier outages keeps it silent.
LongOutageAlerts ==
    [][\A k \in DOMAIN results' \ DOMAIN results :
          Row(results', k, Threshold) /\ quiet >= Cooldown
              => \E i \in DOMAIN fired' :
                    fired'[i].event = "breach" /\ fired'[i].at = k]_alertVars

\* Every alert raised is posted or its failure warned of (watch.rs: "failure
\* is only a warning on stderr"), as long as the process lives.
AlertsAccounted == \A i \in Ids : i \in DOMAIN fired ~> i \in posted \cup warned
=============================================================================
