--------------------------- MODULE CommandsProofs ---------------------------
(***************************************************************************)
(* Proofs about the one-shot commands (Commands), for every command line,  *)
(* network and reference file, any number of tasks and any limit of time.  *)
(* Each command has an invariant of its own; the others cannot disturb it, *)
(* because only one command runs and starting one clears what it works on. *)
(***************************************************************************)
EXTENDS Commands, FiniteSetTheorems, FunctionTheorems, SequenceTheorems,
        WellFoundedInduction, TLAPS

-----------------------------------------------------------------------------
(* Which command a step belongs to.                                        *)

\* After a step of one command that command is the last that ran.
LEMMA Dispatch ==
    /\ CheckCerts => command' = "cert-check"
    /\ Inspect => command' = "inspect"
    /\ Compare => command' \in {"fanout", "families"}
    /\ LookInto => command' \in {"via", "diff", "replay", "trace"}
    /\ ReadResponse => command' = "response"
    /\ Blackbox => command' = "blackbox"
    /\ PingNext => command' = "ping"
    /\ Environment => command' \in {"none", "ping"}
<1> USE DEF Start, Running, Exit
<1>1. CheckCerts => command' = "cert-check"
    BY DEF CheckCerts, StartCertCheck, Expand, Judge, Fetched, Retry, Failed
<1>2. Inspect => command' = "inspect"
    BY DEF Inspect
<1>3. Compare => command' \in {"fanout", "families"}
    BY DEF Compare, StartFanout, NoAddress, ProbeNext, JudgeRows, StartFamilies,
           ProbeFamily, JudgeFamilies
<1>4. LookInto => command' \in {"via", "diff", "replay", "trace"}
    BY DEF LookInto, StartVia, NothingToResolve, AskResolver, JudgeVia, Diff, Replay,
           Trace, AtOnce
<1>5. ReadResponse => command' = "response"
    BY DEF ReadResponse, AtOnce
<1>6. Blackbox => command' = "blackbox"
    BY DEF Blackbox, StartBlackbox, AcceptScraper, TickBlackbox, StopBlackbox, Serving,
           ReadRequest, Probed, Cut, Ends
<1>7. PingNext => command' = "ping"
    BY DEF PingNext, StartPing, Collect, EndCollecting, Seed, UnreadableReference,
           NotComparable, CompareWith, Write, Reading, Truncate, Leave
<1>8. Environment => command' \in {"none", "ping"}
    BY DEF Environment, Provide, Discard, Killed, Leaving, Gone, local
<1> QED
    BY <1>1, <1>2, <1>3, <1>4, <1>5, <1>6, <1>7, <1>8

-----------------------------------------------------------------------------
(* How often a function has a value of H.                                  *)

Places(f, H) == {i \in DOMAIN f : f[i] \in H}
Count(f, H) == Cardinality(Places(f, H))
One(b) == IF b THEN 1 ELSE 0

LEMMA PlacesFinite ==
    ASSUME NEW f, IsFiniteSet(DOMAIN f), NEW H
    PROVE  IsFiniteSet(Places(f, H)) /\ Count(f, H) \in Nat
<1>1. Places(f, H) \in SUBSET DOMAIN f
    BY DEF Places
<1> QED
    BY <1>1, FS_Subset, FS_CardinalityType DEF Count

LEMMA SeqFinite ==
    ASSUME NEW S, NEW s \in Seq(S)
    PROVE  IsFiniteSet(DOMAIN s) /\ Cardinality(DOMAIN s) = Len(s)
<1>1. DOMAIN s = 1..Len(s) /\ Len(s) \in Nat
    OBVIOUS
<1> QED
    BY <1>1, FS_Interval

LEMMA CountWithout ==
    ASSUME NEW f, IsFiniteSet(DOMAIN f), NEW t \in DOMAIN f, NEW H
    PROVE  Count(Without(f, t), H) = Count(f, H) - One(f[t] \in H)
<1>1. Places(Without(f, t), H) = Places(f, H) \ {t}
    BY DEF Places, Without
<1>2. t \in Places(f, H) <=> f[t] \in H
    BY DEF Places
<1>3. IsFiniteSet(Places(f, H))
    BY PlacesFinite
<1>4. Cardinality(Places(f, H) \ {t}) = Cardinality(Places(f, H)) - One(t \in Places(f, H))
  <2>1. Cardinality(Places(f, H)) \in Nat
      BY <1>3, FS_CardinalityType
  <2>2. Cardinality(Places(f, H) \ {t})
          = IF t \in Places(f, H) THEN Cardinality(Places(f, H)) - 1
            ELSE Cardinality(Places(f, H))
      BY <1>3, FS_RemoveElement
  <2> QED
      BY <2>1, <2>2 DEF One
<1> QED
    BY <1>1, <1>2, <1>4 DEF Count, One

LEMMA CountReplaced ==
    ASSUME NEW f, IsFiniteSet(DOMAIN f), NEW t \in DOMAIN f, NEW H, NEW g,
           DOMAIN g = DOMAIN f, \A u \in DOMAIN f \ {t} : g[u] = f[u]
    PROVE  Count(g, H) = Count(f, H) - One(f[t] \in H) + One(g[t] \in H)
<1>1. IsFiniteSet(Places(f, H) \ {t})
      /\ Cardinality(Places(f, H) \ {t}) = Count(f, H) - One(f[t] \in H)
  <2>1. t \in Places(f, H) <=> f[t] \in H
      BY DEF Places
  <2>2. IsFiniteSet(Places(f, H)) /\ Cardinality(Places(f, H)) \in Nat
      BY PlacesFinite DEF Count
  <2>3. /\ IsFiniteSet(Places(f, H) \ {t})
        /\ Cardinality(Places(f, H) \ {t})
             = IF t \in Places(f, H) THEN Cardinality(Places(f, H)) - 1
               ELSE Cardinality(Places(f, H))
      BY <2>2, FS_RemoveElement
  <2> QED
      BY <2>1, <2>2, <2>3 DEF Count, One
<1>2. CASE g[t] \in H
  <2>1. Places(g, H) = (Places(f, H) \ {t}) \union {t}
      BY <1>2 DEF Places
  <2>2. Cardinality((Places(f, H) \ {t}) \union {t}) = Cardinality(Places(f, H) \ {t}) + 1
      BY <1>1, FS_AddElement
  <2>3. Count(g, H) = Cardinality(Places(f, H) \ {t}) + 1
      BY <2>1, <2>2 DEF Count
  <2> QED
      BY <1>1, <1>2, <2>3 DEF One
<1>3. CASE g[t] \notin H
  <2>1. Places(g, H) = Places(f, H) \ {t}
      BY <1>3 DEF Places
  <2>2. Count(g, H) = Cardinality(Places(f, H) \ {t}) /\ Count(f, H) \in Nat
      BY <2>1, PlacesFinite DEF Count
  <2> QED
      BY <1>1, <1>3, <2>2 DEF One
<1> QED
    BY <1>2, <1>3

LEMMA CountAppended ==
    ASSUME NEW S, NEW s \in Seq(S), NEW x, NEW H
    PROVE  Count(Append(s, x), H) = Count(s, H) + One(x \in H)
<1> DEFINE n == Len(s) + 1
<1>1. IsFiniteSet(DOMAIN s) /\ n \notin Places(s, H)
    BY FS_Interval DEF Places
<1>2. CASE x \in H
  <2>1. Places(Append(s, x), H) = Places(s, H) \union {n}
      BY <1>2 DEF Places
  <2> QED
      BY <1>1, <1>2, <2>1, PlacesFinite, FS_AddElement DEF Count, One
<1>3. CASE x \notin H
  <2>1. Places(Append(s, x), H) = Places(s, H)
      BY <1>3 DEF Places
  <2> QED
      BY <1>1, <1>3, <2>1, PlacesFinite DEF Count, One
<1> QED
    BY <1>2, <1>3

\* A listing of the places that matter has what the function has.
LEMMA CountListed ==
    ASSUME NEW f, NEW H, NEW S, NEW T, IsFiniteSet(S), NEW p \in Bijection(S, T),
           T \subseteq DOMAIN f, Places(f, H) \subseteq T,
           NEW g, DOMAIN g = S, \A i \in S : g[i] = f[p[i]]
    PROVE  Count(g, H) = Count(f, H)
<1> DEFINE q == [i \in Places(g, H) |-> p[i]]
<1>1. /\ p \in [S -> T]
      /\ \A a, b \in S : p[a] = p[b] => a = b
      /\ \A t \in T : \E a \in S : p[a] = t
    BY Fun_BijectionProperties
<1>2. Places(g, H) \subseteq S /\ \A i \in S : i \in Places(g, H) <=> p[i] \in Places(f, H)
    BY <1>1 DEF Places
<1>3. q \in [Places(g, H) -> Places(f, H)]
    BY <1>2
<1>4. \A a, b \in Places(g, H) : q[a] = q[b] => a = b
    BY <1>1, <1>2
<1>5. \A t \in Places(f, H) : \E a \in Places(g, H) : q[a] = t
    BY <1>1, <1>2
<1> HIDE DEF q
<1>6. q \in Bijection(Places(g, H), Places(f, H))
    BY <1>3, <1>4, <1>5, Fun_IsBij
<1>7. ExistsBijection(Places(g, H), Places(f, H))
    BY <1>6 DEF ExistsBijection
<1>8. IsFiniteSet(Places(g, H))
    BY <1>2, FS_Subset
<1> QED
    BY <1>7, <1>8, FS_Bijection DEF Count

\* What the first k places have and what the others have.
LEMMA CountParted ==
    ASSUME NEW n \in Nat, NEW f, DOMAIN f = 1..n, NEW k \in 0..n, NEW H,
           NEW h, DOMAIN h = 1..k, \A i \in 1..k : h[i] = f[i],
           NEW g, DOMAIN g = 1..(n - k), \A i \in 1..(n - k) : g[i] = f[k + i]
    PROVE  Count(f, H) = Count(h, H) + Count(g, H)
<1> DEFINE rest == {i \in (k + 1)..n : f[i] \in H}
           q == [i \in Places(g, H) |-> k + i]
<1>1. Places(f, H) = Places(h, H) \union rest /\ Places(h, H) \cap rest = {}
    BY DEF Places
<1>2. Places(g, H) \subseteq 1..(n - k) /\ \A i \in 1..(n - k) :
        i \in Places(g, H) <=> k + i \in rest
    BY DEF Places
<1>3. q \in [Places(g, H) -> rest]
    BY <1>2
<1>4. \A a, b \in Places(g, H) : q[a] = q[b] => a = b
    BY <1>2
<1>5. \A t \in rest : \E a \in Places(g, H) : q[a] = t
  <2> TAKE t \in rest
  <2>1. t - k \in 1..(n - k) /\ k + (t - k) = t
      OBVIOUS
  <2> QED
      BY <1>2, <2>1
<1>6. q \in Bijection(Places(g, H), rest)
  <2> HIDE DEF q, rest
  <2> QED
      BY <1>3, <1>4, <1>5, Fun_IsBij
<1>7. IsFiniteSet(Places(g, H)) /\ IsFiniteSet(Places(h, H))
  <2>1. IsFiniteSet(1..(n - k)) /\ IsFiniteSet(1..k)
      BY FS_Interval
  <2>2. Places(h, H) \subseteq 1..k
      BY DEF Places
  <2> QED
      BY <1>2, <2>1, <2>2, FS_Subset
<1>8. IsFiniteSet(rest) /\ Cardinality(rest) = Count(g, H)
  <2> HIDE DEF q, rest
  <2> QED
      BY <1>6, <1>7, FS_Bijection DEF ExistsBijection, Count
<1>9. Cardinality(Places(h, H) \union rest) = Count(h, H) + Cardinality(rest)
  <2> HIDE DEF rest
  <2>1. Cardinality(Places(h, H) \cap rest) = 0
      BY <1>1, FS_EmptySet
  <2>2. Cardinality(Places(h, H)) \in Nat /\ Cardinality(rest) \in Nat
      BY <1>7, <1>8, FS_CardinalityType
  <2>3. Cardinality(Places(h, H) \union rest)
          = Cardinality(Places(h, H)) + Cardinality(rest) - Cardinality(Places(h, H) \cap rest)
      BY <1>7, <1>8, FS_Union
  <2> QED
      BY <2>1, <2>2, <2>3 DEF Count
<1> QED
    BY <1>1, <1>8, <1>9 DEF Count

LEMMA CountTail ==
    ASSUME NEW S, NEW s \in Seq(S), s # <<>>, NEW H
    PROVE  Count(s, H) = One(Head(s) \in H) + Count(Tail(s), H)
<1> DEFINE h == [i \in 1..1 |-> s[i]]
<1>1. Count(s, H) = Count(h, H) + Count(Tail(s), H)
  <2> DEFINE n == Len(s)
             k == 1
             g == Tail(s)
  <2>1. /\ n \in Nat /\ DOMAIN s = 1..n /\ k \in 0..n
        /\ DOMAIN h = 1..k /\ \A i \in 1..k : h[i] = s[i]
        /\ DOMAIN g = 1..(n - k) /\ \A i \in 1..(n - k) : g[i] = s[k + i]
      OBVIOUS
  <2> HIDE DEF n, k, g, h
  <2>2. Count(s, H) = Count(h, H) + Count(g, H)
      BY <2>1, CountParted
  <2> QED
      BY <2>2 DEF g
<1>2. Count(h, H) = One(Head(s) \in H)
  <2>1. CASE Head(s) \in H
    <3>1. Places(h, H) = {1}
        BY <2>1 DEF Places
    <3> QED
        BY <2>1, <3>1, FS_Singleton DEF Count, One
  <2>2. CASE Head(s) \notin H
    <3>1. Places(h, H) = {}
        BY <2>2 DEF Places
    <3> QED
        BY <2>2, <3>1, FS_EmptySet DEF Count, One
  <2> QED
      BY <2>1, <2>2
<1> QED
    BY <1>1, <1>2
-----------------------------------------------------------------------------
(* cert-check.                                                             *)

Spelled == Hosts \union {Invalid}
CertRow == [host : Spelled, error : BOOLEAN, days : Int]
TasksOf(h) == [host : {h}, insecure : BOOLEAN]
RowsFor(h) == [host : {h}, error : BOOLEAN, days : Int]

CertArgs == /\ server \in [Hosts -> ServerTypes] /\ args.insecure \in BOOLEAN
            /\ Targets(args.specs) \in Seq(Spelled)

CertTypes == /\ queue \in Seq(Hosts) /\ rows \in Seq(CertRow)
             /\ DOMAIN pool \subseteq 1..MaxConcurrency
             /\ \A t \in DOMAIN pool : pool[t] \in [host : Hosts, insecure : BOOLEAN]

\* What has been named waits, is at work or has its row.
Balance == \A h \in Spelled :
    Named(h) = Count(queue, {h}) + Count(pool, TasksOf(h)) + Count(rows, RowsFor(h))

\* A task gave up verifying only because of a date.
Waived == \A t \in DOMAIN pool :
    pool[t].insecure /\ ~args.insecure => AnyExpired(server[pool[t].host].chain)

\* A row without an error says what the server presented.
Earned(row) ==
    ~row.error => /\ row.host \in Hosts
                  /\ LET s == server[row.host] IN
                     /\ s.chain[1].parses /\ row.days >= 0 => s.chain[1].ends >= 0
                     /\ args.insecure \/ s.trusted \/ AnyExpired(s.chain)

UnderWay == /\ exitCode = Pending /\ Readable(args.specs)
            /\ CertTypes /\ Balance /\ Waived
            /\ \A i \in DOMAIN rows : Earned(rows[i])
            /\ DOMAIN pool = {} => queue = Empty

CertInv ==
    command = "cert-check" =>
        /\ CertArgs
        /\ \/ exitCode = Pending /\ pool = Empty /\ rows = Empty
           \/ UnderWay
           \/ Idle /\ OneRowEach /\ CertExitTrue

LEMMA CertStarts == StartCertCheck => CertInv'
<1> SUFFICES ASSUME StartCertCheck PROVE CertInv'
    OBVIOUS
<1>1. PICK request \in Requests, servers \in [Hosts -> ServerTypes] :
        Start("cert-check", [specs |-> request.specs, insecure |-> request.insecure,
                             server |-> servers])
    BY DEF StartCertCheck
<1>2. /\ args' = [specs |-> request.specs, insecure |-> request.insecure, server |-> servers]
      /\ pool' = Empty /\ rows' = Empty /\ exitCode' = Pending
    BY <1>1 DEF Start
<1>3. CertArgs'
    BY <1>2, CertAssumption DEF CertArgs, server, Spelled
<1> QED
    BY <1>2, <1>3 DEF CertInv

\* A task that has ended makes room for the next target.
LEMMA JoinedKeeps ==
    ASSUME CertArgs, UnderWay, NEW t \in DOMAIN pool, NEW row \in RowsFor(pool[t].host),
           Earned(row), Joined(t, row), UNCHANGED <<command, args, exitCode, runs>>
    PROVE  UnderWay'
<1>1. /\ queue \in Seq(Hosts) /\ rows \in Seq(CertRow) /\ pool[t].host \in Hosts
      /\ IsFiniteSet(DOMAIN pool) /\ rows' = Append(rows, row)
      /\ pool[t] \in [host : Hosts, insecure : BOOLEAN]
  <2>1. IsFiniteSet(1..MaxConcurrency)
      BY FS_Interval, CertAssumption
  <2> QED
      BY <2>1, FS_Subset DEF UnderWay, CertTypes, Joined
<1>2. row \in CertRow /\ rows' \in Seq(CertRow)
  <2>1. row \in CertRow
      BY <1>1 DEF RowsFor, CertRow, Spelled
  <2> QED
      BY <1>1, <2>1
<1>3. (\A i \in DOMAIN rows : Earned(rows[i]))'
  <2>1. \A i \in DOMAIN rows' : rows'[i] = row \/ \E j \in DOMAIN rows : rows'[i] = rows[j]
      BY <1>1, <1>2
  <2>2. \A i \in DOMAIN rows' : Earned(rows'[i])
      BY <2>1 DEF UnderWay
  <2> QED
      BY <2>2 DEF Earned, server
<1>4. ASSUME NEW h \in Spelled
      PROVE  Count(rows', RowsFor(h)) = Count(rows, RowsFor(h)) + One(pool[t].host = h)
  <2>1. row \in RowsFor(h) <=> pool[t].host = h
      BY DEF RowsFor
  <2> QED
      BY <1>1, <2>1, CountAppended DEF One
<1>5. ASSUME NEW h \in Spelled PROVE pool[t] \in TasksOf(h) <=> pool[t].host = h
    BY <1>1 DEF TasksOf
<1>6. CASE queue = Empty
  <2>1. pool' = Without(pool, t) /\ queue' = queue
      BY <1>6 DEF Joined
  <2>2. CertTypes' /\ Waived'
      BY <1>2, <2>1 DEF UnderWay, CertTypes, Waived, Without, server
  <2>3. ASSUME NEW h \in Spelled
        PROVE  Count(pool', TasksOf(h)) = Count(pool, TasksOf(h)) - One(pool[t].host = h)
      BY <1>1, <1>5, <2>1, CountWithout DEF One
  <2>4. ASSUME NEW h \in Spelled PROVE Count(pool, TasksOf(h)) \in Nat
      BY <1>1, PlacesFinite
  <2>5. ASSUME NEW h \in Spelled
        PROVE  /\ Count(rows, RowsFor(h)) \in Nat
               /\ Count(queue, {h}) \in Nat
    <3>1. IsFiniteSet(DOMAIN rows) /\ IsFiniteSet(DOMAIN queue)
        BY <1>1, SeqFinite
    <3> QED
        BY <3>1, PlacesFinite
  <2>6. Balance'
    <3> SUFFICES ASSUME NEW h \in Spelled
                 PROVE  Named(h)' = Count(queue', {h}) + Count(pool', TasksOf(h))
                                    + Count(rows', RowsFor(h))
        BY DEF Balance, Named, Count, Places
    <3>1. Named(h)' = Named(h)
        BY DEF Named
    <3>2. Named(h) = Count(queue, {h}) + Count(pool, TasksOf(h)) + Count(rows, RowsFor(h))
        BY DEF UnderWay, Balance
    <3> QED
        BY <1>4, <2>1, <2>3, <2>4, <2>5, <3>1, <3>2 DEF One
  <2> QED
      BY <1>3, <1>6, <2>1, <2>2, <2>6 DEF UnderWay, Empty
<1>7. CASE queue # Empty
  <2> DEFINE next == Task(Head(queue), args.insecure)
  <2>1. /\ pool' = [pool EXCEPT ![t] = next] /\ queue' = Tail(queue)
        /\ Head(queue) \in Hosts
      BY <1>1, <1>7 DEF Joined, Empty
  <2>2. CertTypes' /\ Waived'
    <3>1. queue' \in Seq(Hosts) /\ next \in [host : Hosts, insecure : BOOLEAN]
        BY <1>1, <1>7, <2>1 DEF Task, CertArgs, Empty
    <3>2. next.insecure = args.insecure
        BY DEF Task
    <3> HIDE DEF next
    <3>3. CertTypes'
        BY <1>2, <2>1, <3>1 DEF UnderWay, CertTypes
    <3>4. Waived'
        BY <2>1, <3>2 DEF UnderWay, Waived, server
    <3> QED
        BY <3>3, <3>4
  <2>3. ASSUME NEW h \in Spelled
        PROVE  /\ Count(pool', TasksOf(h)) = Count(pool, TasksOf(h)) - One(pool[t].host = h)
                                             + One(Head(queue) = h)
               /\ Count(queue, {h}) = One(Head(queue) = h) + Count(queue', {h})
               /\ Count(queue', {h}) \in Nat
    <3>1. next \in TasksOf(h) <=> Head(queue) = h
        BY DEF TasksOf, Task, CertArgs
    <3>2. Count(pool', TasksOf(h)) = Count(pool, TasksOf(h)) - One(pool[t] \in TasksOf(h))
                                     + One(next \in TasksOf(h))
      <4> HIDE DEF next
      <4>1. /\ DOMAIN pool' = DOMAIN pool /\ pool'[t] = next
            /\ \A u \in DOMAIN pool \ {t} : pool'[u] = pool[u]
          BY <2>1
      <4>2. Count(pool', TasksOf(h)) = Count(pool, TasksOf(h)) - One(pool[t] \in TasksOf(h))
                                       + One(pool'[t] \in TasksOf(h))
          BY <1>1, <4>1, CountReplaced
      <4> QED
          BY <4>1, <4>2
    <3>3. Count(queue, {h}) = One(Head(queue) \in {h}) + Count(queue', {h})
        BY <1>1, <1>7, <2>1, CountTail DEF Empty
    <3>4. IsFiniteSet(DOMAIN queue')
      <4>1. queue' \in Seq(Hosts)
          BY <2>2 DEF CertTypes
      <4> QED
          BY <4>1, SeqFinite
    <3> HIDE DEF next
    <3> QED
        BY <1>5, <3>1, <3>2, <3>3, <3>4, PlacesFinite DEF One
  <2>4. ASSUME NEW h \in Spelled PROVE Count(pool, TasksOf(h)) \in Nat
      BY <1>1, PlacesFinite
  <2>5. ASSUME NEW h \in Spelled PROVE Count(rows, RowsFor(h)) \in Nat
    <3>1. IsFiniteSet(DOMAIN rows)
        BY <1>1, SeqFinite
    <3> QED
        BY <3>1, PlacesFinite
  <2>6. Balance'
    <3> SUFFICES ASSUME NEW h \in Spelled
                 PROVE  Named(h)' = Count(queue', {h}) + Count(pool', TasksOf(h))
                                    + Count(rows', RowsFor(h))
        BY DEF Balance, Named, Count, Places
    <3>1. Named(h)' = Named(h)
        BY DEF Named
    <3>2. Named(h) = Count(queue, {h}) + Count(pool, TasksOf(h)) + Count(rows, RowsFor(h))
        BY DEF UnderWay, Balance
    <3> HIDE DEF next
    <3> QED
        BY <1>4, <2>3, <2>4, <2>5, <3>1, <3>2 DEF One
  <2>7. DOMAIN pool' # {}
      BY <2>1
  <2> QED
      BY <1>3, <2>2, <2>6, <2>7 DEF UnderWay
<1> QED
    BY <1>6, <1>7

\* What the days of a leaf say of its last second.
LEMMA DaysTell ==
    ASSUME NEW chain \in Presented
    PROVE  /\ ParseChain(chain)[1].days \in Int
           /\ chain[1].parses /\ ParseChain(chain)[1].days >= 0 => chain[1].ends >= 0
<1>1. 1 \in DOMAIN chain /\ chain[1].parses \in BOOLEAN /\ chain[1].ends \in Int
    BY CertAssumption
<1>2. ParseChain(chain)[1] = CertInfo(chain[1])
    BY <1>1 DEF ParseChain
<1>3. CASE chain[1].parses
  <2>1. CertInfo(chain[1]).days = (chain[1].ends - 0) \div Day
      BY <1>3 DEF CertInfo, DaysRemaining
  <2> QED
      BY <1>1, <1>2, <2>1 DEF Day
<1>4. CASE ~chain[1].parses
  <2>1. CertInfo(chain[1]) = Unparseable
      BY <1>4 DEF CertInfo
  <2>2. Unparseable.days = 0
      BY DEF Unparseable
  <2> QED
      BY <1>1, <1>2, <1>4, <2>1, <2>2
<1> QED
    BY <1>1, <1>3, <1>4

LEMMA TaskStep ==
    ASSUME command = "cert-check", CertArgs, UnderWay, NEW t \in DOMAIN pool,
           Fetched(t) \/ Retry(t) \/ Failed(t)
    PROVE  CertInv'
<1> DEFINE h == pool[t].host
<1>1. /\ h \in Hosts /\ server[h] \in ServerTypes
      /\ pool[t] \in [host : Hosts, insecure : BOOLEAN]
      /\ pool[t].insecure /\ ~args.insecure => AnyExpired(server[h].chain)
    BY DEF UnderWay, CertTypes, CertArgs, Waived
<1>2. command' = command /\ args' = args
    BY DEF Fetched, Retry, Failed
<1>3. CertArgs'
    BY <1>2 DEF CertArgs, server
<1>4. CASE Fetched(t)
  <2> DEFINE row == Row(h, ParseChain(server[h].chain))
  <2>1. server[h].chain \in Presented
      BY <1>1 DEF ServerTypes
  <2>2. row \in RowsFor(h)
      BY <2>1, DaysTell DEF Row, RowsFor
  <2>3. pool[t].insecure \/ (server[h].trusted /\ ~AnyExpired(server[h].chain))
      BY <1>4 DEF Fetched, Handshake
  <2>4. Earned(row)
    <3>1. row.host = h /\ ~row.error /\ row.days = ParseChain(server[h].chain)[1].days
        BY DEF Row
    <3> HIDE DEF row
    <3> QED
        BY <1>1, <2>1, <2>3, <3>1, DaysTell DEF Earned
  <2>5. UnderWay'
      BY <1>4, <2>2, <2>4, JoinedKeeps DEF Fetched
  <2> QED
      BY <1>3, <2>5 DEF CertInv
<1>5. CASE Failed(t)
  <2>1. ErrorRow(h) \in RowsFor(h) /\ Earned(ErrorRow(h))
      BY DEF ErrorRow, RowsFor, Earned
  <2>2. UnderWay'
      BY <1>5, <2>1, JoinedKeeps DEF Failed
  <2> QED
      BY <1>3, <2>2 DEF CertInv
<1>6. CASE Retry(t)
  <2>1. /\ pool' = [pool EXCEPT ![t].insecure = TRUE]
        /\ UNCHANGED <<queue, rows, exitCode>>
        /\ AnyExpired(server[h].chain)
      BY <1>6 DEF Retry, MayRetry, Handshake
  <2>2. /\ DOMAIN pool' = DOMAIN pool
        /\ pool'[t] \in [host : Hosts, insecure : BOOLEAN] /\ pool'[t].host = h
        /\ \A u \in DOMAIN pool : u # t => pool'[u] = pool[u]
      BY <1>1, <2>1
  <2>3. CertTypes' /\ Waived'
      BY <1>2, <2>1, <2>2 DEF UnderWay, CertTypes, Waived, server
  <2>4. ASSUME NEW g \in Spelled PROVE Count(pool', TasksOf(g)) = Count(pool, TasksOf(g))
    <3>1. \A u \in DOMAIN pool : pool'[u] \in TasksOf(g) <=> pool[u] \in TasksOf(g)
        BY <1>1, <2>2 DEF TasksOf
    <3>2. Places(pool', TasksOf(g)) = Places(pool, TasksOf(g))
        BY <2>2, <3>1 DEF Places
    <3> QED
        BY <3>2 DEF Count
  <2>5. Balance'
    <3> SUFFICES ASSUME NEW g \in Spelled
                 PROVE  Named(g)' = Count(queue', {g}) + Count(pool', TasksOf(g))
                                    + Count(rows', RowsFor(g))
        BY DEF Balance, Named, Count, Places
    <3>1. Named(g)' = Named(g)
        BY <1>2 DEF Named
    <3> QED
        BY <2>1, <2>4, <3>1 DEF UnderWay, Balance
  <2>6. (\A i \in DOMAIN rows : Earned(rows[i]))'
      BY <1>2, <2>1 DEF UnderWay, Earned, server
  <2> QED
      BY <1>2, <1>3, <2>1, <2>2, <2>3, <2>5, <2>6 DEF CertInv, UnderWay
<1> QED
    BY <1>4, <1>5, <1>6

LEMMA CountNone ==
    ASSUME NEW f, NEW H, \A i \in DOMAIN f : f[i] \notin H
    PROVE  Count(f, H) = 0
<1>1. Places(f, H) = {}
    BY DEF Places
<1> QED
    BY <1>1, FS_EmptySet DEF Count

\* All is done: as many rows as targets, and in order.
LEMMA JudgeKeeps == ASSUME CertArgs, UnderWay, Judge PROVE CertInv'
<1> DEFINE n == Len(rows)
<1> DEFINE bad == \E i \in DOMAIN rows : rows[i].error \/ rows[i].days < 0
<1>0. /\ pool = Empty /\ Exit(IF bad THEN 1 ELSE 0)
      /\ \E p \in Bijection(1..Cardinality(DOMAIN rows), DOMAIN rows) :
            /\ \A i, j \in 1..Cardinality(DOMAIN rows) : i < j => Before(rows[p[i]], rows[p[j]])
            /\ rows' = [i \in DOMAIN rows |-> rows[p[i]]]
    BY DEF Judge, Listings
<1>1. /\ rows \in Seq(CertRow) /\ queue = Empty /\ pool = Empty
      /\ UNCHANGED <<command, args>> /\ exitCode' = (IF bad THEN 1 ELSE 0)
  <2>1. pool = Empty => DOMAIN pool = {}
      BY DEF Empty
  <2> HIDE DEF bad
  <2> QED
      BY <1>0, <2>1 DEF UnderWay, CertTypes, Exit
<1>2. n \in Nat /\ DOMAIN rows = 1..n /\ Cardinality(DOMAIN rows) = n /\ IsFiniteSet(1..n)
    BY <1>1, SeqFinite
<1>3. PICK p \in Bijection(1..n, 1..n) :
        /\ \A i, j \in 1..n : i < j => Before(rows[p[i]], rows[p[j]])
        /\ rows' = [i \in DOMAIN rows |-> rows[p[i]]]
    BY <1>0, <1>2
<1>5. p \in [1..n -> 1..n]
    BY Fun_BijectionProperties
<1>6. \A i \in 1..n : rows[i] \in CertRow
    BY <1>1, <1>2
<1>7. DOMAIN rows' = 1..n /\ \A i \in 1..n : rows'[i] = rows[p[i]] /\ rows'[i] \in CertRow
    BY <1>2, <1>3, <1>5, <1>6
<1> HIDE DEF n
<1>8. ASSUME NEW h \in Spelled PROVE Named(h) = Count(rows, RowsFor(h))
  <2>1. Count(queue, {h}) = 0 /\ Count(pool, TasksOf(h)) = 0
      BY <1>1, CountNone DEF Empty
  <2>2. Count(rows, RowsFor(h)) \in Nat
      BY <1>2, PlacesFinite
  <2> QED
      BY <2>1, <2>2 DEF UnderWay, Balance
<1>9. ASSUME NEW h \in Spelled PROVE Named(h)' = RowsOf(h)'
  <2>1. {i \in DOMAIN rows' : rows'[i].host = h} = Places(rows', RowsFor(h))
      BY <1>7 DEF Places, RowsFor, CertRow
  <2>2. Places(rows, RowsFor(h)) \subseteq DOMAIN rows
      BY DEF Places
  <2>4. Count(rows', RowsFor(h)) = Count(rows, RowsFor(h))
      BY <1>2, <1>7, <2>2, CountListed
  <2>5. Named(h)' = Named(h)
      BY <1>1 DEF Named
  <2>6. RowsOf(h)' = Count(rows', RowsFor(h))
      BY <2>1 DEF RowsOf, Count
  <2> QED
      BY <1>8, <2>4, <2>5, <2>6
<1>10. ASSUME NEW i \in DOMAIN rows', NEW j \in DOMAIN rows', i < j
       PROVE  /\ rows'[j].error => rows'[i].error
              /\ ~rows'[i].error => rows'[i].days <= rows'[j].days
  <2>1. i \in 1..n /\ j \in 1..n
      BY <1>7
  <2>2. Before(rows'[i], rows'[j])
      BY <1>3, <1>7, <1>10, <2>1
  <2>3. rows'[i] \in CertRow /\ rows'[j] \in CertRow
      BY <1>7, <2>1
  <2> QED
      BY <2>2, <2>3 DEF Before, CertRow
<1>11. OneRowEach'
    BY <1>9, <1>10 DEF OneRowEach, Spelled
<1>12. CertExitTrue'
  <2> SUFFICES ASSUME exitCode' = 0, ~args.insecure, NEW k \in DOMAIN Targets(args.specs)
               PROVE  LET h == Targets(args.specs)[k] IN
                      /\ h # Invalid
                      /\ server[h].chain[1].parses => server[h].chain[1].ends >= 0
                      /\ server[h].trusted \/ AnyExpired(server[h].chain)
      BY <1>1 DEF CertExitTrue, server
  <2> DEFINE h == Targets(args.specs)[k]
  <2>1. h \in Spelled /\ IsFiniteSet(DOMAIN Targets(args.specs))
      BY SeqFinite DEF CertArgs
  <2>2. Named(h) # 0
    <3>1. Named(h) = Count(Targets(args.specs), {h})
        BY DEF Named, Count, Places
    <3>2. k \in Places(Targets(args.specs), {h})
        BY DEF Places
    <3> HIDE DEF h
    <3>3. IsFiniteSet(Places(Targets(args.specs), {h}))
        BY <2>1, PlacesFinite
    <3> QED
        BY <3>1, <3>2, <3>3, FS_EmptySet DEF Count
  <2> HIDE DEF h
  <2>3. Count(rows, RowsFor(h)) # 0
      BY <1>8, <2>1, <2>2
  <2>4. PICK i \in DOMAIN rows : rows[i] \in RowsFor(h)
      BY <2>3, CountNone
  <2>5. rows[i].host = h /\ ~rows[i].error /\ rows[i].days >= 0
    <3>1. rows[i] \in CertRow
        BY <1>6, <1>2
    <3>2. rows[i].host = h /\ ~rows[i].error /\ ~(rows[i].days < 0)
        BY <1>1, <2>4 DEF RowsFor
    <3> QED
        BY <3>1, <3>2 DEF CertRow
  <2>6. Earned(rows[i])
      BY DEF UnderWay
  <2>7. h # Invalid
      BY <2>5, <2>6, CertAssumption DEF Earned
  <2> QED
      BY <2>5, <2>6, <2>7 DEF Earned, h
<1>13. CertArgs'
    BY <1>1 DEF CertArgs, server
<1> QED
    BY <1>1, <1>11, <1>12, <1>13 DEF CertInv, Idle, Pending

\* What the targets are dealt out to.
LEMMA ExpandKeeps ==
    ASSUME command = "cert-check", CertArgs, rows = Empty, Expand PROVE CertInv'
<1> DEFINE all == Targets(args.specs)
           good == {i \in DOMAIN all : all[i] # Invalid}
           n == Cardinality(good)
           first == IF n < MaxConcurrency THEN n ELSE MaxConcurrency
<1>1. UNCHANGED <<command, args>> /\ CertArgs'
    BY DEF Expand, Exit, CertArgs, server
<1>2. CASE (~Readable(args.specs) \/ all = <<>>) /\ Exit(1) /\ UNCHANGED rows
  <2>1. exitCode' = 1 /\ rows' = Empty
      BY <1>2 DEF Exit
  <2>2. CertExitTrue'
      BY <2>1 DEF CertExitTrue
  <2>3. ASSUME Readable(args'.specs) PROVE \A h \in Spelled : Named(h)' = RowsOf(h)'
    <3>1. all = <<>> /\ args' = args
        BY <1>1, <1>2, <2>3
    <3>2. ASSUME NEW h \in Spelled PROVE Named(h)' = RowsOf(h)'
      <4>1. {i \in DOMAIN Targets(args'.specs) : Targets(args'.specs)[i] = h} = {}
          BY <3>1
      <4>2. {i \in DOMAIN rows' : rows'[i].host = h} = {}
          BY <2>1 DEF Empty
      <4> QED
          BY <4>1, <4>2 DEF Named, RowsOf
    <3> QED
        BY <3>2
  <2>4. OneRowEach'
      BY <2>1, <2>3 DEF OneRowEach, Spelled, Empty
  <2> QED
      BY <1>1, <2>1, <2>2, <2>4 DEF CertInv, Idle, Pending
<1>3. ASSUME Readable(args.specs), NEW p \in Bijection(1..n, good),
             rows' = [i \in 1..(Len(all) - n) |-> ErrorRow(Invalid)],
             pool' = [t \in 1..first |-> Task(all[p[t]], args.insecure)],
             queue' = [i \in 1..(n - first) |-> all[p[first + i]]],
             exitCode' = exitCode
      PROVE  CertInv'
  <2>1. /\ all \in Seq(Spelled) /\ IsFiniteSet(DOMAIN all) /\ Cardinality(DOMAIN all) = Len(all)
        /\ DOMAIN all = 1..Len(all) /\ Len(all) \in Nat
      BY SeqFinite DEF CertArgs
  <2>2. IsFiniteSet(good) /\ n \in Nat /\ n <= Len(all)
      BY <2>1, FS_Subset, FS_CardinalityType
  <2>3. first \in 0..n /\ first \in 0..MaxConcurrency /\ (first = 0 => n = 0)
      BY <2>2, CertAssumption
  <2>5. p \in [1..n -> good] /\ \A k \in 1..n : all[p[k]] \in Hosts
    <3>1. p \in [1..n -> good]
        BY Fun_BijectionProperties
    <3>2. \A i \in good : all[i] \in Hosts
        BY <2>1 DEF Spelled
    <3> QED
        BY <3>1, <3>2
  <2> HIDE DEF n, first
  <2>6. queue' \in Seq(Hosts)
      BY <1>3, <2>2, <2>3, <2>5
  <2>7. \A i \in DOMAIN rows' : rows'[i] = ErrorRow(Invalid)
      BY <1>3
  <2>8. ErrorRow(Invalid) \in RowsFor(Invalid) /\ ErrorRow(Invalid) \in CertRow
        /\ Earned(ErrorRow(Invalid))
      BY DEF ErrorRow, RowsFor, CertRow, Earned, Spelled
  <2>9. rows' \in Seq(CertRow) /\ Len(rows') = Len(all) - n
      BY <1>3, <2>1, <2>2, <2>8
  <2>10. DOMAIN pool' = 1..first
         /\ \A t \in 1..first : pool'[t] = Task(all[p[t]], args.insecure) /\ all[p[t]] \in Hosts
      BY <1>3, <2>2, <2>3, <2>5
  <2>11. CertTypes'
    <3>1. \A t \in 1..first : pool'[t] \in [host : Hosts, insecure : BOOLEAN]
        BY <2>10 DEF Task, CertArgs
    <3> QED
        BY <2>3, <2>6, <2>9, <2>10, <3>1, CertAssumption DEF CertTypes
  <2>12. Waived'
      BY <1>1, <2>10 DEF Waived, Task, server
  <2>13. (\A i \in DOMAIN rows : Earned(rows[i]))'
      BY <2>7 DEF Earned, ErrorRow, server
  <2>14. DOMAIN pool' = {} => queue' = Empty
    <3>1. DOMAIN pool' = {} => first = 0
        BY <2>3, <2>10
    <3>2. first = 0 => n - first = 0
        BY <2>3
    <3> QED
        BY <1>3, <3>1, <3>2 DEF Empty
  <2>15. ASSUME NEW h \in Hosts
         PROVE  Count(all, {h}) = Count(queue', {h}) + Count(pool', TasksOf(h))
                                  + Count(rows', RowsFor(h))
    <3> DEFINE head == [t \in 1..first |-> all[p[t]]]
               dealt == [k \in 1..n |-> all[p[k]]]
    <3>1. h # Invalid /\ Places(all, {h}) \subseteq good
        BY CertAssumption DEF Places
    <3>2. Count(dealt, {h}) = Count(all, {h})
      <4> DEFINE S == 1..n
      <4>1. /\ IsFiniteSet(S) /\ good \subseteq DOMAIN all /\ p \in Bijection(S, good)
            /\ DOMAIN dealt = S /\ \A k \in S : dealt[k] = all[p[k]]
          BY <2>2, FS_Interval
      <4> DEFINE H == {h}
      <4>2. Places(all, H) \subseteq good
          BY <3>1
      <4> HIDE DEF all, good, dealt, H, S
      <4>3. Count(dealt, H) = Count(all, H)
          BY <4>1, <4>2, CountListed
      <4> QED
          BY <4>3 DEF H
    <3>3. /\ DOMAIN dealt = 1..n /\ DOMAIN head = 1..first /\ DOMAIN queue' = 1..(n - first)
          /\ \A i \in 1..first : head[i] = dealt[i]
          /\ \A i \in 1..(n - first) : queue'[i] = dealt[first + i]
        BY <1>3, <2>2, <2>3
    <3>4. Count(dealt, {h}) = Count(head, {h}) + Count(queue', {h})
      <4> DEFINE H == {h}
                 rest == queue'
      <4>1. /\ n \in Nat /\ first \in 0..n
            /\ DOMAIN dealt = 1..n /\ DOMAIN head = 1..first /\ DOMAIN rest = 1..(n - first)
            /\ \A i \in 1..first : head[i] = dealt[i]
            /\ \A i \in 1..(n - first) : rest[i] = dealt[first + i]
          BY <2>2, <2>3, <3>3
      <4> HIDE DEF dealt, head, H, rest, all, good, n, first
      <4>2. Count(dealt, H) = Count(head, H) + Count(rest, H)
          BY <4>1, CountParted, SMTT(20)
      <4> QED
          BY <4>2 DEF H, rest
    <3>5. Count(head, {h}) = Count(pool', TasksOf(h))
      <4>1. \A t \in 1..first : pool'[t] \in TasksOf(h) <=> head[t] \in {h}
          BY <2>10 DEF Task, TasksOf, CertArgs
      <4>2. Places(head, {h}) = Places(pool', TasksOf(h))
          BY <2>10, <3>3, <4>1 DEF Places
      <4> QED
          BY <4>2 DEF Count
    <3>6. Count(rows', RowsFor(h)) = 0
      <4>1. \A i \in DOMAIN rows' : rows'[i] \notin RowsFor(h)
          BY <2>7, <3>1 DEF RowsFor, ErrorRow
      <4> QED
          BY <4>1, CountNone
    <3>7. Count(queue', {h}) \in Nat /\ Count(pool', TasksOf(h)) \in Nat
      <4>1. IsFiniteSet(DOMAIN queue') /\ IsFiniteSet(DOMAIN pool')
          BY <2>2, <2>3, <2>10, <3>3, FS_Interval
      <4> QED
          BY <4>1, PlacesFinite
    <3> HIDE DEF dealt, head, all
    <3> QED
        BY <3>2, <3>4, <3>5, <3>6, <3>7
  <2>16. Count(all, {Invalid}) = Count(queue', {Invalid}) + Count(pool', TasksOf(Invalid))
                                 + Count(rows', RowsFor(Invalid))
    <3>1. Count(queue', {Invalid}) = 0
      <4>1. \A i \in DOMAIN queue' : queue'[i] \in Hosts
          BY <2>6
      <4>2. Invalid \notin Hosts
          BY CertAssumption
      <4> QED
          BY <4>1, <4>2, CountNone
    <3>2. Count(pool', TasksOf(Invalid)) = 0
      <4>1. \A t \in DOMAIN pool' : pool'[t] \notin TasksOf(Invalid)
        <5>1. Invalid \notin Hosts
            BY CertAssumption
        <5>2. \A t \in 1..first : pool'[t].host \in Hosts
            BY <2>10 DEF Task
        <5> QED
            BY <2>10, <5>1, <5>2 DEF TasksOf
      <4> QED
          BY <4>1, CountNone
    <3>3. Count(rows', RowsFor(Invalid)) = Len(all) - n
      <4>1. Places(rows', RowsFor(Invalid)) = DOMAIN rows'
          BY <2>7, <2>8 DEF Places
      <4> QED
          BY <2>9, <4>1, SeqFinite DEF Count
    <3>4. Count(all, {Invalid}) = Len(all) - n
      <4>1. Places(all, {Invalid}) = DOMAIN all \ good /\ DOMAIN all \cap good = good
          BY DEF Places
      <4>2. Cardinality(DOMAIN all \ good)
              = Cardinality(DOMAIN all) - Cardinality(DOMAIN all \cap good)
        <5> HIDE DEF all, good
        <5> QED
            BY <2>1, FS_Difference
      <4> QED
          BY <2>1, <4>1, <4>2 DEF Count, n
    <3> QED
        BY <2>1, <2>2, <3>1, <3>2, <3>3, <3>4
  <2>17. Balance'
    <3> SUFFICES ASSUME NEW h \in Spelled
                 PROVE  Named(h)' = Count(queue', {h}) + Count(pool', TasksOf(h))
                                    + Count(rows', RowsFor(h))
        BY DEF Balance, Named, Count, Places
    <3>1. Named(h)' = Count(all, {h})
        BY <1>1 DEF Named, Count, Places
    <3> QED
        BY <2>15, <2>16, <3>1 DEF Spelled
  <2>18. exitCode' = Pending /\ Readable(args'.specs)
      BY <1>1, <1>3 DEF Expand, Running, Idle
  <2> QED
      BY <1>1, <2>11, <2>12, <2>13, <2>14, <2>17, <2>18 DEF CertInv, UnderWay
<1> QED
    BY <1>2, <1>3 DEF Expand, Listings

LEMMA CertStep == CertInv /\ CheckCerts => CertInv'
<1> SUFFICES ASSUME CertInv, CheckCerts PROVE CertInv'
    OBVIOUS
<1>1. CASE Expand
    BY <1>1, ExpandKeeps DEF Expand, Running, CertInv
<1>2. CASE Judge
  <2>1. CertArgs /\ UnderWay
      BY <1>2 DEF Judge, Running, CertInv, Idle
  <2> QED
      BY <1>2, <2>1, JudgeKeeps
<1>3. ASSUME Running("cert-check"), NEW t \in DOMAIN pool, Fetched(t) \/ Retry(t) \/ Failed(t)
      PROVE  CertInv'
  <2>1. command = "cert-check" /\ CertArgs /\ UnderWay
      BY <1>3 DEF Running, CertInv, Idle, Empty
  <2> QED
      BY <1>3, <2>1, TaskStep
<1> QED
    BY <1>1, <1>2, <1>3, CertStarts DEF CheckCerts

LEMMA CertKept == CertInv /\ [CommandsNext]_vars => CertInv'
<1>1. CertInv /\ UNCHANGED vars => CertInv'
  <2> SUFFICES ASSUME CertInv, UNCHANGED vars PROVE CertInv'
      OBVIOUS
  <2>1. UNCHANGED local
      BY DEF vars
  <2>2. CertArgs' = CertArgs /\ UnderWay' = UnderWay
      BY <2>1 DEF local, CertArgs, UnderWay, CertTypes, Balance, Waived, Earned, Named, server
  <2>3. OneRowEach' = OneRowEach /\ CertExitTrue' = CertExitTrue
      BY <2>1 DEF local, OneRowEach, CertExitTrue, Ended, Idle, Named, RowsOf, server
  <2> QED
      BY <2>1, <2>2, <2>3 DEF CertInv, local, Idle
<1> QED
    BY <1>1, CertStep, Dispatch DEF CommandsNext, FileLess, CertInv

LEMMA CertAlways == CommandsSpec => []CertInv
<1>1. CommandsInit => CertInv
    BY DEF CommandsInit, Init, CertInv
<1> QED
    BY <1>1, CertKept, PTL DEF CommandsSpec

\* Every target gets its row and the rows are in order, for any number of
\* targets, hosts and tasks, and whatever order the tasks end in.
THEOREM RowsHold == CommandsSpec => []OneRowEach
<1>1. CertInv => OneRowEach
    BY DEF CertInv, OneRowEach, Ended, Idle, UnderWay
<1> QED
    BY <1>1, CertAlways, PTL

\* The exit code 0 is as true as CertExitTrue says, for any servers and chains.
THEOREM ExitHolds == CommandsSpec => []CertExitTrue
<1>1. CertInv => CertExitTrue
    BY DEF CertInv, CertExitTrue, Ended, Idle, UnderWay
<1> QED
    BY <1>1, CertAlways, PTL

-----------------------------------------------------------------------------
(* The reference file of the ping mode.                                    *)

\* A target's slot holds what it answered last.
LastSeen == \A u \in Urls : \A i \in Succeeding(u) :
    (\A j \in Succeeding(u) : j <= i) => Succeeded(u) /\ slots[u].last = rows[i].result

\* A change from the reference is not forgotten while the file is written.
ChangeKept == /\ before # Torn
              /\ before.kind = "probe" /\ Differs(before.fp) => changed

PingInv ==
    command = "ping" =>
        /\ DOMAIN slots = Urls /\ \E S : rows \in Seq(S)
        /\ LastSeen /\ NoSilentDrift
        /\ exitCode = Pending /\ step = "writing" => ChangeKept

\* What the exit code 0 says of a reference that was compared.
LEMMA ZeroTells ==
    ASSUME LastSeen, NEW ch, ExitStatus(ch) = 0, args.onChange, NEW fp, Differs(fp) => ch,
           NEW u \in Urls, NEW i \in Succeeding(u), \A j \in Succeeding(u) : j <= i
    PROVE  DiffFingerprints(fp, Fingerprint(rows[i].result)) = {}
<1>1. ~ch
    BY DEF ExitStatus
<1>2. Succeeded(u) => DiffFingerprints(fp, Fingerprint(slots[u].last)) = {}
    BY <1>1 DEF Differs
<1> QED
    BY <1>2 DEF LastSeen

\* The command ends, and the file was no torn one.
LEMMA EndTells ==
    ASSUME LastSeen, UNCHANGED <<rows, slots>>, NEW code, Exit(code),
           code = 0 => /\ before' # Torn
                       /\ before'.kind = "probe" /\ args.onChange =>
                             \E ch : ExitStatus(ch) = 0 /\ (Differs(before'.fp) => ch)
    PROVE  NoSilentDrift'
<1> SUFFICES ASSUME exitCode' = 0
             PROVE  /\ before' # Torn
                    /\ args'.onChange /\ before'.kind = "probe" =>
                          \A u \in Urls : \A i \in Succeeding(u)' :
                              (\A j \in Succeeding(u)' : j <= i) =>
                                  DiffFingerprints(before'.fp, Fingerprint(rows'[i].result)) = {}
    BY DEF NoSilentDrift
<1>1. code = 0 /\ args' = args /\ rows' = rows /\ \A u : Succeeding(u)' = Succeeding(u)
    BY DEF Exit, Succeeding
<1>2. ASSUME args.onChange, before'.kind = "probe", NEW u \in Urls, NEW i \in Succeeding(u),
             \A j \in Succeeding(u) : j <= i
      PROVE  DiffFingerprints(before'.fp, Fingerprint(rows[i].result)) = {}
  <2>1. PICK ch : ExitStatus(ch) = 0 /\ (Differs(before'.fp) => ch)
      BY <1>1, <1>2
  <2> QED
      BY <1>2, <2>1, ZeroTells
<1> QED
    BY <1>1, <1>2

LEMMA PingStarts == StartPing => PingInv'
<1> SUFFICES ASSUME StartPing PROVE PingInv'
    OBVIOUS
<1>1. /\ slots' = [u \in Urls |-> NewSlot] /\ rows' = Empty /\ exitCode' = Pending
      /\ step' = "collecting"
    BY DEF StartPing, Start
<1>2. \A u : Succeeding(u)' = {}
    BY <1>1 DEF Succeeding, Empty
<1>3. \E S : rows' \in Seq(S)
  <2>1. rows' \in Seq({})
      BY <1>1 DEF Empty
  <2> QED
      BY <2>1
<1>4. LastSeen' /\ NoSilentDrift'
    BY <1>1, <1>2 DEF LastSeen, NoSilentDrift, Ended, Idle, Pending
<1> QED
    BY <1>1, <1>3, <1>4 DEF PingInv, Pending

LEMMA CollectKeeps == PingInv /\ Collect => PingInv'
<1> SUFFICES ASSUME PingInv, Collect PROVE PingInv'
    OBVIOUS
<1>1. PICK v \in ToSet(args.targets) : \E r \in Results(v) :
        /\ rows' = Append(rows, [target |-> v, result |-> r])
        /\ slots' = [slots EXCEPT ![v] = [stats |-> RecordStats(@.stats, r),
                                          last |-> IF r.ok THEN r ELSE @.last,
                                          verdict |-> Assess(r)]]
    BY DEF Collect
<1>2. PICK r \in Results(v) :
        /\ rows' = Append(rows, [target |-> v, result |-> r])
        /\ slots' = [slots EXCEPT ![v] = [stats |-> RecordStats(@.stats, r),
                                          last |-> IF r.ok THEN r ELSE @.last,
                                          verdict |-> Assess(r)]]
    BY <1>1
<1>3. /\ command = "ping" /\ exitCode = Pending /\ step = "collecting"
      /\ UNCHANGED <<command, exitCode, step>> /\ DOMAIN slots = Urls /\ LastSeen
    BY DEF Collect, Running, Idle, PingInv
<1>4. PICK S : rows \in Seq(S)
    BY <1>3 DEF PingInv
<1> DEFINE row == [target |-> v, result |-> r]
           n == Len(rows) + 1
<1>5. /\ rows' \in Seq(S \union {row}) /\ n \in Nat
      /\ DOMAIN rows = 1..Len(rows) /\ DOMAIN rows' = 1..n /\ rows'[n] = row
      /\ \A i \in DOMAIN rows : i < n /\ rows'[i] = rows[i]
    BY <1>2, <1>4
<1>6. DOMAIN slots' = Urls /\ \A u \in Urls : slots'[u].last =
                                IF u = v /\ r.ok THEN r ELSE slots[u].last
    BY <1>2, <1>3
<1>7. r.ok => r # None
    BY DEF Results, Failure, Answered, None
<1>8. ASSUME NEW u \in Urls, NEW i \in Succeeding(u)', \A j \in Succeeding(u)' : j <= i
      PROVE  Succeeded(u)' /\ slots'[u].last = rows'[i].result
  <2> HIDE DEF n
  <2>1. CASE u = v /\ r.ok
    <3>1. n \in Succeeding(u)'
        BY <1>5, <2>1 DEF Succeeding
    <3>2. i = n
        BY <1>5, <1>8, <3>1 DEF Succeeding
    <3> QED
        BY <1>5, <1>6, <1>7, <2>1, <3>2 DEF Succeeded
  <2>2. CASE ~(u = v /\ r.ok)
    <3>1. Succeeding(u)' = Succeeding(u)
      <4>1. \A k \in DOMAIN rows' : k \in DOMAIN rows \/ k = n
          BY <1>5 DEF n
      <4>2. DOMAIN rows \subseteq DOMAIN rows'
          BY <1>5 DEF n
      <4> QED
          BY <1>5, <2>2, <4>1, <4>2 DEF Succeeding
    <3>2. i \in DOMAIN rows /\ Succeeded(u) /\ slots[u].last = rows[i].result
        BY <1>3, <1>8, <3>1 DEF LastSeen, Succeeding
    <3> QED
        BY <1>5, <1>6, <2>2, <3>2 DEF Succeeded
  <2> QED
      BY <2>1, <2>2
<1>9. LastSeen'
    BY <1>8 DEF LastSeen
<1>10. NoSilentDrift'
    BY <1>3 DEF NoSilentDrift, Ended, Idle
<1> QED
    BY <1>3, <1>5, <1>6, <1>9, <1>10 DEF PingInv

\* The steps after the loop leave the rows and the slots alone.
LEMMA AfterKeeps ==
    ASSUME PingInv, command = "ping", UNCHANGED <<command, rows, slots>>, NoSilentDrift',
           exitCode' = Pending /\ step' = "writing" => ChangeKept'
    PROVE  PingInv'
<1>1. LastSeen'
    BY DEF PingInv, LastSeen, Succeeding, Succeeded
<1> QED
    BY <1>1 DEF PingInv

LEMMA TruncateTells == Truncate => /\ UNCHANGED <<command, args>>
                                   /\ \/ exitCode' = exitCode
                                      \/ exitCode' = 1 /\ Exit(1)
    BY DEF Truncate, Exit

LEMMA PingStep == PingInv /\ PingNext => PingInv'
<1> SUFFICES ASSUME PingInv, PingNext PROVE PingInv'
    OBVIOUS
<1> USE DEF Running, Idle
<1>0. Pending # 0 /\ Pending # 1
    BY DEF Pending
<1>1. CASE EndCollecting
  <2>1. /\ command = "ping" /\ LastSeen /\ UNCHANGED <<command, rows, slots>>
        /\ step = "collecting"
      BY <1>1 DEF EndCollecting, Exit, PingInv
  <2>2. CASE step' = step
      BY <2>1, <2>2, AfterKeeps DEF NoSilentDrift
  <2>3. CASE step' = "reference" /\ exitCode' = Pending
      BY <2>1, <2>3, AfterKeeps DEF NoSilentDrift, Ended
  <2> QED
      BY <1>1, <2>1, <2>2, <2>3 DEF EndCollecting
<1>2. ASSUME Reading, NEW code, Exit(code), UNCHANGED <<rows, slots>>,
             code = 0 => /\ before' # Torn
                         /\ before'.kind = "probe" /\ args.onChange =>
                               \E ch : ExitStatus(ch) = 0 /\ (Differs(before'.fp) => ch),
             code # Pending
      PROVE  PingInv'
  <2>1. command = "ping" /\ LastSeen /\ UNCHANGED command
      BY <1>2 DEF Reading, PingInv, Exit
  <2>2. NoSilentDrift'
      BY <1>2, <2>1, EndTells
  <2> QED
      BY <1>2, <2>1, <2>2, AfterKeeps DEF Exit
<1>3. \A ch : ExitStatus(ch) # Pending
    BY DEF ExitStatus, Pending
<1>4. ASSUME Reading, Truncate, UNCHANGED <<rows, slots>>, ChangeKept' PROVE PingInv'
  <2>1. CASE Exit(1)
      BY <1>0, <1>2, <1>4, <2>1
  <2>2. CASE UNCHANGED <<command, exitCode>>
      BY <1>4, <2>2, AfterKeeps DEF Reading, NoSilentDrift, Ended
  <2> QED
      BY <1>4, <2>1, <2>2, TruncateTells
<1>5. CASE Seed
  <2>1. Reading /\ before' = Absent /\ UNCHANGED <<rows, slots>> /\ (Truncate \/ Leave)
      BY <1>5 DEF Seed
  <2>2. before' # Torn /\ before'.kind # "probe"
      BY <2>1 DEF Absent, Torn
  <2>3. CASE Truncate
      BY <1>4, <2>1, <2>2, <2>3 DEF ChangeKept
  <2>4. CASE Leave
      BY <1>2, <1>3, <2>1, <2>2, <2>4 DEF Leave
  <2> QED
      BY <2>1, <2>3, <2>4
<1>6. CASE UnreadableReference
    BY <1>0, <1>2, <1>6 DEF UnreadableReference
<1>7. CASE NotComparable
  <2>1. before' # Torn /\ before'.kind # "probe"
      BY <1>7 DEF NotComparable, NoHop, Torn
  <2> QED
      BY <1>2, <1>3, <1>7, <2>1 DEF NotComparable, Leave
<1>8. CASE CompareWith
  <2>1. /\ Reading /\ UNCHANGED <<rows, slots>> /\ (Truncate \/ Leave)
        /\ before'.kind = "probe" /\ before' # Torn
        /\ Differs(before'.fp) => changed'
      BY <1>8 DEF CompareWith, Torn
  <2>2. Differs(before'.fp) = Differs(before.fp)'
      BY <2>1 DEF Differs, Succeeded
  <2>3. CASE Truncate
      BY <1>4, <2>1, <2>2, <2>3 DEF ChangeKept
  <2>4. CASE Leave
    <3>1. Exit(ExitStatus(changed'))
        BY <2>4 DEF Leave
    <3> QED
        BY <1>2, <1>3, <2>1, <3>1
  <2> QED
      BY <2>1, <2>3, <2>4
<1>9. CASE Write
  <2>1. /\ command = "ping" /\ exitCode = Pending /\ step = "writing" /\ LastSeen /\ ChangeKept
        /\ UNCHANGED <<rows, slots, before, changed>>
      BY <1>9 DEF Write, PingInv
  <2>2. PICK code \in {ExitStatus(changed), 1} : Exit(code)
      BY <1>9 DEF Write
  <2>3. NoSilentDrift'
      BY <2>1, <2>2, EndTells DEF ChangeKept
  <2> QED
      BY <1>0, <1>3, <2>1, <2>2, <2>3, AfterKeeps DEF Exit
<1> QED
    BY <1>1, <1>5, <1>6, <1>7, <1>8, <1>9, PingStarts, CollectKeeps DEF PingNext

LEMMA PingKept == PingInv /\ [CommandsNext]_vars => PingInv'
<1>1. ASSUME PingInv, UNCHANGED vars PROVE PingInv'
  <2>1. UNCHANGED local /\ UNCHANGED pingVars
      BY <1>1 DEF vars
  <2>2. /\ LastSeen' = LastSeen /\ NoSilentDrift' = NoSilentDrift
        /\ ChangeKept' = ChangeKept
      BY <2>1 DEF local, pingVars, LastSeen, NoSilentDrift, ChangeKept, Succeeding, Succeeded,
                  Differs, Ended, Idle
  <2> QED
      BY <1>1, <2>1, <2>2 DEF PingInv, local, pingVars
<1>2. ASSUME PingInv, Environment PROVE PingInv'
  <2>1. CASE Killed
    <3>1. /\ command = "ping" /\ UNCHANGED <<command, rows, slots>> /\ exitCode' = 137
        BY <2>1 DEF Killed, Running, Exit
    <3>2. NoSilentDrift'
        BY <3>1 DEF NoSilentDrift
    <3> QED
        BY <1>2, <3>1, <3>2, AfterKeeps DEF Pending
  <2>2. ~Killed => command' = "none"
      BY <1>2 DEF Environment, Provide, Discard, Leaving, Gone, local
  <2> QED
      BY <2>1, <2>2 DEF PingInv
<1> QED
    BY <1>1, <1>2, PingStep, Dispatch DEF CommandsNext, FileLess, PingInv

\* No drift from the reference goes unnoticed, for any targets, services and
\* answers, any number of probes and invocations, and also after a crash.
THEOREM DriftNoticed == CommandsSpec => []NoSilentDrift
<1>1. CommandsInit => PingInv
    BY DEF CommandsInit, Init, PingInv
<1>2. PingInv => NoSilentDrift
    BY DEF PingInv, NoSilentDrift, Ended
<1> QED
    BY <1>1, <1>2, PingKept, PTL DEF CommandsSpec

-----------------------------------------------------------------------------
(* The outliers of a fan-out.                                              *)

FanRow(S) == [ip : S, ok : BOOLEAN, status : Nat, total : Nat \union {NoTotal},
              outlier : BOOLEAN]

FanInv ==
    command = "fanout" => /\ exitCode = Pending => \E S : rows \in Seq(FanRow(S))
                          /\ OutliersAreFew

\* In a list of the times from the least, those up to the middle are not above
\* the median.
LEMMA MedianBounds ==
    ASSUME NEW rs, NEW n \in Nat, n = Cardinality(Timed(rs)), NEW p \in [1..n -> Timed(rs)],
           \A i \in Timed(rs) : rs[i].total \in Nat,
           \A i, j \in 1..n : i < j => rs[p[i]].total <= rs[p[j]].total,
           NEW k \in 1..n, k <= n - (n \div 2)
    PROVE  /\ MedianTwice(rs, p) \in Nat
           /\ 2 * rs[p[k]].total <= MedianTwice(rs, p)
<1> DEFINE total(i) == rs[p[i]].total
           half == n \div 2
<1>1. \A i \in 1..n : total(i) \in Nat
    OBVIOUS
<1>2. \A i, j \in 1..n : i <= j => total(i) <= total(j)
  <2> SUFFICES ASSUME NEW i \in 1..n, NEW j \in 1..n, i <= j PROVE total(i) <= total(j)
      OBVIOUS
  <2>1. CASE i = j
      BY <1>1, <2>1
  <2>2. CASE i < j
      BY <2>2
  <2> QED
      BY <2>1, <2>2
<1>3. MedianTwice(rs, p) = IF n % 2 = 1 THEN 2 * total(half + 1)
                           ELSE total(half) + total(half + 1)
    BY DEF MedianTwice
<1> HIDE DEF total
<1>4. CASE n % 2 = 1
  <2>1. half + 1 \in 1..n /\ k <= half + 1
      BY <1>4
  <2>2. /\ MedianTwice(rs, p) = 2 * total(half + 1) /\ total(half + 1) \in Nat
        /\ total(k) \in Nat /\ total(k) <= total(half + 1)
    <3> HIDE DEF half
    <3> QED
        BY <1>1, <1>2, <1>3, <1>4, <2>1
  <2>3. MedianTwice(rs, p) \in Nat /\ 2 * total(k) <= MedianTwice(rs, p)
    <3> HIDE DEF half
    <3> QED
        BY <2>2
  <2> QED
      BY <2>3 DEF total
<1>5. CASE n % 2 # 1
  <2>1. half \in 1..n /\ half + 1 \in 1..n /\ k <= half
      BY <1>5
  <2>2. total(k) <= total(half) /\ total(half) <= total(half + 1)
      BY <1>2, <2>1
  <2>3. total(k) \in Nat /\ total(half) \in Nat /\ total(half + 1) \in Nat
      BY <1>1, <2>1
  <2> HIDE DEF half
  <2>4. 2 * total(k) <= total(half) + total(half + 1)
      BY <2>2, <2>3
  <2>5. MedianTwice(rs, p) = total(half) + total(half + 1)
      BY <1>3, <1>5
  <2> QED
      BY <2>3, <2>4, <2>5 DEF total
<1> QED
    BY <1>4, <1>5

\* The rows that are slow for a median are in the upper half of the list.
LEMMA SlowAreFew ==
    ASSUME NEW rs, IsFiniteSet(DOMAIN rs), \A i \in Timed(rs) : rs[i].total \in Nat,
           NEW n, n = Cardinality(Timed(rs)), NEW p \in Bijection(1..n, Timed(rs)),
           \A i, j \in 1..n : i < j => rs[p[i]].total <= rs[p[j]].total,
           NEW Slow \in SUBSET Timed(rs),
           \A i \in Slow : /\ MedianTwice(rs, p) > 0
                           /\ 2 * rs[i].total >= MedianTwice(rs, p) * OutlierFactor
    PROVE  2 * Cardinality(Slow) <= n
<1>1. IsFiniteSet(Timed(rs)) /\ n \in Nat
  <2>1. Timed(rs) \in SUBSET DOMAIN rs
      BY DEF Timed
  <2> QED
      BY <2>1, FS_Subset, FS_CardinalityType
<1>2. p \in [1..n -> Timed(rs)]
    BY Fun_BijectionProperties
<1>3. ASSUME NEW k \in 1..n, p[k] \in Slow PROVE k \in (n - (n \div 2) + 1)..n
  <2> SUFFICES ASSUME k <= n - (n \div 2) PROVE FALSE
      BY <1>1
  <2>1. MedianTwice(rs, p) \in Nat /\ 2 * rs[p[k]].total <= MedianTwice(rs, p)
      BY <1>1, <1>2, MedianBounds
  <2>2. /\ MedianTwice(rs, p) > 0 /\ rs[p[k]].total \in Nat
        /\ 2 * rs[p[k]].total >= MedianTwice(rs, p) * 2
      BY <1>2, <1>3 DEF OutlierFactor
  <2> QED
      BY <2>1, <2>2
<1> DEFINE upper == (n - (n \div 2) + 1)..n
           self == [i \in Timed(rs) |-> i]
<1>4. Count(self, Slow) = Cardinality(Slow)
  <2>1. Places(self, Slow) = Slow
      BY DEF Places
  <2> QED
      BY <2>1 DEF Count
<1>5. Count(p, Slow) = Count(self, Slow)
  <2> DEFINE S == 1..n
             T == Timed(rs)
  <2>1. IsFiniteSet(S) /\ p \in Bijection(S, T) /\ T \subseteq DOMAIN self
      BY <1>1, FS_Interval
  <2>2. Places(self, Slow) \subseteq T
      BY DEF Places
  <2>3. DOMAIN p = S /\ \A i \in S : p[i] = self[p[i]]
      BY <1>2
  <2> HIDE DEF S, T, self
  <2> QED
      BY <2>1, <2>2, <2>3, CountListed
<1>6. Places(p, Slow) \subseteq upper
    BY <1>2, <1>3 DEF Places
<1>7. IsFiniteSet(upper) /\ 2 * Cardinality(upper) <= n
  <2>1. n - (n \div 2) + 1 \in Int /\ n \in Int
      BY <1>1
  <2>2. Cardinality(upper) = IF n - (n \div 2) + 1 > n THEN 0 ELSE n - (n - (n \div 2) + 1) + 1
      BY <2>1, FS_Interval
  <2>3. IsFiniteSet(upper)
      BY <2>1, FS_Interval
  <2> HIDE DEF upper
  <2> QED
      BY <1>1, <2>2, <2>3
<1>8. Cardinality(Places(p, Slow)) <= Cardinality(upper)
  <2> HIDE DEF upper
  <2> QED
      BY <1>6, <1>7, FS_Subset
<1>9. Cardinality(upper) \in Nat /\ Cardinality(Places(p, Slow)) \in Nat
  <2> HIDE DEF upper
  <2> QED
      BY <1>6, <1>7, FS_Subset, FS_CardinalityType
<1> HIDE DEF upper
<1> QED
    BY <1>1, <1>4, <1>5, <1>7, <1>8, <1>9 DEF Count

LEMMA ProbeKeeps ==
    ASSUME FanInv, ProbeNext PROVE FanInv'
<1>1. PICK a \in Answers : rows' = Append(rows, [ip |-> Head(queue), ok |-> a.ok,
                               status |-> a.status, total |-> a.total, outlier |-> FALSE])
    BY DEF ProbeNext
<1>2. command = "fanout" /\ exitCode = Pending /\ exitCode' = exitCode
    BY DEF ProbeNext, Running, Idle
<1>3. PICK S : rows \in Seq(FanRow(S))
    BY <1>2 DEF FanInv
<1> DEFINE row == [ip |-> Head(queue), ok |-> a.ok, status |-> a.status, total |-> a.total,
                   outlier |-> FALSE]
           T == S \union {Head(queue)}
<1>4. row \in FanRow(T) /\ FanRow(S) \subseteq FanRow(T)
    BY AnswersAssumption DEF FanRow
<1>5. rows' \in Seq(FanRow(T))
  <2> HIDE DEF row, T
  <2>1. rows \in Seq(FanRow(T))
      BY <1>3, <1>4
  <2> QED
      BY <1>1, <1>4, <2>1 DEF row
<1> QED
    BY <1>2, <1>5 DEF FanInv, OutliersAreFew, Ended, Idle

LEMMA JudgeRowsKeeps ==
    ASSUME FanInv, JudgeRows PROVE FanInv'
<1>1. /\ command = "fanout" /\ exitCode = Pending /\ UNCHANGED <<command, args>>
      /\ exitCode' \in {0, 1}
  <2>1. Running("fanout") /\ \E c \in {0, 1} : Exit(c)
    <3> DEFINE bad == \E i \in DOMAIN rows' : ~rows'[i].ok \/ rows'[i].outlier
    <3>1. Running("fanout") /\ Exit(IF bad THEN 1 ELSE 0)
        BY DEF JudgeRows
    <3> HIDE DEF bad
    <3> QED
        BY <3>1
  <2> QED
      BY <2>1 DEF Running, Idle, Exit
<1>2. PICK S : rows \in Seq(FanRow(S))
    BY <1>1 DEF FanInv
<1> DEFINE m == Cardinality(DOMAIN rows)
           listed(o) == [i \in DOMAIN rows |-> rows[o[i]]]
<1>3. \E o \in Bijection(1..m, DOMAIN rows) :
        LET rs == listed(o) IN
        \E p \in Bijection(1..Cardinality(Timed(rs)), Timed(rs)) :
            /\ \A i, j \in 1..Cardinality(Timed(rs)) : i < j => rs[p[i]].total <= rs[p[j]].total
            /\ rows' = Flag(rs, MedianTwice(rs, p))
    BY DEF JudgeRows, Listings
<1>4. PICK o \in Bijection(1..m, DOMAIN rows) :
        \E p \in Bijection(1..Cardinality(Timed(listed(o))), Timed(listed(o))) :
            /\ \A i, j \in 1..Cardinality(Timed(listed(o))) :
                  i < j => listed(o)[p[i]].total <= listed(o)[p[j]].total
            /\ rows' = Flag(listed(o), MedianTwice(listed(o), p))
    BY <1>3
<1> DEFINE rs == listed(o)
           n == Cardinality(Timed(rs))
<1>5. PICK p \in Bijection(1..n, Timed(rs)) :
        /\ \A i, j \in 1..n : i < j => rs[p[i]].total <= rs[p[j]].total
        /\ rows' = Flag(rs, MedianTwice(rs, p))
    BY <1>4
<1>6. DOMAIN rs = DOMAIN rows /\ IsFiniteSet(DOMAIN rs) /\ \A i \in DOMAIN rs : rs[i] \in FanRow(S)
  <2>1. DOMAIN rows = 1..Len(rows) /\ m = Len(rows) /\ IsFiniteSet(DOMAIN rows)
      BY <1>2, SeqFinite
  <2>2. o \in [1..Len(rows) -> 1..Len(rows)]
      BY <2>1, Fun_BijectionProperties
  <2> QED
      BY <1>2, <2>1, <2>2
<1> HIDE DEF rs, n
<1> DEFINE limit == MedianTwice(rs, p)
           late(i) == IsOutlier(rs[i], limit, Majority(rs))
<1>7. /\ DOMAIN rows' = DOMAIN rs
      /\ \A i \in DOMAIN rs : /\ rows'[i].ok = rs[i].ok /\ rows'[i].status = rs[i].status
                              /\ rows'[i].total = rs[i].total
                              /\ rows'[i].outlier = late(i)
  <2>1. rows' = [i \in DOMAIN rs |-> [rs[i] EXCEPT !.outlier = late(i)]]
      BY <1>5 DEF Flag
  <2> HIDE DEF late
  <2> QED
      BY <1>6, <2>1 DEF FanRow
<1>8. Majority(rows') = Majority(rs) /\ Timed(rows') = Timed(rs)
  <2>1. {i \in DOMAIN rows' : rows'[i].ok} = {i \in DOMAIN rs : rs[i].ok}
      BY <1>7
  <2>2. {rows'[i].status : i \in {i \in DOMAIN rows' : rows'[i].ok}}
          = {rs[i].status : i \in {i \in DOMAIN rs : rs[i].ok}}
      BY <1>7, <2>1
  <2>3. \A s : {i \in DOMAIN rows' : rows'[i].ok /\ rows'[i].status = s}
                 = {i \in DOMAIN rs : rs[i].ok /\ rs[i].status = s}
      BY <1>7
  <2>4. \A s : Votes(rows', s) = Votes(rs, s)
      BY <2>3 DEF Votes
  <2>5. Majority(rows') = Majority(rs)
    <3> DEFINE seen(r) == {r[i].status : i \in {i \in DOMAIN r : r[i].ok}} \ {NoStatus}
               top(r) == {s \in seen(r) : \A u \in seen(r) : Votes(r, u) <= Votes(r, s)}
               chosen(T) == IF Cardinality(T) = 1 THEN CHOOSE s \in T : TRUE ELSE NoStatus
    <3>1. seen(rows') = seen(rs)
        BY <2>2
    <3>2. top(rows') = top(rs)
      <4> HIDE DEF seen
      <4> QED
          BY <2>4, <3>1
    <3>3. Majority(rows') = chosen(top(rows')) /\ Majority(rs) = chosen(top(rs))
        BY DEF Majority
    <3> HIDE DEF top, chosen
    <3> QED
        BY <3>2, <3>3
  <2>6. Timed(rows') = Timed(rs)
      BY <1>7 DEF Timed
  <2> QED
      BY <2>5, <2>6
<1>9. \A i \in Timed(rs) : rs[i].total \in Nat
    BY <1>6 DEF Timed, FanRow
<1>10. limit \in Int
  <2>1. IsFiniteSet(Timed(rs)) /\ n \in Nat
    <3>1. Timed(rs) \in SUBSET DOMAIN rs
        BY DEF Timed
    <3> QED
        BY <1>6, <3>1, FS_Subset, FS_CardinalityType DEF n
  <2>2. CASE n = 0
      BY <2>2 DEF MedianTwice, n, NoTotal
  <2>3. CASE n # 0
    <3>1. 1 \in 1..n /\ 1 <= n - (n \div 2)
        BY <2>1, <2>3
    <3>2. p \in [1..n -> Timed(rs)] /\ n = Cardinality(Timed(rs))
        BY Fun_BijectionProperties DEF n
    <3>3. \A i, j \in 1..n : i < j => rs[p[i]].total <= rs[p[j]].total
        BY <1>5
    <3>4. MedianTwice(rs, p) \in Nat
        BY <1>9, <2>1, <3>1, <3>2, <3>3, MedianBounds
    <3> QED
        BY <3>4
  <2> QED
      BY <2>2, <2>3
<1>11. ASSUME NEW i \in OnlySlow'
       PROVE  /\ i \in Timed(rs) /\ rows'[i].total = rs[i].total
              /\ limit > 0 /\ 2 * rs[i].total >= limit * OutlierFactor
  <2>1. /\ i \in DOMAIN rs /\ rows'[i].outlier /\ rows'[i].ok
        /\ Majority(rows') = NoStatus \/ rows'[i].status \in {NoStatus, Majority(rows')}
      BY <1>7 DEF OnlySlow
  <2>2. late(i) /\ rs[i].ok /\ (Majority(rs) = NoStatus
                                \/ rs[i].status \in {NoStatus, Majority(rs)})
      BY <1>7, <1>8, <2>1
  <2>3. limit > 0 /\ 2 * rs[i].total >= limit * OutlierFactor
    <3> HIDE DEF limit
    <3> QED
        BY <2>2 DEF IsOutlier
  <2>4. rs[i].total # NoTotal
    <3>1. rs[i].total = NoTotal => limit <= -1
        BY <1>10, <2>3 DEF NoTotal, OutlierFactor
    <3> HIDE DEF limit
    <3> QED
        BY <1>10, <2>3, <3>1
  <2> QED
      BY <1>7, <2>1, <2>2, <2>3, <2>4 DEF Timed
<1>12. ASSUME NEW i \in OnlySlow', NEW j \in Fine' PROVE rows'[i].total > rows'[j].total
  <2>1. j \in DOMAIN rs /\ ~late(j) /\ rows'[j].total = rs[j].total
      BY <1>7 DEF Fine
  <2>2. limit > 0 /\ 2 * rs[i].total >= limit * OutlierFactor
        /\ i \in Timed(rs) /\ rows'[i].total = rs[i].total
      BY <1>11
  <2> HIDE DEF limit
  <2>3. ~(2 * rs[j].total >= limit * OutlierFactor)
      BY <2>1, <2>2 DEF IsOutlier
  <2>4. rs[i].total \in Int /\ rs[j].total \in Int
      BY <1>6, <1>9, <2>1, <2>2 DEF FanRow, NoTotal
  <2> QED
      BY <1>10, <2>1, <2>2, <2>3, <2>4 DEF OutlierFactor
<1>13. 2 * Cardinality(OnlySlow') <= n
  <2> DEFINE Slow == OnlySlow'
  <2>1. Slow \in SUBSET Timed(rs)
      BY <1>11
  <2>2. \A i \in Slow : limit > 0 /\ 2 * rs[i].total >= limit * OutlierFactor
      BY <1>11
  <2> HIDE DEF Slow
  <2> QED
      BY <1>5, <1>6, <1>9, <2>1, <2>2, SlowAreFew DEF n, Slow
<1>14. OutliersAreFew'
  <2>1. InTime' = Timed(rows')
      BY DEF InTime, Timed
  <2>2. n = Cardinality(InTime')
      BY <1>8, <2>1 DEF n
  <2> QED
      BY <1>12, <1>13, <2>2 DEF OutliersAreFew
<1> QED
    BY <1>1, <1>14 DEF FanInv, Pending

LEMMA FanStep == FanInv /\ Compare => FanInv'
<1> SUFFICES ASSUME FanInv, Compare PROVE FanInv'
    OBVIOUS
<1>1. CASE StartFanout
  <2>1. exitCode' = Pending /\ rows' = Empty
      BY <1>1 DEF StartFanout, Start
  <2>2. rows' \in Seq(FanRow({}))
      BY <2>1 DEF Empty
  <2> QED
      BY <2>1, <2>2 DEF FanInv, OutliersAreFew, Ended, Idle
<1>2. CASE NoAddress
    BY <1>2 DEF NoAddress, Exit, FanInv, OutliersAreFew, Pending
<1>3. CASE StartFamilies \/ ProbeFamily \/ JudgeFamilies
  <2>1. command' = "families"
      BY <1>3 DEF StartFamilies, ProbeFamily, JudgeFamilies, Start, Running, Exit
  <2> QED
      BY <2>1 DEF FanInv
<1> QED
    BY <1>1, <1>2, <1>3, ProbeKeeps, JudgeRowsKeeps DEF Compare

LEMMA FanKept == FanInv /\ [CommandsNext]_vars => FanInv'
<1>1. ASSUME FanInv, UNCHANGED vars PROVE FanInv'
  <2>1. UNCHANGED local
      BY <1>1 DEF vars
  <2>2. OutliersAreFew' = OutliersAreFew
      BY <2>1 DEF local, OutliersAreFew, OnlySlow, Fine, InTime, Ended, Idle
  <2> QED
      BY <1>1, <2>1, <2>2 DEF FanInv, local
<1> QED
    BY <1>1, FanStep, Dispatch DEF CommandsNext, FileLess, FanInv

\* No address is called slow without reason, for any addresses and answers.
THEOREM OutliersHold == CommandsSpec => []OutliersAreFew
<1>1. CommandsInit => FanInv
    BY DEF CommandsInit, Init, FanInv
<1>2. FanInv => OutliersAreFew
    BY DEF FanInv, OutliersAreFew, Ended
<1> QED
    BY <1>1, <1>2, FanKept, PTL DEF CommandsSpec

-----------------------------------------------------------------------------
(* The blackbox endpoint.                                                  *)

\* A connection that is served: a probe has used no more than its limit.
Conn == [stage : {"reading", "probing"}, age : Nat, spent : Nat,
         module : DOMAIN Modules \union {UnknownModule}]
Served(k) ==
    /\ k \in Conn
    /\ k.stage = "reading" => k.module = UnknownModule /\ k.spent = 0
    /\ k.stage = "probing" =>
          /\ k.module \in DOMAIN Modules
          /\ TimeLimit(Modules[k.module]) \in Nat
          /\ k.spent <= TimeLimit(Modules[k.module])

CutLate(r) ==
    r.why = "cut" /\ r.module # UnknownModule =>
        r.read + TimeLimit(Modules[r.module]) >= DefaultTimeout + Margin

BlackboxInv ==
    command = "blackbox" => /\ \A c \in DOMAIN pool : Served(pool[c])
                            /\ \A c \in DOMAIN rows : CutLate(rows[c])

\* A response with another reason than the time limit of the connection.
LEMMA EndsKeeps ==
    ASSUME BlackboxInv, command = "blackbox", NEW c, NEW r, CutLate(r), Ends(c, r)
    PROVE  BlackboxInv'
  BY DEF BlackboxInv, Ends, Without, With, CutLate, Served

LEMMA CutKeeps ==
    ASSUME BlackboxInv, NEW c \in DOMAIN pool, Cut(c)
    PROVE  BlackboxInv'
<1> DEFINE r == [code |-> 0, why |-> "cut", module |-> pool[c].module,
                 read |-> pool[c].age - pool[c].spent]
<1>1. command = "blackbox" /\ Ends(c, r) /\ pool[c].age = DefaultTimeout + Margin
    BY DEF Cut, Serving, Running, Overdue
<1>2. Served(pool[c])
    BY <1>1 DEF BlackboxInv
<1>3. CutLate(r)
    BY <1>1, <1>2, BlackboxAssumption DEF CutLate, Served, Conn
<1> QED
    BY <1>1, <1>3, EndsKeeps

LEMMA ReadKeeps ==
    ASSUME BlackboxInv, NEW c \in DOMAIN pool, ReadRequest(c)
    PROVE  BlackboxInv'
<1>1. command = "blackbox" /\ pool[c].stage = "reading" /\ Served(pool[c])
    BY DEF ReadRequest, Serving, Running, BlackboxInv
<1>2. CASE \E r : r.why # "cut" /\ Ends(c, r)
    BY <1>1, <1>2, EndsKeeps DEF CutLate
<1>3. ASSUME NEW m \in DOMAIN Modules, ~Panics(Modules[m]),
             pool' = [pool EXCEPT ![c] = [@ EXCEPT !.stage = "probing", !.module = m]],
             UNCHANGED <<command, args, queue, rows, exitCode, runs>>
      PROVE  BlackboxInv'
  <2>1. TimeLimit(Modules[m]) \in Nat
      BY <1>3, BlackboxAssumption DEF TimeLimit, Panics
  <2>2. Served(pool'[c])
    <3>1. pool'[c] = [pool[c] EXCEPT !.stage = "probing", !.module = m]
        BY <1>3
    <3>2. /\ pool[c] \in Conn /\ pool[c].spent = 0
          /\ pool'[c] = [[pool[c] EXCEPT !.stage = "probing"] EXCEPT !.module = m]
        BY <1>1, <3>1 DEF Served
    <3>3. /\ pool'[c] \in Conn /\ pool'[c].stage = "probing"
          /\ pool'[c].module = m /\ pool'[c].spent = 0
        BY <3>2 DEF Conn
    <3> QED
        BY <2>1, <3>3 DEF Served
  <2> QED
      BY <1>1, <1>3, <2>2 DEF BlackboxInv
<1>4. \/ \E r : r.why # "cut" /\ Ends(c, r)
      \/ \E m \in DOMAIN Modules :
            /\ ~Panics(Modules[m])
            /\ pool' = [pool EXCEPT ![c] = [@ EXCEPT !.stage = "probing", !.module = m]]
            /\ UNCHANGED <<command, args, queue, rows, exitCode, runs>>
  <2> DEFINE Refuse(m) == Ends(c, [code |-> CASE m = "not GET" -> 405
                                            [] m = "other path" -> 200
                                            [] OTHER -> 400, why |-> m])
             Begin(m) == CASE ~Convertible(Modules[m]) -> Ends(c, [code |-> 400, why |-> "prober"])
                           [] Convertible(Modules[m]) /\ Panics(Modules[m]) ->
                                Ends(c, [code |-> 0, why |-> "panic"])
                           [] OTHER -> /\ pool' = [pool EXCEPT ![c] =
                                               [@ EXCEPT !.stage = "probing", !.module = m]]
                                       /\ UNCHANGED <<command, args, queue, rows, exitCode, runs>>
  <2>1. \/ \E m \in Malformed : Refuse(m)
        \/ Ends(c, [code |-> 400, why |-> "unknown module"])
        \/ Ends(c, [code |-> 0, why |-> "read error"])
        \/ \E m \in DOMAIN Modules : Begin(m)
      BY Zenon DEF ReadRequest
  <2>2. ASSUME NEW m \in Malformed, Refuse(m) PROVE \E r : r.why # "cut" /\ Ends(c, r)
    <3> DEFINE r == [code |-> CASE m = "not GET" -> 405
                                [] m = "other path" -> 200
                                [] OTHER -> 400, why |-> m]
    <3>1. m # "cut" /\ r.why = m
        BY DEF Malformed
    <3>2. Ends(c, r)
        BY <2>2
    <3> HIDE DEF r
    <3> QED
        BY <3>1, <3>2
  <2>3. ASSUME NEW m \in DOMAIN Modules, Begin(m)
        PROVE  \/ \E r : r.why # "cut" /\ Ends(c, r)
               \/ /\ ~Panics(Modules[m])
                  /\ pool' = [pool EXCEPT ![c] = [@ EXCEPT !.stage = "probing", !.module = m]]
                  /\ UNCHANGED <<command, args, queue, rows, exitCode, runs>>
      BY <2>3
  <2>4. (\/ Ends(c, [code |-> 400, why |-> "unknown module"])
         \/ Ends(c, [code |-> 0, why |-> "read error"]))
        => \E r : r.why # "cut" /\ Ends(c, r)
      OBVIOUS
  <2> HIDE DEF Refuse, Begin
  <2> QED
      BY <2>1, <2>2, <2>3, <2>4
<1> QED
    BY <1>2, <1>3, <1>4

LEMMA BlackboxStep == BlackboxInv /\ Blackbox => BlackboxInv'
<1> SUFFICES ASSUME BlackboxInv, Blackbox PROVE BlackboxInv'
    OBVIOUS
<1>1. CASE StartBlackbox
    BY <1>1 DEF StartBlackbox, BlackboxInv, Empty
<1>2. CASE AcceptScraper
  <2>1. command = "blackbox" /\ command' = command
      BY <1>2 DEF AcceptScraper, Serving, Running
  <2>2. Served(Idling) /\ CutLate([code |-> 0, why |-> "refused"])
      BY DEF Served, Conn, Idling, CutLate, UnknownModule
  <2> QED
      BY <1>2, <2>1, <2>2 DEF AcceptScraper, BlackboxInv, With
<1>3. CASE TickBlackbox
  <2>1. /\ command = "blackbox" /\ command' = command /\ rows' = rows
        /\ pool' = [c \in DOMAIN pool |-> Later(pool[c])]
        /\ \A c \in DOMAIN pool : ~ProbeOver(c)
      BY <1>3 DEF TickBlackbox, Serving, Running
  <2>2. ASSUME NEW c \in DOMAIN pool PROVE Served(Later(pool[c]))
    <3>1. Served(pool[c]) /\ ~ProbeOver(c)
        BY <2>1 DEF BlackboxInv
    <3>2. CASE pool[c].stage = "reading"
      <4>1. Later(pool[c]) = [pool[c] EXCEPT !.age = @ + 1]
          BY <3>1, <3>2 DEF Served, Later
      <4> QED
          BY <3>1, <3>2, <4>1 DEF Served, Conn
    <3>3. CASE pool[c].stage = "probing"
      <4> DEFINE older == [pool[c] EXCEPT !.age = @ + 1]
      <4>1. Later(pool[c]) = [older EXCEPT !.spent = pool[c].spent + 1]
          BY <3>1, <3>3 DEF Served, Later
      <4>2. pool[c].spent + 1 <= TimeLimit(Modules[pool[c].module])
          BY <3>1, <3>3 DEF Served, Conn, ProbeOver
      <4>3. pool[c] \in Conn
          BY <3>1 DEF Served
      <4>4. LET n == Later(pool[c]) IN
            /\ n \in Conn /\ n.stage = "probing"
            /\ n.module = pool[c].module /\ n.spent = pool[c].spent + 1
        <5>1. older \in Conn /\ older.stage = "probing" /\ older.module = pool[c].module
            BY <3>3, <4>3 DEF Conn
        <5>2. pool[c].spent + 1 \in Nat
            BY <4>3 DEF Conn
        <5> HIDE DEF older
        <5> QED
            BY <4>1, <5>1, <5>2 DEF Conn
      <4> QED
          BY <3>1, <3>3, <4>2, <4>4 DEF Served
    <3> QED
        BY <3>1, <3>2, <3>3 DEF Served, Conn
  <2> QED
      BY <2>1, <2>2 DEF BlackboxInv
<1>4. CASE StopBlackbox
    BY <1>4 DEF StopBlackbox, Serving, Running, Exit, BlackboxInv, Empty
<1>5. ASSUME NEW c \in DOMAIN pool, Probed(c) PROVE BlackboxInv'
  <2>1. command = "blackbox"
      BY <1>5 DEF Probed, Serving, Running
  <2>2. PICK r : r.why = "probed" /\ Ends(c, r)
      BY <1>5 DEF Probed
  <2> QED
      BY <2>1, <2>2, EndsKeeps DEF CutLate
<1> QED
    BY <1>1, <1>2, <1>3, <1>4, <1>5, ReadKeeps, CutKeeps DEF Blackbox

LEMMA BlackboxKept == BlackboxInv /\ [CommandsNext]_vars => BlackboxInv'
<1>1. BlackboxInv /\ UNCHANGED vars => BlackboxInv'
    BY DEF BlackboxInv, vars, local
<1> QED
    BY <1>1, BlackboxStep, Dispatch DEF CommandsNext, FileLess, BlackboxInv

\* A probe that could end within the time of its connection is answered, for any
\* modules, any limits and any number of scrapers and permits.
THEOREM AnswersInTime == CommandsSpec => []AnsweredUnlessSlow
<1>1. CommandsInit => BlackboxInv
    BY DEF CommandsInit, Init, BlackboxInv
<1>2. BlackboxInv => AnsweredUnlessSlow
    BY DEF BlackboxInv, AnsweredUnlessSlow, CutLate
<1> QED
    BY <1>1, <1>2, BlackboxKept, PTL DEF CommandsSpec

-----------------------------------------------------------------------------
(* The names of DNS.  A recursive function has the values its definition   *)
(* asks for because a round asks only for later positions, and for places  *)
(* with more jumps: both end.                                              *)

\* The least element of a set of numbers.
LEMMA LeastOf ==
    ASSUME NEW T, T \subseteq Nat, T # {}
    PROVE  \E m \in T : \A y \in T : m <= y
<1> DEFINE R == {p \in Nat \X Nat : p[1] < p[2]}
<1>1. IsWellFoundedOn(R, Nat)
    BY NatLessThanWellFounded, Zenon DEF OpToRel
<1>2. PICK m \in T : \A y \in T : <<y, m>> \notin R
    BY <1>1, WFMin
<1>3. ASSUME NEW y \in T PROVE m <= y
  <2>1. <<y, m>> \notin R /\ <<y, m>> \in Nat \X Nat
      BY <1>2
  <2>2. ~(y < m)
      BY <2>1
  <2> QED
      BY <2>2
<1> QED
    BY <1>3

\* The four kinds of byte a round meets.
Kind(n) == /\ n = 0 \/ n \in 1..63 \/ n \in 64..191 \/ n \in 192..255
           /\ n = 0 => n \notin Label /\ n \notin Reserved
           /\ n \in 1..63 => n # 0 /\ n \in Label /\ n \notin Reserved
           /\ n \in 64..191 => n # 0 /\ n \notin Label /\ n \in Reserved
           /\ n \in 192..255 => n # 0 /\ n \notin Label /\ n \notin Reserved

LEMMA ByteAt ==
    ASSUME NEW buf \in Seq(Byte), NEW pos \in Nat, Has(buf, pos)
    PROVE  At(buf, pos) \in 0..255 /\ Kind(At(buf, pos))
<1>1. pos + 1 \in 1..Len(buf)
    BY DEF Has
<1>0. buf[pos + 1] \in Byte
    BY <1>1
<1>2. PICK n \in 0..255 : buf[pos + 1] = n
    BY <1>0 DEF Byte
<1>3. Kind(n)
    BY DEF Kind, Label, Reserved
<1> QED
    BY <1>2, <1>3 DEF At

\* What a round finds in skip_name, and in parse_name.
SkipCase(buf, pos, skip, end) ==
    LET len == At(buf, pos) IN
    /\ len = 0 => end = pos + 1
    /\ len \in 1..63 =>
          end = IF pos + 1 + len > Len(buf) THEN Broken ELSE skip[pos + 1 + len]
    /\ len \in 64..191 => end = Broken
    /\ len \in 192..255 => end = IF pos + 2 > Len(buf) THEN Broken ELSE pos + 2

ParseCase(buf, at, parse, name) ==
    LET len == At(buf, at.pos) IN
    /\ len = 0 => name = Found(<<>>)
    /\ len \in 1..63 =>
          name = IF at.pos + 1 + len > Len(buf) THEN Refused
                 ELSE Labelled(Slice(buf, at.pos + 1, at.pos + 1 + len),
                               parse[Spot(at.jumps + 1, at.pos + 1 + len)])
    /\ len \in 64..191 => name = Refused
    /\ len \in 192..255 =>
          name = IF ~Has(buf, at.pos + 1) THEN Refused
                 ELSE parse[Spot(at.jumps + 1, Target(len, At(buf, at.pos + 1)))]

LEMMA SkipCases ==
    ASSUME NEW buf \in Seq(Byte), NEW pos \in Nat, NEW skip, Has(buf, pos)
    PROVE  SkipCase(buf, pos, skip, SkipStep(buf, pos, skip))
<1>1. Kind(At(buf, pos))
    BY ByteAt
<1> DEFINE len == At(buf, pos)
           to == pos + 1 + len
<1>2. len = 0 => SkipStep(buf, pos, skip) = pos + 1
    BY <1>1 DEF SkipStep, Kind
<1>3. ASSUME len \in 1..63
      PROVE  SkipStep(buf, pos, skip) =
                 IF pos + 1 + len > Len(buf) THEN Broken ELSE skip[pos + 1 + len]
  <2>1. len # 0 /\ len \in Label /\ len \notin Reserved
      BY <1>1, <1>3 DEF Kind
  <2>2. CASE to > Len(buf)
      BY <2>1, <2>2 DEF SkipStep
  <2>3. CASE ~(to > Len(buf))
      BY <2>1, <2>3 DEF SkipStep
  <2> QED
      BY <2>2, <2>3
<1>4. len \in 64..191 => SkipStep(buf, pos, skip) = Broken
    BY <1>1 DEF SkipStep, Kind
<1>5. len \in 192..255 =>
         SkipStep(buf, pos, skip) = IF pos + 2 > Len(buf) THEN Broken ELSE pos + 2
    BY <1>1 DEF SkipStep, Kind
<1> QED
    BY <1>2, <1>3, <1>4, <1>5 DEF SkipCase

LEMMA ParseStops ==
    ASSUME NEW buf, NEW at \in Spots, NEW parse, ParseStep(buf, at, parse) # Refused
    PROVE  at.jumps < MaxJumps /\ Has(buf, at.pos)
<1>1. ~(at.jumps >= MaxJumps) /\ Has(buf, at.pos)
    BY DEF ParseStep
<1> QED
    BY <1>1, ResponsesAssumption DEF Spots

LEMMA ParseCases ==
    ASSUME NEW buf \in Seq(Byte), NEW at \in Spots, NEW parse,
           at.jumps < MaxJumps, Has(buf, at.pos)
    PROVE  ParseCase(buf, at, parse, ParseStep(buf, at, parse))
<1>1. ~(at.jumps >= MaxJumps)
    BY ResponsesAssumption DEF Spots
<1>2. at.pos \in Nat
    BY DEF Spots
<1>3. Kind(At(buf, at.pos))
    BY <1>2, ByteAt
<1> DEFINE len == At(buf, at.pos)
           name == ParseStep(buf, at, parse)
<1>4. len = 0 => name = Found(<<>>)
    BY <1>1, <1>3 DEF ParseStep, Kind
<1>5. ASSUME len \in 1..63
      PROVE  name = IF at.pos + 1 + len > Len(buf) THEN Refused
                    ELSE Labelled(Slice(buf, at.pos + 1, at.pos + 1 + len),
                                  parse[Spot(at.jumps + 1, at.pos + 1 + len)])
  <2> DEFINE to == at.pos + 1 + len
  <2>1. len # 0 /\ len \in Label /\ len \notin Reserved
      BY <1>3, <1>5 DEF Kind
  <2>2. name = IF to > Len(buf) THEN Refused
               ELSE Labelled(Slice(buf, at.pos + 1, to), parse[Spot(at.jumps + 1, to)])
    <3>1. CASE to > Len(buf)
        BY <1>1, <1>2, <2>1, <3>1 DEF ParseStep
    <3>2. CASE ~(to > Len(buf))
      <4>1. name = Labelled(Slice(buf, at.pos + 1, at.pos + 1 + len),
                            parse[Spot(at.jumps + 1, at.pos + 1 + len)])
          BY <1>1, <1>2, <1>5, <2>1, <3>2 DEF ParseStep
      <4> QED
          BY <3>2, <4>1
    <3> QED
        BY <3>1, <3>2
  <2> QED
      BY <2>2
<1>7. len \in 64..191 => name = Refused
    BY <1>1, <1>3 DEF ParseStep, Kind
<1>8. ASSUME len \in 192..255
      PROVE  name = IF ~Has(buf, at.pos + 1) THEN Refused
                    ELSE parse[Spot(at.jumps + 1, Target(len, At(buf, at.pos + 1)))]
  <2>1. len # 0 /\ len \notin Label /\ len \notin Reserved
      BY <1>3, <1>8 DEF Kind
  <2> QED
      BY <1>1, <1>2, <2>1 DEF ParseStep
<1> QED
    BY <1>4, <1>5, <1>7, <1>8 DEF ParseCase

\* A round asks only for what lies behind it.
LEMMA SkipLocal ==
    ASSUME NEW buf \in Seq(Byte), NEW pos \in Nat, NEW f, NEW g,
           \A q \in Nat : q > pos => f[q] = g[q]
    PROVE  SkipStep(buf, pos, f) = SkipStep(buf, pos, g)
<1>1. CASE Has(buf, pos) /\ At(buf, pos) \in Label
  <2>1. PICK len \in 1..63 : len = At(buf, pos)
      BY <1>1 DEF Label
  <2>2. pos + 1 + len \in Nat /\ pos + 1 + len > pos
      OBVIOUS
  <2> QED
      BY <1>1, <2>1, <2>2 DEF SkipStep
<1>2. CASE ~Has(buf, pos)
    BY <1>2 DEF SkipStep
<1>3. CASE At(buf, pos) \notin Label
    BY <1>3 DEF SkipStep
<1> QED
    BY <1>1, <1>2, <1>3

\* Some function satisfies the definition of skip: by rounds from the end of the buffer.
LEMMA SkipSolved ==
    ASSUME NEW buf \in Seq(Byte)
    PROVE  \E f : f = [pos \in Nat |-> SkipStep(buf, pos, f)]
<1> DEFINE Solves(f, n) == \A pos \in Nat : pos + n >= Len(buf) => f[pos] = SkipStep(buf, pos, f)
           Round(f) == [pos \in Nat |-> SkipStep(buf, pos, f)]
           T == {n \in Nat : ~\E f : Solves(f, n)}
<1>0. Len(buf) \in Nat
    OBVIOUS
<1>1. \E f : Solves(f, 0)
  <2> DEFINE g == [pos \in Nat |-> Broken]
  <2>1. Solves(g, 0)
      BY <1>0 DEF SkipStep, Has
  <2> QED
      BY <2>1
<1>2. ASSUME NEW n \in Nat, NEW f, Solves(f, n)
      PROVE  Solves(Round(f), n + 1)
  <2> SUFFICES ASSUME NEW pos \in Nat, pos + n + 1 >= Len(buf)
               PROVE  Round(f)[pos] = SkipStep(buf, pos, Round(f))
      OBVIOUS
  <2> DEFINE g == Round(f)
  <2>1. \A q \in Nat : g[q] = SkipStep(buf, q, f)
      OBVIOUS
  <2>2. \A q \in Nat : q > pos => f[q] = g[q]
      BY <1>2, <2>1, <1>0
  <2> HIDE DEF g
  <2>3. SkipStep(buf, pos, f) = SkipStep(buf, pos, g)
      BY <2>2, SkipLocal
  <2> QED
      BY <2>1, <2>3 DEF g
<1>3. T = {}
  <2> SUFFICES ASSUME T # {} PROVE FALSE
      OBVIOUS
  <2>1. PICK m \in T : \A y \in T : m <= y
    <3> HIDE DEF T
    <3>1. T \subseteq Nat
        BY DEF T
    <3> QED
        BY <3>1, LeastOf
  <2>2. m # 0
      BY <1>1, <2>1
  <2>3. m \in Nat /\ m - 1 \in Nat /\ ~(m <= m - 1)
      BY <2>1, <2>2
  <2>3a. m - 1 \notin T
      BY <2>1, <2>3
  <2>4. PICK f : Solves(f, m - 1)
      BY <2>3, <2>3a
  <2> HIDE DEF Solves, Round
  <2>5. Solves(Round(f), (m - 1) + 1)
      BY <1>2, <2>3, <2>4
  <2>6. (m - 1) + 1 = m
      BY <2>1
  <2> QED
      BY <2>1, <2>5, <2>6
<1>4. PICK f : Solves(f, Len(buf))
    BY <1>0, <1>3
<1> DEFINE g == Round(f)
<1>5. \A q \in Nat : g[q] = f[q]
    BY <1>0, <1>4
<1> HIDE DEF g
<1>6. \A pos \in Nat : SkipStep(buf, pos, f) = SkipStep(buf, pos, g)
    BY <1>5, SkipLocal
<1>7. g = [pos \in Nat |-> SkipStep(buf, pos, g)]
    BY <1>6 DEF g
<1> QED
    BY <1>7

\* So the chosen one does.
LEMMA SkipEquation ==
    ASSUME NEW buf \in Seq(Byte)
    PROVE  \A pos \in Nat : SkipFrom(buf)[pos] = SkipStep(buf, pos, SkipFrom(buf))
<1>1. SkipFrom(buf) = CHOOSE f : f = [pos \in Nat |-> SkipStep(buf, pos, f)]
    BY DEF SkipFrom
<1>2. SkipFrom(buf) = [pos \in Nat |-> SkipStep(buf, pos, SkipFrom(buf))]
    BY <1>1, SkipSolved, Zenon
<1> HIDE DEF SkipFrom
<1> QED
    BY <1>2

\* The largest element of a set of numbers below n.
LEMMA LargestOf ==
    ASSUME NEW n \in Nat, NEW S, S # {}, \A i \in S : i \in Nat /\ i <= n
    PROVE  \E m \in S : \A y \in S : y <= m
<1> DEFINE T == {n - i : i \in S}
<1>1. T \subseteq Nat /\ T # {}
    OBVIOUS
<1>2. PICK k \in T : \A y \in T : k <= y
  <2> HIDE DEF T
  <2> QED
      BY <1>1, LeastOf
<1>3. PICK m \in S : k = n - m
    OBVIOUS
<1>4. ASSUME NEW y \in S PROVE y <= m
  <2>1. k <= n - y
      BY <1>2
  <2> QED
      BY <1>3, <2>1
<1> QED
    BY <1>4

\* Where a name that starts at pos can end.
EndsIn(buf, pos, end) == end = Broken \/ (end \in Nat /\ pos < end /\ end <= Len(buf))

LEMMA Onwards == \A m \in Nat, n \in 1..63 : m + 1 + n \in Nat /\ ~(m + 1 + n <= m)
OBVIOUS

LEMMA EndsOnwards ==
    \A buf, end : \A m \in Nat, n \in 1..63 :
        EndsIn(buf, m + 1 + n, end) => EndsIn(buf, m, end)
  BY DEF EndsIn

\* A name that can be skipped ends behind its start and inside the message.
LEMMA SkipEnds ==
    ASSUME NEW buf \in Seq(Byte)
    PROVE  \A pos \in Nat : EndsIn(buf, pos, SkipFrom(buf)[pos])
<1> DEFINE skip == SkipFrom(buf)
           Bad == {pos \in Nat : ~EndsIn(buf, pos, skip[pos])}
<1>0. Len(buf) \in Nat
    OBVIOUS
<1>1. \A pos \in Nat : skip[pos] = SkipStep(buf, pos, skip)
    BY SkipEquation
<1> HIDE DEF skip
<1>2. \A pos \in Bad : pos \in Nat /\ pos <= Len(buf)
    BY <1>0, <1>1 DEF SkipStep, Has, EndsIn
<1>3. Bad = {}
  <2> SUFFICES ASSUME Bad # {} PROVE FALSE
      OBVIOUS
  <2>1. PICK m \in Bad : \A y \in Bad : y <= m
    <3> HIDE DEF Bad
    <3> QED
        BY <1>0, <1>2, LargestOf
  <2>2. m \in Nat /\ Has(buf, m) /\ ~EndsIn(buf, m, skip[m])
      BY <1>1 DEF SkipStep, EndsIn
  <2> HIDE DEF Bad
  <2> DEFINE len == At(buf, m)
  <2>3. skip[m] = SkipStep(buf, m, skip)
      BY <1>1, <2>2
  <2>4. SkipCase(buf, m, skip, skip[m]) /\ Kind(len)
      BY <2>2, <2>3, SkipCases, ByteAt
  <2>5. CASE len \in 1..63 /\ ~(m + 1 + len > Len(buf))
    <3>1. m + 1 + len \in Nat /\ ~(m + 1 + len <= m)
        BY <2>2, <2>5, Onwards, Zenon
    <3>2. EndsIn(buf, m + 1 + len, skip[m + 1 + len])
        BY <2>1, <3>1 DEF Bad
    <3>3. skip[m] = skip[m + 1 + len]
        BY <2>4, <2>5 DEF SkipCase
    <3>4. EndsIn(buf, m + 1 + len, skip[m])
        BY <3>2, <3>3
    <3> QED
        BY <2>2, <2>5, <3>4, EndsOnwards, Zenon
  <2>6. CASE len \in 1..63 /\ m + 1 + len > Len(buf)
    <3>1. skip[m] = Broken
        BY <2>4, <2>6 DEF SkipCase
    <3> QED
        BY <2>2, <3>1 DEF EndsIn
  <2>7. CASE len = 0
    <3>1. skip[m] = m + 1
        BY <2>4, <2>7 DEF SkipCase
    <3> QED
        BY <1>0, <2>2, <3>1 DEF EndsIn, Has
  <2>8. CASE len \in 64..191
    <3>1. skip[m] = Broken
        BY <2>4, <2>8 DEF SkipCase
    <3> QED
        BY <2>2, <3>1 DEF EndsIn
  <2>9. CASE len \in 192..255
    <3>1. skip[m] = IF m + 2 > Len(buf) THEN Broken ELSE m + 2
        BY <2>4, <2>9 DEF SkipCase
    <3> QED
        BY <1>0, <2>2, <3>1 DEF EndsIn
  <2> QED
      BY <2>4, <2>5, <2>6, <2>7, <2>8, <2>9 DEF Kind
<1> QED
    BY <1>3 DEF skip

\* A round asks only for places with one more jump.
LEMMA ParseLocal ==
    ASSUME NEW buf \in Seq(Byte), NEW at \in Spots, NEW f, NEW g,
           \A b \in Spots : b.jumps = at.jumps + 1 => f[b] = g[b]
    PROVE  ParseStep(buf, at, f) = ParseStep(buf, at, g)
<1> DEFINE pos == at.pos
<1>0. at.jumps \in Nat /\ pos \in Nat
    BY DEF Spots
<1>1. CASE ~Has(buf, pos)
    BY <1>1 DEF ParseStep
<1>2. CASE Has(buf, pos)
  <2>1. PICK len \in 0..255 : len = At(buf, pos)
    <3>1. pos + 1 \in 1..Len(buf)
        BY <1>0, <1>2 DEF Has
    <3>2. buf[pos + 1] \in Byte
        BY <3>1
    <3> QED
        BY <3>2 DEF At, Byte
  <2>2. CASE len \in 1..63
    <3> DEFINE b == Spot(at.jumps + 1, pos + 1 + len)
    <3>0. at.jumps + 1 \in Nat /\ pos + 1 + len \in Nat
      <4> HIDE DEF pos
      <4> QED
        BY <1>0, <2>2
    <3>1. b \in Spots /\ b.jumps = at.jumps + 1
        BY <1>0, <3>0 DEF Spots, Spot
    <3>2. f[b] = g[b]
        BY <3>1
    <3> QED
        BY <2>1, <2>2, <3>2 DEF ParseStep, Label
  <2>3. CASE Has(buf, pos + 1) /\ len >= Pointer
    <3>1. PICK byte \in 0..255 : byte = At(buf, pos + 1)
      <4>1. pos + 1 + 1 \in 1..Len(buf)
          BY <1>0, <2>3 DEF Has
      <4>2. buf[pos + 1 + 1] \in Byte
          BY <4>1
      <4> QED
          BY <4>2 DEF At, Byte
    <3>2. Target(len, byte) \in Nat
      <4>1. PICK far \in 0..63 : far = len - 192
          BY <2>3 DEF Pointer
      <4>2. far * 256 + byte \in Nat
          OBVIOUS
      <4>3. Target(len, byte) = far * 256 + byte
          BY <4>1 DEF Target, Pointer
      <4> QED
          BY <4>2, <4>3
    <3> DEFINE b == Spot(at.jumps + 1, Target(len, byte))
    <3>3. b \in Spots /\ b.jumps = at.jumps + 1
        BY <1>0, <3>2 DEF Spots, Spot
    <3>4. f[b] = g[b]
        BY <3>3
    <3>5. len # 0 /\ len \notin Label /\ len \notin Reserved
        BY <2>3 DEF Pointer, Label, Reserved
    <3>6. ASSUME NEW h PROVE ParseStep(buf, at, h) =
             IF at.jumps >= MaxJumps THEN Refused ELSE h[b]
      <4> HIDE DEF b
      <4> QED
        BY <1>2, <2>1, <2>3, <3>1, <3>5 DEF ParseStep, b
    <3> QED
        BY <3>4, <3>6
  <2>4. CASE len \notin 1..63 /\ ~(Has(buf, pos + 1) /\ len >= Pointer)
    <3>1. len = 0 \/ len \in Reserved \/ len >= Pointer
        BY <2>4 DEF Reserved, Pointer
    <3>2. len \notin Label
        BY <2>4 DEF Label
    <3> QED
        BY <2>1, <2>4, <3>1, <3>2 DEF ParseStep
  <2> QED
      BY <2>1, <2>2, <2>3, <2>4 DEF Pointer
<1> QED
    BY <1>1, <1>2

\* Some function satisfies the definition of parse: by rounds from the last jump.
LEMMA ParseSolved ==
    ASSUME NEW buf \in Seq(Byte)
    PROVE  \E f : f = [at \in Spots |-> ParseStep(buf, at, f)]
<1> DEFINE Solves(f, n) == \A at \in Spots :
                               at.jumps + n >= MaxJumps => f[at] = ParseStep(buf, at, f)
           Round(f) == [at \in Spots |-> ParseStep(buf, at, f)]
           T == {n \in Nat : ~\E f : Solves(f, n)}
<1>0. MaxJumps \in Nat /\ \A at \in Spots : at.jumps \in Nat
    BY ResponsesAssumption DEF Spots
<1>1. \E f : Solves(f, 0)
  <2> DEFINE g == [at \in Spots |-> Refused]
  <2>1. Solves(g, 0)
      BY <1>0 DEF ParseStep
  <2> QED
      BY <2>1
<1>2. ASSUME NEW n \in Nat, NEW f, Solves(f, n)
      PROVE  Solves(Round(f), n + 1)
  <2> SUFFICES ASSUME NEW at \in Spots, at.jumps + (n + 1) >= MaxJumps
               PROVE  Round(f)[at] = ParseStep(buf, at, Round(f))
      OBVIOUS
  <2> DEFINE g == Round(f)
  <2>1. \A b \in Spots : g[b] = ParseStep(buf, b, f)
      OBVIOUS
  <2>2. \A b \in Spots : b.jumps = at.jumps + 1 => f[b] = g[b]
      BY <1>0, <1>2, <2>1
  <2> HIDE DEF g
  <2>3. ParseStep(buf, at, f) = ParseStep(buf, at, g)
      BY <2>2, ParseLocal
  <2> QED
      BY <2>1, <2>3 DEF g
<1>3. T = {}
  <2> SUFFICES ASSUME T # {} PROVE FALSE
      OBVIOUS
  <2>1. PICK m \in T : \A y \in T : m <= y
    <3> HIDE DEF T
    <3>1. T \subseteq Nat
        BY DEF T
    <3> QED
        BY <3>1, LeastOf
  <2>2. m # 0
      BY <1>1, <2>1
  <2>3. m \in Nat /\ m - 1 \in Nat /\ ~(m <= m - 1)
      BY <2>1, <2>2
  <2>4. m - 1 \notin T
      BY <2>1, <2>3
  <2>5. PICK f : Solves(f, m - 1)
      BY <2>3, <2>4
  <2> HIDE DEF Solves, Round
  <2>6. Solves(Round(f), (m - 1) + 1)
      BY <1>2, <2>3, <2>5
  <2>7. (m - 1) + 1 = m
      BY <2>3
  <2> QED
      BY <2>1, <2>6, <2>7
<1>4. PICK f : Solves(f, MaxJumps)
    BY <1>0, <1>3
<1> DEFINE g == Round(f)
<1>5. \A b \in Spots : g[b] = f[b]
    BY <1>0, <1>4
<1> HIDE DEF g
<1>6. \A at \in Spots : ParseStep(buf, at, f) = ParseStep(buf, at, g)
    BY <1>5, ParseLocal
<1>7. g = [at \in Spots |-> ParseStep(buf, at, g)]
    BY <1>6 DEF g
<1> QED
    BY <1>7

\* So the chosen one does.
LEMMA ParseEquation ==
    ASSUME NEW buf \in Seq(Byte)
    PROVE  \A at \in Spots : ParseFrom(buf)[at] = ParseStep(buf, at, ParseFrom(buf))
<1>1. ParseFrom(buf) = CHOOSE f : f = [at \in Spots |-> ParseStep(buf, at, f)]
    BY DEF ParseFrom
<1>2. ParseFrom(buf) = [at \in Spots |-> ParseStep(buf, at, ParseFrom(buf))]
    BY <1>1, ParseSolved, Zenon
<1> HIDE DEF ParseFrom
<1> QED
    BY <1>2

\* A name read with some jumps behind it: labels of 1 to 63 bytes, one for each
\* jump that was left at most.
LabelBytesSet == {l \in Seq(Byte) : Len(l) \in 1..63}
ShortName(name, jumps) ==
    name = Refused \/ \E v \in Seq(LabelBytesSet) : name = Found(v) /\ jumps + Len(v) <= MaxJumps

LEMMA SliceTells ==
    ASSUME NEW buf \in Seq(Byte), NEW from \in Nat, NEW len \in 1..63,
           from + len <= Len(buf)
    PROVE  Slice(buf, from, from + len) \in LabelBytesSet
<1>1. Slice(buf, from, from + len) = SubSeq(buf, from + 1, from + len)
    BY DEF Slice
<1>2. from + 1 \in 1..Len(buf) /\ from + len \in 1..Len(buf) /\ from + 1 <= from + len
    OBVIOUS
<1>3. /\ SubSeq(buf, from + 1, from + len) \in Seq(Byte)
      /\ Len(SubSeq(buf, from + 1, from + len)) = (from + len) - (from + 1) + 1
    BY <1>2, SubSeqProperties
<1>4. (from + len) - (from + 1) + 1 = len
    OBVIOUS
<1> QED
    BY <1>1, <1>3, <1>4 DEF LabelBytesSet

LEMMA OneLabelMore ==
    ASSUME NEW l \in LabelBytesSet, NEW j \in Nat, NEW name, ShortName(name, j + 1)
    PROVE  ShortName(Labelled(l, name), j)
<1>1. CASE name = Refused
    BY <1>1 DEF Labelled, Refused, ShortName
<1>2. CASE \E v \in Seq(LabelBytesSet) : name = Found(v) /\ j + 1 + Len(v) <= MaxJumps
  <2>1. PICK v \in Seq(LabelBytesSet) : name = Found(v) /\ j + 1 + Len(v) <= MaxJumps
      BY <1>2
  <2>2. <<l>> \o v \in Seq(LabelBytesSet) /\ Len(<<l>> \o v) = 1 + Len(v) /\ Len(v) \in Nat
      BY ConcatProperties
  <2>3. Labelled(l, name) = Found(<<l>> \o v)
      BY <2>1 DEF Labelled, Found
  <2>4. j + Len(<<l>> \o v) <= MaxJumps
      BY <2>1, <2>2, ResponsesAssumption
  <2> QED
      BY <2>2, <2>3, <2>4 DEF ShortName
<1> QED
    BY <1>1, <1>2 DEF ShortName

LEMMA ParseIsShort ==
    ASSUME NEW buf \in Seq(Byte)
    PROVE  \A at \in Spots : ShortName(ParseFrom(buf)[at], at.jumps)
<1> DEFINE parse == ParseFrom(buf)
           Fits(at) == ShortName(parse[at], at.jumps)
           Bad == {j \in Nat : \E at \in Spots : at.jumps = j /\ ~Fits(at)}
<1>0. MaxJumps \in Nat /\ \A at \in Spots : at.jumps \in Nat /\ at.pos \in Nat
    BY ResponsesAssumption DEF Spots
<1>1. \A at \in Spots : parse[at] = ParseStep(buf, at, parse)
    BY ParseEquation
<1> HIDE DEF parse
<1>2. \A j : ShortName(Refused, j)
    BY DEF ShortName
<1>3. \A at \in Spots : at.jumps >= MaxJumps => Fits(at)
    BY <1>1, <1>2 DEF ParseStep
<1>4. \A j \in Bad : j \in Nat /\ j <= MaxJumps
    BY <1>0, <1>3
<1>5. Bad = {}
  <2> SUFFICES ASSUME Bad # {} PROVE FALSE
      OBVIOUS
  <2>1. PICK j \in Bad : \A i \in Bad : i <= j
    <3> HIDE DEF Bad
    <3> QED
        BY <1>0, <1>4, LargestOf
  <2>2. PICK at \in Spots : at.jumps = j /\ ~Fits(at)
      OBVIOUS
  <2> DEFINE pos == at.pos
  <2>3. j \in Nat /\ pos \in Nat /\ at.jumps = j
      BY <1>0, <2>2
  <2>4. \A b \in Spots : b.jumps = j + 1 => Fits(b)
    <3>1. j + 1 \in Nat /\ ~(j + 1 <= j)
        BY <2>3
    <3>2. j + 1 \notin Bad
        BY <2>1, <3>1
    <3> QED
        BY <3>1, <3>2
  <2>5. ~ShortName(parse[at], j)
      BY <2>2
  <2> HIDE DEF Bad
  <2>6. parse[at] # Refused
      BY <1>2, <2>5
  <2>7. j < MaxJumps /\ Has(buf, pos)
    <3>1. parse[at] = ParseStep(buf, at, parse)
        BY <1>1
    <3> QED
        BY <2>3, <2>6, <3>1, ParseStops
  <2> DEFINE len == At(buf, pos)
             label == Slice(buf, pos + 1, pos + 1 + len)
             behind == Spot(j + 1, pos + 1 + len)
             there == Spot(j + 1, Target(len, At(buf, pos + 1)))
  <2>8. /\ len = 0 => parse[at] = Found(<<>>)
        /\ len \in 1..63 =>
              parse[at] = IF pos + 1 + len > Len(buf) THEN Refused
                          ELSE Labelled(label, parse[behind])
        /\ len \in 64..191 => parse[at] = Refused
        /\ len \in 192..255 =>
              parse[at] = IF ~Has(buf, pos + 1) THEN Refused ELSE parse[there]
    <3>1. ParseCase(buf, at, parse, parse[at])
        BY <1>1, <2>3, <2>7, ParseCases
    <3> QED
        BY <2>3, <3>1 DEF ParseCase
  <2>9. Kind(len)
      BY <2>3, <2>7, ByteAt
  <2>10. CASE len = 0
    <3>1. <<>> \in Seq(LabelBytesSet) /\ Len(<<>>) = 0
        OBVIOUS
    <3>2. j + Len(<<>>) <= MaxJumps
        BY <1>0, <2>3, <2>7, <3>1
    <3>3. parse[at] = Found(<<>>)
        BY <2>8, <2>10
    <3> QED
        BY <2>5, <3>1, <3>2, <3>3 DEF ShortName
  <2>11. CASE len \in 1..63
    <3>1. PICK n \in 1..63 : n = len
        BY <2>11
    <3>2. ~(pos + 1 + n > Len(buf)) /\ parse[at] = Labelled(label, parse[behind])
        BY <2>6, <2>8, <2>11, <3>1
    <3>3. label \in LabelBytesSet
      <4>1. pos + 1 \in Nat /\ pos + 1 + n <= Len(buf)
          BY <2>3, <3>2
      <4>2. Slice(buf, pos + 1, pos + 1 + n) \in LabelBytesSet
          BY <4>1, SliceTells
      <4> QED
          BY <3>1, <4>2
    <3>4. behind \in Spots /\ behind.jumps = j + 1
      <4>1. j + 1 \in Nat /\ pos + 1 + n \in Nat
          BY <2>3
      <4> QED
          BY <3>1, <4>1 DEF Spot, Spots
    <3>5. ShortName(parse[behind], j + 1)
        BY <2>4, <3>4
    <3> HIDE DEF label, behind
    <3>6. ShortName(Labelled(label, parse[behind]), j)
        BY <2>3, <3>3, <3>5, OneLabelMore
    <3> QED
        BY <2>5, <3>2, <3>6
  <2>12. CASE len \in 192..255
    <3>1. Has(buf, pos + 1) /\ parse[at] = parse[there]
        BY <2>6, <2>8, <2>12
    <3>2. there \in Spots /\ there.jumps = j + 1
      <4>1. pos + 1 \in Nat /\ j + 1 \in Nat
          BY <2>3
      <4>2. PICK byte \in 0..255 : byte = At(buf, pos + 1)
          BY <3>1, <4>1, ByteAt
      <4>3. PICK n \in 192..255 : n = len
          BY <2>12
      <4>4. Target(n, byte) \in Nat
        <5>1. (n - 192) * 256 \in Nat
            OBVIOUS
        <5> QED
            BY <5>1 DEF Target, Pointer
      <4> QED
          BY <4>1, <4>2, <4>3, <4>4 DEF Spot, Spots
    <3>3. ShortName(parse[there], j + 1)
        BY <2>4, <3>2
    <3> HIDE DEF there
    <3>4. ShortName(parse[there], j)
      <4>1. \A v \in Seq(LabelBytesSet) :
                j + 1 + Len(v) <= MaxJumps => j + Len(v) <= MaxJumps
          BY <1>0, <2>3
      <4> QED
          BY <3>3, <4>1 DEF ShortName
    <3> QED
        BY <2>5, <3>1, <3>4
  <2>13. CASE len \in 64..191
      BY <2>6, <2>8, <2>13
  <2> QED
      BY <2>9, <2>10, <2>11, <2>12, <2>13 DEF Kind
<1>6. \A at \in Spots : Fits(at)
    BY <1>0, <1>5
<1> QED
    BY <1>6 DEF parse

\* dns.rs parse_name on any message: the pointers are not followed for ever, and
\* what is taken for a label lies in the message and is as long as a label can be.
THEOREM NamesEnd ==
    ASSUME NEW buf \in Seq(Byte), NEW start \in Nat
    PROVE  \/ ParseName(buf, start) = Refused
           \/ \E v \in Seq(LabelBytesSet) :
                 ParseName(buf, start) = Found(v) /\ Len(v) <= MaxJumps
<1> DEFINE at == Spot(0, start)
<1>1. at \in Spots /\ at.jumps = 0
    BY DEF Spot, Spots
<1>2. ParseName(buf, start) = ParseFrom(buf)[at]
    BY DEF ParseName
<1> HIDE DEF at
<1>3. ShortName(ParseFrom(buf)[at], 0)
    BY <1>1, ParseIsShort
<1>4. \A v \in Seq(LabelBytesSet) : 0 + Len(v) = Len(v)
    OBVIOUS
<1> QED
    BY <1>2, <1>3, <1>4 DEF ShortName

-----------------------------------------------------------------------------
(* Recursions on numbers, for the records of a response and the statistics  *)
(* of the ping mode.                                                       *)

\* Induction on numbers up to n, with the set of those that are reached.
LEMMA Reached ==
    ASSUME NEW n \in Nat, NEW P, 0 \in P, \A i \in 1..n : i - 1 \in P => i \in P
    PROVE  \A i \in 0..n : i \in P
<1> DEFINE T == {i \in 0..n : i \notin P}
<1>1. CASE T = {}
    BY <1>1
<1>2. CASE T # {}
  <2>1. T \subseteq Nat
      OBVIOUS
  <2>2. PICK m \in T : \A y \in T : m <= y
    <3> HIDE DEF T
    <3> QED
        BY <1>2, <2>1, LeastOf
  <2>3. m \in 1..n /\ m - 1 \in 0..n /\ ~(m <= m - 1)
      BY <2>2
  <2>4. m - 1 \in P
      BY <2>2, <2>3
  <2> QED
      BY <2>2, <2>3, <2>4
<1> QED
    BY <1>1, <1>2

\* A recursion on the numbers up to n, in S: what a round makes of the result of
\* the one before; and a function that satisfies it.
Rounds(n, S, round) == \A i \in 1..n : \A x \in S : round[i][x] \in S
Follows(f, n, S, base, round) ==
    /\ f \in [0..n -> S] /\ f[0] = base
    /\ \A i \in 1..n : f[i] = round[i][f[i - 1]]

LEMMA Recursion ==
    ASSUME NEW n \in Nat, NEW S, NEW base \in S, NEW round, Rounds(n, S, round)
    PROVE  \E f : Follows(f, n, S, base, round)
<1> DEFINE Solves(f, m) == Follows(f, m, S, base, round)
           P == {m \in 0..n : \E f : Solves(f, m)}
<1> USE DEF Follows, Rounds
<1>1. 0 \in P
  <2> DEFINE g == [i \in 0..0 |-> base]
  <2>1. Solves(g, 0)
      OBVIOUS
  <2>2. \E f : Solves(f, 0)
      BY <2>1
  <2> HIDE DEF Solves
  <2> QED
      BY <2>2
<1>2. ASSUME NEW m \in 1..n, m - 1 \in P PROVE m \in P
  <2>1. PICK f : Solves(f, m - 1)
      BY <1>2
  <2> DEFINE g == [i \in 0..m |-> IF i = m THEN round[m][f[m - 1]] ELSE f[i]]
  <2>2. round[m][f[m - 1]] \in S
      BY <2>1
  <2>3. g \in [0..m -> S]
      BY <2>1, <2>2
  <2>4. \A i \in 0..(m - 1) : g[i] = f[i]
      OBVIOUS
  <2>5. g[m] = round[m][f[m - 1]] /\ 0 \in 0..(m - 1) /\ m - 1 \in 0..(m - 1)
      OBVIOUS
  <2>6. ASSUME NEW i \in 1..m PROVE g[i] = round[i][g[i - 1]]
    <3>1. CASE i = m
        BY <2>4, <2>5, <3>1
    <3>2. CASE i # m
      <4>1. i \in 1..(m - 1) /\ i \in 0..(m - 1) /\ i - 1 \in 0..(m - 1)
          BY <3>2
      <4> HIDE DEF g
      <4> QED
          BY <2>1, <2>4, <4>1
    <3> QED
        BY <3>1, <3>2
  <2>7. g[0] = base
      BY <2>1, <2>4, <2>5
  <2>8. Solves(g, m)
    <3> HIDE DEF g
    <3> QED
      BY <2>3, <2>6, <2>7
  <2>9. \E h : Solves(h, m)
      BY <2>8
  <2> HIDE DEF Solves
  <2> QED
      BY <2>9
<1>3. n \in P
  <2> HIDE DEF P
  <2>1. \A i \in 0..n : i \in P
      BY <1>1, <1>2, Reached
  <2> QED
      BY <2>1
<1> QED
    BY <1>3

-----------------------------------------------------------------------------
(* The records of a response.                                              *)

LEMMA WordTells ==
    ASSUME NEW buf \in Seq(Byte), NEW pos \in Nat, pos + 2 <= Len(buf)
    PROVE  Word(buf, pos) \in Nat
<1>1. pos + 1 \in 1..Len(buf) /\ pos + 1 + 1 \in 1..Len(buf)
    OBVIOUS
<1>2. buf[pos + 1] \in Byte /\ buf[pos + 1 + 1] \in Byte
    BY <1>1
<1>3. PICK a \in 0..255, b \in 0..255 : a = buf[pos + 1] /\ b = buf[pos + 1 + 1]
    BY <1>2 DEF Byte
<1>4. a * 256 + b \in Nat
    OBVIOUS
<1>5. Word(buf, pos) = a * 256 + b
    BY <1>3 DEF Word, At
<1> QED
    BY <1>4, <1>5

\* Where a section can end.
SectionEnds(buf) == {Broken} \union HeaderSize..Len(buf)

LEMMA QuestionInside ==
    ASSUME NEW buf \in Seq(Byte), NEW pos \in HeaderSize..Len(buf)
    PROVE  QuestionEnd(buf, pos) \in SectionEnds(buf)
<1> DEFINE name == SkipName(buf, pos)
<1>1. pos \in Nat /\ HeaderSize <= pos /\ Len(buf) \in Nat
    BY DEF HeaderSize
<1>2. EndsIn(buf, pos, name)
    BY <1>1, SkipEnds DEF SkipName
<1> HIDE DEF name
<1>3. CASE name = Broken \/ name + 4 > Len(buf)
    BY <1>3 DEF QuestionEnd, name, SectionEnds
<1>4. CASE ~(name = Broken \/ name + 4 > Len(buf))
  <2>1. name \in Nat /\ pos < name /\ name + 4 <= Len(buf)
      BY <1>1, <1>2, <1>4 DEF EndsIn
  <2>2. name + 4 \in HeaderSize..Len(buf)
      BY <1>1, <2>1 DEF HeaderSize
  <2>3. QuestionEnd(buf, pos) = name + 4
      BY <1>4 DEF QuestionEnd, name
  <2> QED
      BY <2>2, <2>3 DEF SectionEnds
<1> QED
    BY <1>3, <1>4

\* A record whose end is known: its fixed bytes and its data are in the message.
Inside(buf, pos, r) ==
    r.end # Broken => /\ r.data \in Nat /\ r.end \in Nat
                      /\ pos + 1 + Fixed <= r.data /\ r.data <= r.end /\ r.end <= Len(buf)

LEMMA RecordInside ==
    ASSUME NEW buf \in Seq(Byte), NEW pos \in HeaderSize..Len(buf)
    PROVE  Inside(buf, pos, RecordAt(buf, pos)) /\ RecordAt(buf, pos).end \in SectionEnds(buf)
<1> DEFINE name == SkipName(buf, pos)
           data == name + Fixed
           end == data + Word(buf, data - 2)
<1>1. pos \in Nat /\ HeaderSize <= pos /\ Len(buf) \in Nat
    BY DEF HeaderSize
<1>2. EndsIn(buf, pos, name)
    BY <1>1, SkipEnds DEF SkipName
<1>3. CASE name = Broken \/ data > Len(buf)
  <2>1. RecordAt(buf, pos) = NoRecord
      BY <1>3 DEF RecordAt
  <2> QED
      BY <2>1 DEF NoRecord, Inside, SectionEnds
<1>4. CASE ~(name = Broken \/ data > Len(buf))
  <2>1. name \in Nat /\ pos + 1 <= name /\ name + 10 <= Len(buf)
    <3> HIDE DEF name
    <3> QED
        BY <1>1, <1>2, <1>4 DEF EndsIn, Fixed
  <2>2. data \in Nat /\ data - 2 \in Nat /\ (data - 2) + 2 <= Len(buf)
        /\ data <= Len(buf) /\ pos + 1 + Fixed <= data /\ HeaderSize <= data
    <3> HIDE DEF name
    <3> QED
        BY <1>1, <2>1 DEF Fixed, HeaderSize
  <2>3. Word(buf, data - 2) \in Nat
    <3> HIDE DEF data
    <3> QED
        BY <2>2, WordTells
  <2>4. end \in Nat /\ data <= end
    <3> HIDE DEF data
    <3> QED
        BY <2>2, <2>3
  <2>5. RecordAt(buf, pos) =
           IF end > Len(buf) THEN NoRecord
           ELSE [type |-> Word(buf, name), data |-> data, end |-> end]
      BY <1>4 DEF RecordAt
  <2> HIDE DEF name, data, end
  <2>6. CASE end > Len(buf)
      BY <2>5, <2>6 DEF NoRecord, Inside, SectionEnds
  <2>7. CASE ~(end > Len(buf))
    <3>1. end \in HeaderSize..Len(buf)
        BY <1>1, <2>2, <2>4, <2>7 DEF HeaderSize
    <3> QED
        BY <2>2, <2>4, <2>5, <2>7, <3>1 DEF Inside, SectionEnds
  <2> QED
      BY <2>6, <2>7
<1> QED
    BY <1>3, <1>4

\* The ends of the questions, one after the other.
NextEnd(buf, end) == IF end = Broken THEN Broken ELSE QuestionEnd(buf, end)
QuestionsEqn(buf, f) ==
    f = [k \in 0..Word(buf, 4) |->
            IF k = 0 THEN HeaderSize
            ELSE IF f[k - 1] = Broken THEN Broken ELSE QuestionEnd(buf, f[k - 1])]

LEMMA QuestionsInside ==
    ASSUME NEW buf \in Seq(Byte), HeaderSize <= Len(buf)
    PROVE  AnswerStart(buf) \in SectionEnds(buf)
<1> DEFINE n == Word(buf, 4)
           round == [i \in 1..n |-> [x \in SectionEnds(buf) |-> NextEnd(buf, x)]]
           g == QuestionEnds(buf)
<1>1. n \in Nat
    BY WordTells DEF HeaderSize
<1>2. \A x \in SectionEnds(buf) : NextEnd(buf, x) \in SectionEnds(buf)
    BY QuestionInside DEF NextEnd, SectionEnds
<1>3. HeaderSize \in SectionEnds(buf)
    BY DEF SectionEnds, HeaderSize
<1>4. PICK f : /\ f \in [0..n -> SectionEnds(buf)] /\ f[0] = HeaderSize
               /\ \A i \in 1..n : f[i] = round[i][f[i - 1]]
  <2>1. Rounds(n, SectionEnds(buf), round)
      BY <1>2 DEF Rounds
  <2> HIDE DEF n, round
  <2>2. \E f : Follows(f, n, SectionEnds(buf), HeaderSize, round)
      BY <1>1, <1>3, <2>1, Recursion
  <2> QED
      BY <2>2 DEF Follows
<1>5. ASSUME NEW i \in 1..n PROVE f[i] = NextEnd(buf, f[i - 1])
  <2>1. i - 1 \in 0..n
      BY <1>1
  <2> QED
      BY <1>4, <2>1
<1>6. QuestionsEqn(buf, f)
  <2>1. \A i \in 0..n : f[i] = IF i = 0 THEN HeaderSize
             ELSE IF f[i - 1] = Broken THEN Broken ELSE QuestionEnd(buf, f[i - 1])
      BY <1>1, <1>4, <1>5 DEF NextEnd
  <2> QED
      BY <1>4, <2>1 DEF QuestionsEqn
<1>7. QuestionEnds(buf) = CHOOSE h : QuestionsEqn(buf, h)
    BY DEF QuestionEnds, QuestionsEqn
<1>8. QuestionsEqn(buf, g)
    BY <1>6, <1>7
<1>9. DOMAIN g = 0..n /\ g[0] = HeaderSize /\ \A i \in 1..n : g[i] = NextEnd(buf, g[i - 1])
  <2>1. /\ DOMAIN g = 0..n
        /\ \A i \in 0..n : g[i] = IF i = 0 THEN HeaderSize
              ELSE IF g[i - 1] = Broken THEN Broken ELSE QuestionEnd(buf, g[i - 1])
    <3> HIDE DEF g
    <3> QED
        BY <1>8 DEF QuestionsEqn
  <2>2. 0 \in 0..n /\ \A i \in 1..n : i \in 0..n /\ i # 0
      BY <1>1
  <2> HIDE DEF n, g
  <2> QED
      BY <2>1, <2>2 DEF NextEnd
<1> HIDE DEF n, g
<1>10. \A i \in 0..n : i \in {j \in 0..n : g[j] \in SectionEnds(buf)}
  <2> DEFINE P == {j \in 0..n : g[j] \in SectionEnds(buf)}
  <2>1. 0 \in P
      BY <1>1, <1>3, <1>9
  <2>2. \A i \in 1..n : i - 1 \in P => i \in P
      BY <1>2, <1>9
  <2> HIDE DEF P
  <2> QED
      BY <1>1, <2>1, <2>2, Reached DEF P
<1>11. AnswerStart(buf) = g[n]
  <2>1. ~(Len(buf) < HeaderSize)
      BY DEF HeaderSize
  <2> QED
      BY <2>1 DEF AnswerStart, g, n
<1> QED
    BY <1>1, <1>10, <1>11

\* The records, one after the other.
NextRecord(buf, r) == IF r.end = Broken THEN NoRecord ELSE RecordAt(buf, r.end)
RecordsEqn(buf, start, f) ==
    f = [k \in 0..Word(buf, 6) |->
            IF k = 0 THEN [NoRecord EXCEPT !.end = start]
            ELSE IF f[k - 1].end = Broken THEN NoRecord ELSE RecordAt(buf, f[k - 1].end)]

LEMMA RecordsFollow ==
    ASSUME NEW buf \in Seq(Byte), HeaderSize <= Len(buf), NEW start \in HeaderSize..Len(buf)
    PROVE  LET read == ReadRecords(buf, start) IN
           /\ Word(buf, 6) \in Nat
           /\ read[0].end = start
           /\ \A k \in 1..Word(buf, 6) : read[k] = NextRecord(buf, read[k - 1])
           /\ \A k \in 0..Word(buf, 6) : read[k].end \in SectionEnds(buf)
<1> DEFINE n == Word(buf, 6)
           base == [NoRecord EXCEPT !.end = start]
           S == {base, NoRecord} \union {RecordAt(buf, pos) : pos \in HeaderSize..Len(buf)}
           round == [i \in 1..n |-> [r \in S |-> NextRecord(buf, r)]]
           g == ReadRecords(buf, start)
<1>1. n \in Nat
    BY WordTells DEF HeaderSize
<1>2. base.end = start /\ start \in SectionEnds(buf) /\ NoRecord.end = Broken
    BY DEF SectionEnds, NoRecord
<1>3. \A r \in S : r.end \in SectionEnds(buf)
    BY <1>2, RecordInside DEF SectionEnds
<1>4. \A r \in S : NextRecord(buf, r) \in S
    BY <1>3 DEF NextRecord, SectionEnds
<1>5. PICK f : /\ f \in [0..n -> S] /\ f[0] = base
               /\ \A i \in 1..n : f[i] = round[i][f[i - 1]]
  <2>1. Rounds(n, S, round) /\ base \in S
      BY <1>4 DEF Rounds
  <2> HIDE DEF n, round, S, base
  <2>2. \E f : Follows(f, n, S, base, round)
      BY <1>1, <2>1, Recursion
  <2> QED
      BY <2>2 DEF Follows
<1> HIDE DEF S
<1>6. ASSUME NEW i \in 1..n PROVE f[i] = NextRecord(buf, f[i - 1])
  <2>1. i - 1 \in 0..n
      BY <1>1
  <2> QED
      BY <1>5, <2>1
<1>7. RecordsEqn(buf, start, f)
  <2>1. \A i \in 0..n : f[i] = IF i = 0 THEN base
             ELSE IF f[i - 1].end = Broken THEN NoRecord ELSE RecordAt(buf, f[i - 1].end)
      BY <1>1, <1>5, <1>6 DEF NextRecord
  <2> QED
      BY <1>5, <2>1 DEF RecordsEqn
<1>8. ReadRecords(buf, start) = CHOOSE h : RecordsEqn(buf, start, h)
    BY DEF ReadRecords, RecordsEqn
<1>9. RecordsEqn(buf, start, g)
    BY <1>7, <1>8
<1>10. DOMAIN g = 0..n /\ g[0] = base /\ \A i \in 1..n : g[i] = NextRecord(buf, g[i - 1])
  <2>1. /\ DOMAIN g = 0..n
        /\ \A i \in 0..n : g[i] = IF i = 0 THEN base
              ELSE IF g[i - 1].end = Broken THEN NoRecord ELSE RecordAt(buf, g[i - 1].end)
    <3> HIDE DEF g
    <3> QED
        BY <1>9 DEF RecordsEqn
  <2>2. 0 \in 0..n /\ \A i \in 1..n : i \in 0..n /\ i # 0
      BY <1>1
  <2> HIDE DEF n, g, base
  <2> QED
      BY <2>1, <2>2 DEF NextRecord
<1> HIDE DEF n, g, base
<1>11. \A i \in 0..n : i \in {j \in 0..n : g[j] \in S}
  <2> DEFINE P == {j \in 0..n : g[j] \in S}
  <2>1. 0 \in P
      BY <1>1, <1>10 DEF S
  <2>2. \A i \in 1..n : i - 1 \in P => i \in P
      BY <1>4, <1>10
  <2> HIDE DEF P
  <2> QED
      BY <1>1, <2>1, <2>2, Reached DEF P
<1>12. \A k \in 0..n : g[k].end \in SectionEnds(buf)
    BY <1>3, <1>11
<1> QED
    BY <1>1, <1>2, <1>10, <1>12 DEF g, n

\* dns.rs 748-902 on any bytes with a header: what parse_answers, parse_txt and
\* parse_ptr index without asking lies in the message.  The answers begin in it;
\* a record that is read begins where the one before it ended, and its ten fixed
\* bytes and its data are inside.  So no length that a resolver sends makes
\* httprove panic.
THEOREM ReadingStaysInside ==
    ASSUME NEW buf \in Seq(Byte), HeaderSize <= Len(buf)
    PROVE  LET start == AnswerStart(buf)
               End(k) == IF k = 0 THEN start ELSE Records(buf, start)[k].end
           IN start # Broken =>
                 /\ start \in HeaderSize..Len(buf)
                 /\ \A k \in DOMAIN Records(buf, start) :
                       End(k) # Broken =>
                          LET r == Records(buf, start)[k] IN
                          /\ End(k - 1) # Broken
                          /\ End(k - 1) + 1 + Fixed <= r.data
                          /\ r.data <= r.end /\ r.end <= Len(buf)
<1> DEFINE start == AnswerStart(buf)
           read == ReadRecords(buf, start)
           n == Word(buf, 6)
           End(k) == IF k = 0 THEN start ELSE Records(buf, start)[k].end
<1> SUFFICES ASSUME start # Broken
             PROVE  /\ start \in HeaderSize..Len(buf)
                    /\ \A k \in DOMAIN Records(buf, start) :
                          End(k) # Broken =>
                             LET r == Records(buf, start)[k] IN
                             /\ End(k - 1) # Broken
                             /\ End(k - 1) + 1 + Fixed <= r.data
                             /\ r.data <= r.end /\ r.end <= Len(buf)
    OBVIOUS
<1>1. start \in HeaderSize..Len(buf)
    BY QuestionsInside DEF SectionEnds
<1>2. /\ n \in Nat /\ read[0].end = start
      /\ \A k \in 1..n : read[k] = NextRecord(buf, read[k - 1])
      /\ \A k \in 0..n : read[k].end \in SectionEnds(buf)
  <2> HIDE DEF start
  <2> QED
      BY <1>1, RecordsFollow
<1>3. Records(buf, start) = [k \in 1..n |-> read[k]]
    BY DEF Records
<1>4. \A k \in 0..n : End(k) = read[k].end
  <2> HIDE DEF start, read, n
  <2> QED
      BY <1>2, <1>3
<1> HIDE DEF start, read, n, End
<1>5. ASSUME NEW k \in 1..n, End(k) # Broken
      PROVE  /\ End(k - 1) # Broken /\ End(k - 1) + 1 + Fixed <= read[k].data
             /\ read[k].data <= read[k].end /\ read[k].end <= Len(buf)
  <2>1. k \in 0..n /\ k - 1 \in 0..n
      BY <1>2
  <2> DEFINE prior == read[k - 1].end
  <2>2. prior = End(k - 1) /\ read[k].end # Broken /\ prior \in SectionEnds(buf)
      BY <1>2, <1>4, <1>5, <2>1
  <2>3. prior # Broken /\ read[k] = RecordAt(buf, prior)
      BY <1>2, <2>2 DEF NextRecord, NoRecord
  <2>4. prior \in HeaderSize..Len(buf)
      BY <2>2, <2>3 DEF SectionEnds
  <2> HIDE DEF prior
  <2>5. Inside(buf, prior, read[k])
      BY <2>3, <2>4, RecordInside
  <2> QED
      BY <2>2, <2>3, <2>5 DEF Inside
<1> QED
    BY <1>1, <1>3, <1>5 DEF End, start

-----------------------------------------------------------------------------
(* Sums.                                                                   *)

SumEqn(s, f) == f = [n \in 0..Len(s) |-> IF n = 0 THEN 0 ELSE f[n - 1] + s[n]]
SumTo(s) == CHOOSE f : SumEqn(s, f)

\* What the recursive function in Sum computes, place by place.
LEMMA SumRounds ==
    ASSUME NEW s \in Seq(Int)
    PROVE  /\ SumTo(s) \in [0..Len(s) -> Int] /\ SumTo(s)[0] = 0 
           /\ \A i \in 1..Len(s) : SumTo(s)[i] = SumTo(s)[i - 1] + s[i]
           /\ Sum(s) = SumTo(s)[Len(s)]
<1> DEFINE n == Len(s)
           round == [i \in 1..n |-> [x \in Int |-> x + s[i]]]
<1>1. n \in Nat /\ \A i \in 1..n : s[i] \in Int
    OBVIOUS
<1>2. round \in [1..n -> [Int -> Int]]
    BY <1>1
<1>3. PICK f \in [0..n -> Int] : f[0] = 0 /\ \A i \in 1..n : f[i] = round[i][f[i - 1]]
  <2> DEFINE I == Int
             zero == 0
  <2>1. zero \in I /\ n \in Nat /\ Rounds(n, I, round)
      BY <1>1 DEF Rounds
  <2> HIDE DEF round, n, I, zero
  <2>2. \E f : Follows(f, n, I, zero, round)
      BY <2>1, Recursion
  <2> QED
      BY <2>2 DEF Follows, I, zero
<1>4. ASSUME NEW i \in 1..n PROVE f[i] = f[i - 1] + s[i]
  <2>1. i - 1 \in 0..n
      BY <1>1
  <2> QED
      BY <1>3, <2>1
<1>5. SumEqn(s, f)
  <2>1. ASSUME NEW i \in 0..n PROVE f[i] = IF i = 0 THEN 0 ELSE f[i - 1] + s[i]
      BY <1>1, <1>3, <1>4
  <2> QED
      BY <1>3, <2>1 DEF SumEqn
<1>6. SumEqn(s, SumTo(s))
    BY <1>5 DEF SumTo
<1> DEFINE g == SumTo(s)
<1>7. Sum(s) = g[Len(s)]
    BY DEF Sum, SumTo, SumEqn
<1> HIDE DEF g
<1>8. DOMAIN g = 0..n /\ g[0] = 0 /\ \A i \in 1..n : g[i] = g[i - 1] + s[i]
  <2>1. DOMAIN g = 0..n /\ \A i \in 0..n : g[i] = IF i = 0 THEN 0 ELSE g[i - 1] + s[i]
      BY <1>6 DEF SumEqn, g
  <2>2. 0 \in 0..n /\ \A i \in 1..n : i \in 0..n /\ i # 0
      BY <1>1
  <2> HIDE DEF n
  <2> QED
      BY <2>1, <2>2
<1>9. \A i \in 0..n : i \in {j \in 0..n : g[j] = f[j]}
  <2> DEFINE P == {j \in 0..n : g[j] = f[j]}
  <2>1. 0 \in P
      BY <1>1, <1>3, <1>8
  <2>2. \A i \in 1..n : i - 1 \in P => i \in P
      BY <1>4, <1>8
  <2> HIDE DEF P, n
  <2> QED
      BY <1>1, <2>1, <2>2, Reached DEF P
<1>10. g \in [0..n -> Int]
  <2>1. \A i \in 0..n : g[i] \in Int
      BY <1>3, <1>9
  <2>2. g = [i \in 0..n |-> g[i]]
      BY <1>6 DEF SumEqn, g
  <2> QED
      BY <2>1, <2>2
<1> QED
    BY <1>7, <1>8, <1>10 DEF g

\* One summand more.
LEMMA SumAppended ==
    ASSUME NEW s \in Seq(Int), NEW v \in Int
    PROVE  Sum(s) \in Int /\ Sum(Append(s, v)) = Sum(s) + v
<1> DEFINE t == Append(s, v)
           n == Len(s)
           f == SumTo(s)
           g == SumTo(t)
<1>1. /\ n \in Nat /\ t \in Seq(Int) /\ Len(t) = n + 1 /\ t[n + 1] = v
      /\ \A i \in 1..n : t[i] = s[i]
    OBVIOUS
<1>2. /\ f \in [0..n -> Int] /\ f[0] = 0 /\ Sum(s) = f[n]
      /\ \A i \in 1..n : f[i] = f[i - 1] + s[i]
    BY SumRounds
<1>3. /\ g[0] = 0 /\ Sum(t) = g[n + 1]
      /\ \A i \in 1..(n + 1) : g[i] = g[i - 1] + t[i]
  <2> HIDE DEF t
  <2>1. /\ g[0] = 0 /\ Sum(t) = g[Len(t)]
        /\ \A i \in 1..Len(t) : g[i] = g[i - 1] + t[i]
      BY <1>1, SumRounds
  <2> QED
      BY <1>1, <2>1
<1> HIDE DEF t, n, f, g
<1>4. \A i \in 0..n : i \in {j \in 0..n : g[j] = f[j]}
  <2> DEFINE P == {j \in 0..n : g[j] = f[j]}
  <2>1. 0 \in P
      BY <1>1, <1>2, <1>3
  <2>2. ASSUME NEW i \in 1..n, i - 1 \in P PROVE i \in P
    <3>1. i \in 1..(n + 1) /\ i \in 0..n
        BY <1>1
    <3> QED
        BY <1>1, <1>2, <1>3, <2>2, <3>1
  <2> HIDE DEF P
  <2> QED
      BY <1>1, <2>1, <2>2, Reached DEF P
<1>5. g[n] = f[n] /\ n + 1 \in 1..(n + 1) /\ f[n] \in Int /\ (n + 1) - 1 = n
    BY <1>1, <1>2, <1>4
<1>6. Sum(t) = f[n] + v
    BY <1>1, <1>3, <1>5
<1> QED
    BY <1>2, <1>5, <1>6 DEF t

LEMMA SumEmpty == Sum(<<>>) = 0
<1>1. <<>> \in Seq(Int) /\ Len(<<>>) = 0
    OBVIOUS
<1> QED
    BY <1>1, SumRounds

-----------------------------------------------------------------------------
(* The successes of a target among the rows.                               *)

\* The round of SuccessesIn with the row rs[n].
Wanted(u, row) == row.target = u /\ row.result.ok
Keeping(u, row, found) == IF Wanted(u, row) THEN Append(found, row) ELSE found

FoundEqn(rs, u, f) ==
    f = [n \in 0..Len(rs) |->
            IF n = 0 THEN <<>>
            ELSE IF rs[n].target = u /\ rs[n].result.ok THEN Append(f[n - 1], rs[n])
                 ELSE f[n - 1]]
FoundTo(rs, u) == CHOOSE f : FoundEqn(rs, u, f)
WantedOf(S, u) == {row \in S : Wanted(u, row)}

\* What the recursive function in SuccessesIn computes, place by place.
LEMMA FoundRounds ==
    ASSUME NEW S, NEW rs \in Seq(S), NEW u
    PROVE  /\ FoundTo(rs, u) \in [0..Len(rs) -> Seq(WantedOf(S, u))]
           /\ FoundTo(rs, u)[0] = <<>>
           /\ \A i \in 1..Len(rs) :
                 FoundTo(rs, u)[i] = Keeping(u, rs[i], FoundTo(rs, u)[i - 1])
           /\ SuccessesIn(rs, u) = FoundTo(rs, u)[Len(rs)]
<1> DEFINE n == Len(rs)
           Q == Seq(WantedOf(S, u))
           round == [i \in 1..n |-> [x \in Q |-> Keeping(u, rs[i], x)]]
<1>1. n \in Nat /\ (\A i \in 1..n : rs[i] \in S) /\ <<>> \in Q
    OBVIOUS
<1>2. \A i \in 1..n : \A x \in Q : round[i][x] \in Q
    BY <1>1 DEF Keeping, WantedOf
<1>3. PICK f \in [0..n -> Q] : f[0] = <<>> /\ \A i \in 1..n : f[i] = round[i][f[i - 1]]
  <2> DEFINE none == <<>>
  <2>1. none \in Q /\ n \in Nat /\ Rounds(n, Q, round)
      BY <1>1, <1>2 DEF Rounds
  <2> HIDE DEF round, n, Q, none
  <2>2. \E f : Follows(f, n, Q, none, round)
      BY <2>1, Recursion
  <2> QED
      BY <2>2 DEF Follows, none
<1>4. ASSUME NEW i \in 1..n PROVE f[i] = Keeping(u, rs[i], f[i - 1])
  <2>1. i - 1 \in 0..n
      BY <1>1
  <2>2. f[i - 1] \in Q
      BY <1>3, <2>1
  <2> QED
      BY <1>3, <2>2
<1>5. FoundEqn(rs, u, f)
  <2>1. ASSUME NEW i \in 0..n
        PROVE  f[i] = IF i = 0 THEN <<>>
                      ELSE IF rs[i].target = u /\ rs[i].result.ok THEN Append(f[i - 1], rs[i])
                           ELSE f[i - 1]
    <3>1. CASE i = 0
        BY <1>3, <3>1
    <3>2. CASE i # 0
      <4>1. i \in 1..n
          BY <1>1, <3>2
      <4> QED
          BY <1>4, <3>2, <4>1 DEF Keeping, Wanted
    <3> QED
        BY <3>1, <3>2
  <2> HIDE DEF Q
  <2> QED
      BY <1>3, <2>1 DEF FoundEqn
<1>6. FoundEqn(rs, u, FoundTo(rs, u))
    BY <1>5 DEF FoundTo
<1> DEFINE g == FoundTo(rs, u)
<1>7. SuccessesIn(rs, u) = g[Len(rs)]
    BY DEF SuccessesIn, FoundTo, FoundEqn
<1> HIDE DEF g, Q
<1>8. DOMAIN g = 0..n /\ g[0] = <<>> /\ \A i \in 1..n : g[i] = Keeping(u, rs[i], g[i - 1])
  <2>1. \A i \in 0..n : g[i] = IF i = 0 THEN <<>>
                      ELSE IF rs[i].target = u /\ rs[i].result.ok THEN Append(g[i - 1], rs[i])
                           ELSE g[i - 1]
      BY <1>6 DEF FoundEqn, g
  <2>2. DOMAIN g = 0..n
      BY <1>6 DEF FoundEqn, g
  <2>3. \A i \in 1..n : i \in 0..n /\ i # 0
      BY <1>1
  <2>4. g[0] = <<>>
      BY <1>1, <2>1
  <2> HIDE DEF n
  <2>5. ASSUME NEW i \in 1..n PROVE g[i] = Keeping(u, rs[i], g[i - 1])
      BY <2>1, <2>3 DEF Keeping, Wanted
  <2> QED
      BY <2>2, <2>4, <2>5
<1>9. \A i \in 0..n : i \in {j \in 0..n : g[j] = f[j]}
  <2> DEFINE P == {j \in 0..n : g[j] = f[j]}
  <2>1. 0 \in P
      BY <1>1, <1>3, <1>8
  <2>2. \A i \in 1..n : i - 1 \in P => i \in P
    <3>1. \A i \in 1..n : i \in 0..n
        BY <1>1
    <3> HIDE DEF n
    <3> QED
        BY <1>4, <1>8, <3>1
  <2> HIDE DEF P, n
  <2> QED
      BY <1>1, <2>1, <2>2, Reached DEF P
<1>10. g \in [0..n -> Q]
  <2>1. \A i \in 0..n : g[i] \in Q
      BY <1>3, <1>9
  <2>2. g = [i \in 0..n |-> g[i]]
      BY <1>6 DEF FoundEqn, g
  <2> HIDE DEF n
  <2> QED
      BY <2>1, <2>2
<1> QED
    BY <1>7, <1>8, <1>10 DEF g, Q

\* One more row is one more success of its target, or of none.
LEMMA FoundAppended ==
    ASSUME NEW S, NEW rs \in Seq(S), NEW u, NEW row \in S
    PROVE  /\ SuccessesIn(rs, u) \in Seq(WantedOf(S, u))
           /\ SuccessesIn(Append(rs, row), u) = Keeping(u, row, SuccessesIn(rs, u))
<1> DEFINE t == Append(rs, row)
           n == Len(rs)
           f == FoundTo(rs, u)
           g == FoundTo(t, u)
<1>1. /\ n \in Nat /\ t \in Seq(S) /\ Len(t) = n + 1 /\ t[n + 1] = row
      /\ \A i \in 1..n : t[i] = rs[i]
    OBVIOUS
<1>2. /\ f \in [0..n -> Seq(WantedOf(S, u))] /\ f[0] = <<>> /\ SuccessesIn(rs, u) = f[n]
      /\ \A i \in 1..n : f[i] = Keeping(u, rs[i], f[i - 1])
    BY FoundRounds
<1>3. /\ g[0] = <<>> /\ SuccessesIn(t, u) = g[n + 1]
      /\ \A i \in 1..(n + 1) : g[i] = Keeping(u, t[i], g[i - 1])
  <2> HIDE DEF t
  <2>1. /\ g[0] = <<>> /\ SuccessesIn(t, u) = g[Len(t)]
        /\ \A i \in 1..Len(t) : g[i] = Keeping(u, t[i], g[i - 1])
    <3>1. t \in Seq(S)
        BY <1>1
    <3> QED
        BY <3>1, FoundRounds, Zenon
  <2> HIDE DEF g, n
  <2> QED
      BY <1>1, <2>1
<1> HIDE DEF t, n, f, g
<1>4. \A i \in 0..n : i \in {j \in 0..n : g[j] = f[j]}
  <2> DEFINE P == {j \in 0..n : g[j] = f[j]}
  <2>1. 0 \in P
      BY <1>1, <1>2, <1>3
  <2>2. ASSUME NEW i \in 1..n, i - 1 \in P PROVE i \in P
    <3>1. i \in 1..(n + 1) /\ i \in 0..n
        BY <1>1
    <3> QED
        BY <1>1, <1>2, <1>3, <2>2, <3>1
  <2> HIDE DEF P
  <2> QED
      BY <1>1, <2>1, <2>2, Reached DEF P
<1>5. g[n] = f[n] /\ n + 1 \in 1..(n + 1) /\ (n + 1) - 1 = n
    BY <1>1, <1>4
<1>6. SuccessesIn(t, u) = Keeping(u, row, f[n])
    BY <1>1, <1>3, <1>5
<1>7. f[n] \in Seq(WantedOf(S, u))
    BY <1>1, <1>2
<1> QED
    BY <1>2, <1>6, <1>7 DEF t

LEMMA FoundEmpty == \A u : SuccessesIn(<<>>, u) = <<>>
<1> TAKE u
<1>1. <<>> \in Seq({}) /\ Len(<<>>) = 0
    OBVIOUS
<1> QED
    BY <1>1, FoundRounds

-----------------------------------------------------------------------------
(* Welford's algorithm.                                                    *)

\* What the mean and the sum of squares of n values are, in parts of D: S is the
\* sum of the values and Q that of their squares.
Stands(n, D, S, Q, mean, m2) ==
    /\ mean \in Int /\ m2 \in Int
    /\ n * mean = D * S /\ n * m2 = D * D * (n * Q - S * S)

NextMean(n, D, v, mean) == mean + (D * v - mean) \div (n + 1)
NextM2(n, D, v, mean, m2) == m2 + (D * v - mean) * (D * v - NextMean(n, D, v, mean))

\* Welford's step in integers, where D is a multiple of both numbers of values.
LEMMA WelfordStep ==
    ASSUME NEW n \in Nat \ {0}, NEW D \in Int, NEW S \in Int, NEW Q \in Int, NEW v \in Int,
           NEW mean, NEW m2, D % n = 0, D % (n + 1) = 0, Stands(n, D, S, Q, mean, m2)
    PROVE  Stands(n + 1, D, S + v, Q + v * v, NextMean(n, D, v, mean),
                  NextM2(n, D, v, mean, m2))
<1> DEFINE delta == D * v - mean
           next == mean + delta \div (n + 1)
<1>1. /\ mean \in Int /\ m2 \in Int
      /\ n * mean = D * S /\ n * m2 = D * D * (n * Q - S * S)
    BY DEF Stands
<1>2. /\ NextMean(n, D, v, mean) = next
      /\ NextM2(n, D, v, mean, m2) = m2 + delta * (D * v - next)
      /\ delta = D * v - mean /\ next = mean + delta \div (n + 1)
    BY DEF NextMean, NextM2
<1> HIDE DEF delta, next
<1>3. PICK a \in Int : D = n * a
  <2>1. D = n * (D \div n) /\ D \div n \in Int
      OBVIOUS
  <2> QED
      BY <2>1
<1>4. PICK b \in Int : D = (n + 1) * b
  <2>1. D = (n + 1) * (D \div (n + 1)) /\ D \div (n + 1) \in Int
      OBVIOUS
  <2> QED
      BY <2>1
<1> DEFINE k == a - b
<1>5. k \in Int /\ D = n * (n + 1) * k
  <2>1. (n + 1) * (n * a) - n * ((n + 1) * b) = n * (n + 1) * (a - b)
      OBVIOUS
  <2>2. (n + 1) * D - n * D = D
      OBVIOUS
  <2> QED
      BY <1>3, <1>4, <2>1, <2>2
<1> HIDE DEF k
<1>6. mean = (n + 1) * k * S
  <2>1. n * mean = n * ((n + 1) * k * S)
      BY <1>5, <1>1
  <2>2. (n + 1) * k * S \in Int
      BY <1>5
  <2>3. \A x, y \in Int : n * x = n * y => x = y
      OBVIOUS
  <2> QED
      BY <1>1, <2>1, <2>2, <2>3
<1>7. delta = (n + 1) * (k * (n * v - S))
    BY <1>5, <1>6, <1>2
<1>8. delta \div (n + 1) = k * (n * v - S)
  <2>1. \A x \in Int : ((n + 1) * x) \div (n + 1) = x
      OBVIOUS
  <2>2. k * (n * v - S) \in Int
      BY <1>5
  <2> QED
      BY <1>7, <2>1, <2>2
<1>9. next = n * k * (S + v)
    BY <1>5, <1>6, <1>8, <1>2
<1>10. m2 = n * (n + 1) * (n + 1) * k * k * (n * Q - S * S)
  <2>1. n * m2 = n * (n * (n + 1) * (n + 1) * k * k * (n * Q - S * S))
      BY <1>5, <1>1
  <2>2. n * (n + 1) * (n + 1) * k * k * (n * Q - S * S) \in Int
      BY <1>5
  <2>3. \A x, y \in Int : n * x = n * y => x = y
      OBVIOUS
  <2> QED
      BY <1>1, <2>1, <2>2, <2>3
<1>11. D * v - next = n * (k * (n * v - S))
    BY <1>5, <1>9
<1>12. m2 + delta * (D * v - next)
         = n * (n + 1) * k * k * ((n + 1) * (n * Q - S * S) + (n * v - S) * (n * v - S))
  <2>1. \A w, q \in Int :
          n * (n + 1) * (n + 1) * k * k * q + (n + 1) * (k * w) * (n * (k * w))
            = n * (n + 1) * k * k * ((n + 1) * q + w * w)
      BY <1>5
  <2>2. n * v - S \in Int /\ n * Q - S * S \in Int
      OBVIOUS
  <2>3. delta * (D * v - next) = (n + 1) * (k * (n * v - S)) * (n * (k * (n * v - S)))
      BY <1>7, <1>11
  <2> QED
      BY <1>10, <2>1, <2>2, <2>3
<1>13. (n + 1) * (n * Q - S * S) + (n * v - S) * (n * v - S)
         = n * ((n + 1) * (Q + v * v) - (S + v) * (S + v))
    OBVIOUS
<1>14. (n + 1) * (m2 + delta * (D * v - next))
         = (n * (n + 1) * k) * (n * (n + 1) * k)
             * ((n + 1) * (Q + v * v) - (S + v) * (S + v))
    BY <1>5, <1>12, <1>13
<1>15. next \in Int /\ (n + 1) * next = D * (S + v)
    BY <1>5, <1>9
<1>16. m2 + delta * (D * v - next) \in Int
    BY <1>5, <1>12
<1>17. (n + 1) * (m2 + delta * (D * v - next))
         = D * D * ((n + 1) * (Q + v * v) - (S + v) * (S + v))
    BY <1>5, <1>14
<1> QED
    BY <1>15, <1>16, <1>17, <1>2 DEF Stands

-----------------------------------------------------------------------------
(* The ring of the last samples.                                           *)

\* The last RingCap of some samples.
From(n) == IF n > RingCap THEN n - RingCap ELSE 0
Latest(ts) == SubSeq(ts, From(Len(ts)) + 1, Len(ts))

\* Where the window of the last RingCap begins.
LEMMA FromTells ==
    \A n \in Nat : /\ From(n) \in 0..n /\ From(n + 1) \in 0..n
                   /\ IF n < RingCap THEN From(n) = 0 /\ From(n + 1) = 0
                      ELSE From(n) = n - RingCap /\ From(n + 1) = From(n) + 1
<1> QED
    BY StatsAssumption DEF From

\* A place of the window with one more.
LEMMA Shift ==
    \A n, b, i \in Nat :
        i \in 1..(n + 1 - b) /\ b <= n =>
            \/ i = n + 1 - b /\ b + i = n + 1
            \/ i \in 1..(n - b) /\ b + i \in 1..n
<1> QED
    OBVIOUS

\* The window has those samples, in their order.
LEMMA LatestProperties ==
    ASSUME NEW ts \in Seq(Nat), NEW n \in Nat, n = Len(ts)
    PROVE  /\ Latest(ts) \in Seq(Nat)
           /\ Len(Latest(ts)) = n - From(n)
           /\ \A i \in 1..(n - From(n)) : Latest(ts)[i] = ts[From(n) + i]
<1> DEFINE m == From(n) + 1
<1>1. n \in Nat /\ m \in 1..(n + 1) /\ \A i \in 1..n : ts[i] \in Nat
    BY StatsAssumption DEF From
<1>2. \A i \in m..n : ts[i] \in Nat
    BY <1>1
<1>3. /\ SubSeq(ts, m, n) \in Seq(Nat)
      /\ Len(SubSeq(ts, m, n)) = IF m <= n THEN n - m + 1 ELSE 0
      /\ \A i \in 1..(n - m + 1) : SubSeq(ts, m, n)[i] = ts[m + i - 1]
  <2> HIDE DEF m
  <2> QED
      BY <1>1, <1>2, SubSeqProperties
<1>4. From(n) \in 0..n
    BY <1>1, FromTells
<1>5. n - m + 1 = n - From(n) /\ (IF m <= n THEN n - m + 1 ELSE 0) = n - From(n)
    BY <1>1, <1>4
<1>6. \A i \in Int : m + i - 1 = From(n) + i
    BY <1>4
<1>7. SubSeq(ts, m, n) = Latest(ts)
    BY DEF Latest
<1> HIDE DEF m
<1>8. /\ Latest(ts) \in Seq(Nat) /\ Len(Latest(ts)) = n - From(n)
      /\ \A i \in 1..(n - From(n)) : Latest(ts)[i] = ts[From(n) + i]
  <2>1. ASSUME NEW i \in 1..(n - From(n)) PROVE Latest(ts)[i] = ts[From(n) + i]
    <3>1. i \in 1..(n - m + 1) /\ m + i - 1 = From(n) + i
        BY <1>5, <1>6
    <3> QED
        BY <1>3, <1>7, <3>1
  <2> QED
      BY <1>3, <1>5, <1>7, <2>1
<1> QED
    BY <1>8

\* The ring stays the window of the last samples when one is pushed.
LEMMA RingKept ==
    ASSUME NEW ts \in Seq(Nat), NEW v \in Nat
    PROVE  Ring(Latest(ts), v) = Latest(Append(ts, v))
<1> DEFINE t == Append(ts, v)
           n == Len(ts)
           old == Latest(ts)
           new == Latest(t)
           kept == IF Len(old) = RingCap THEN Tail(old) ELSE old
<1>1. /\ t \in Seq(Nat) /\ n \in Nat /\ Len(t) = n + 1 /\ t[n + 1] = v
      /\ \A i \in 1..n : t[i] = ts[i]
    OBVIOUS
<1>2. /\ old \in Seq(Nat) /\ Len(old) = n - From(n)
      /\ \A i \in 1..(n - From(n)) : old[i] = ts[From(n) + i]
    BY LatestProperties
<1>3. /\ new \in Seq(Nat) /\ Len(new) = n + 1 - From(n + 1)
      /\ \A i \in 1..(n + 1 - From(n + 1)) : new[i] = t[From(n + 1) + i]
  <2> DEFINE m == n + 1
  <2> HIDE DEF t
  <2>1. m = Len(t) /\ m \in Nat
      BY <1>1
  <2> HIDE DEF m
  <2>2. /\ new \in Seq(Nat) /\ Len(new) = m - From(m)
        /\ \A i \in 1..(m - From(m)) : new[i] = t[From(m) + i]
    <3> HIDE DEF n
    <3>1. t \in Seq(Nat) /\ m \in Nat /\ m = Len(t)
        BY <1>1, <2>1
    <3> QED
        BY <3>1, LatestProperties
  <2> HIDE DEF n, new
  <2> QED
    <3>1. n \in Nat /\ m = n + 1 /\ From(m) = From(n + 1) /\ From(n + 1) \in Nat
        BY <1>1, FromTells DEF m
    <3>2. \A i \in 1..(n + 1 - From(n + 1)) : new[i] = t[From(n + 1) + i]
        BY <2>2, <3>1
    <3> QED
        BY <2>2, <3>1, <3>2
<1>4. /\ RingCap \in Nat \ {0} /\ From(n) \in 0..n /\ From(n + 1) \in 0..n
      /\ IF n < RingCap THEN From(n) = 0 /\ From(n + 1) = 0
         ELSE From(n) = n - RingCap /\ From(n + 1) = From(n) + 1
    BY <1>1, FromTells, StatsAssumption
<1> HIDE DEF t, n, old, new
<1>5. /\ kept \in Seq(Nat) /\ Len(kept) = n - From(n + 1)
      /\ \A i \in 1..(n - From(n + 1)) : kept[i] = ts[From(n + 1) + i]
  <2>1. CASE Len(old) = RingCap
    <3>1. n >= RingCap /\ From(n + 1) = From(n) + 1 /\ old # <<>>
        BY <1>1, <1>2, <1>4, <2>1
    <3>2. /\ Tail(old) \in Seq(Nat) /\ Len(Tail(old)) = Len(old) - 1
          /\ \A i \in 1..(Len(old) - 1) : Tail(old)[i] = old[i + 1]
        BY <1>2, <3>1
    <3>3. From(n) \in Nat
        BY <1>1, <1>4
    <3>4. n - From(n + 1) = Len(old) - 1
        BY <1>1, <1>2, <3>1, <3>3
    <3>5. ASSUME NEW i \in 1..(n - From(n + 1)) PROVE Tail(old)[i] = ts[From(n + 1) + i]
      <4>1. i \in 1..(Len(old) - 1) /\ i + 1 \in 1..(n - From(n))
            /\ From(n) + (i + 1) = From(n + 1) + i
        <5> DEFINE a == From(n)
                   b == From(n + 1)
        <5>1. a \in Nat /\ b \in Nat /\ b <= n /\ b = a + 1 /\ i \in 1..(n - b)
            BY <1>1, <1>4, <3>1
        <5>2. Len(old) - 1 = n - a - 1
            BY <1>1, <1>2, <1>4
        <5> HIDE DEF a, b
        <5>3. i \in 1..(n - a - 1) /\ i + 1 \in 1..(n - a) /\ a + (i + 1) = b + i
            BY <1>1, <5>1
        <5> QED
            BY <5>2, <5>3 DEF a, b
      <4> QED
          BY <1>2, <3>2, <4>1
    <3> QED
        BY <2>1, <3>2, <3>4, <3>5
  <2>2. CASE Len(old) # RingCap
    <3>1. From(n + 1) = From(n) /\ From(n) = 0
        BY <1>1, <1>2, <1>4, <2>2
    <3> QED
        BY <1>2, <2>2, <3>1
  <2> QED
      BY <2>1, <2>2
<1> HIDE DEF kept
<1>6. From(n + 1) \in 0..n
    BY <1>4
<1>7. ASSUME NEW i \in 1..(n + 1 - From(n + 1)) PROVE Append(kept, v)[i] = new[i]
  <2>1. i \in Nat /\ From(n + 1) \in Nat /\ From(n + 1) <= n
      BY <1>1, <1>6
  <2>2. CASE i = n + 1 - From(n + 1) /\ From(n + 1) + i = n + 1
    <3>1. i = Len(kept) + 1
        BY <1>1, <1>5, <2>1, <2>2
    <3>2. Append(kept, v)[i] = v
        BY <1>5, <3>1
    <3>3. new[i] = t[n + 1]
        BY <1>3, <2>2
    <3> QED
        BY <1>1, <3>2, <3>3
  <2>3. CASE i \in 1..(n - From(n + 1)) /\ From(n + 1) + i \in 1..n
    <3>1. i \in 1..Len(kept)
        BY <1>5, <2>3
    <3>2. Append(kept, v)[i] = kept[i]
        BY <1>5, <3>1
    <3>3. kept[i] = ts[From(n + 1) + i] /\ new[i] = t[From(n + 1) + i]
        BY <1>3, <1>5, <2>3
    <3> QED
        BY <1>1, <2>3, <3>2, <3>3
  <2> QED
      BY <1>1, <2>1, <2>2, <2>3, Shift
<1>8. Append(kept, v) \in Seq(Nat) /\ Len(Append(kept, v)) = n + 1 - From(n + 1)
    BY <1>1, <1>5, <1>6
<1>9. Append(kept, v) = new
  <2> DEFINE a == Append(kept, v)
  <2>1. a \in Seq(Nat) /\ Len(a) = Len(new) /\ \A i \in 1..Len(a) : a[i] = new[i]
      BY <1>3, <1>7, <1>8
  <2> HIDE DEF a
  <2>2. a = new
      BY <1>3, <2>1, SeqEqual
  <2> QED
      BY <2>2 DEF a
<1> QED
    BY <1>9 DEF Ring, kept, old, new, t

-----------------------------------------------------------------------------
(* Counting with one more row.                                             *)

\* One more member at n + 1.
LEMMA OneMore ==
    ASSUME NEW n \in Nat, NEW A, A \subseteq 1..n
    PROVE  /\ Cardinality(A) \in Nat /\ Cardinality(A) <= n
           /\ Cardinality(A \union {n + 1}) = Cardinality(A) + 1
<1>1. IsFiniteSet(1..n) /\ Cardinality(1..n) = n
    BY FS_Interval
<1>2. IsFiniteSet(A) /\ Cardinality(A) <= Cardinality(1..n)
    BY <1>1, FS_Subset
<1>3. n + 1 \notin A
    OBVIOUS
<1> QED
    BY <1>1, <1>2, <1>3, FS_AddElement, FS_CardinalityType

\* A row whose addresses differ from the last is one change more.
LEMMA ChangesAppended ==
    ASSUME NEW S, NEW s \in Seq(S), NEW row \in S
    PROVE  /\ Changes(s) \in Nat
           /\ Changes(Append(s, row))
                = Changes(s) + One(s # <<>> /\ s[Len(s)].result.ips # row.result.ips)
<1> DEFINE n == Len(s)
           t == Append(s, row)
           A(w) == {i \in 2..Len(w) : w[i - 1].result.ips # w[i].result.ips}
           other == s # <<>> /\ s[Len(s)].result.ips # row.result.ips
<1>1. /\ n \in Nat /\ Len(t) = n + 1 /\ t[n + 1] = row /\ \A i \in 1..n : t[i] = s[i]
      /\ (s # <<>> <=> n # 0)
    OBVIOUS
<1>2. A(s) \subseteq 1..n
    BY <1>1
<1> HIDE DEF t, n
<1>3. \A i \in 2..n : i - 1 \in 1..n /\ i \in 1..n /\ i \in 2..(n + 1)
    BY <1>1
<1>4. CASE other
  <2>1. n + 1 \in A(t)
      BY <1>1, <1>4 DEF n
  <2>2. A(t) = A(s) \union {n + 1}
    <3>1. \A i \in 2..(n + 1) : i \in 2..n \/ i = n + 1
        BY <1>1
    <3>2. \A i \in 2..n : i \in A(t) <=> i \in A(s)
        BY <1>1, <1>3 DEF n
    <3>3. A(t) \subseteq 2..(n + 1) /\ A(s) \subseteq 2..n
        BY <1>1 DEF n
    <3> HIDE DEF A
    <3> QED
        BY <2>1, <3>1, <3>2, <3>3
  <2> HIDE DEF A, other
  <2>3. Cardinality(A(t)) = Cardinality(A(s)) + 1 /\ Cardinality(A(s)) \in Nat
      BY <1>1, <1>2, <2>2, OneMore
  <2> QED
      BY <1>4, <2>3 DEF Changes, A, One, t, other
<1>5. CASE ~other
  <2>1. n + 1 \notin A(t)
    <3>1. CASE n = 0
        BY <1>1, <3>1
    <3>2. CASE n # 0
        BY <1>1, <1>5, <3>2 DEF n
    <3> QED
        BY <3>1, <3>2
  <2>2. A(t) = A(s)
    <3>1. \A i \in 2..(n + 1) : i \in 2..n \/ i = n + 1
        BY <1>1
    <3>2. \A i \in 2..n : i \in A(t) <=> i \in A(s)
        BY <1>1, <1>3 DEF n
    <3>3. A(t) \subseteq 2..(n + 1) /\ A(s) \subseteq 2..n
        BY <1>1 DEF n
    <3> HIDE DEF A
    <3> QED
        BY <2>1, <3>1, <3>2, <3>3
  <2> HIDE DEF A, other
  <2>3. Cardinality(A(s)) \in Nat
      BY <1>1, <1>2, OneMore
  <2> QED
      <3>1. Changes(t) = Cardinality(A(t)) /\ Changes(s) = Cardinality(A(s))
          BY DEF Changes, A
      <3>2. One(other) = 0
          BY <1>5 DEF One
      <3>3. Changes(t) = Changes(s) + One(other) /\ Changes(s) \in Nat
          BY <2>2, <2>3, <3>1, <3>2
      <3> QED
          BY <3>3 DEF t, other
<1> QED
    BY <1>4, <1>5

-----------------------------------------------------------------------------
(* The median.                                                             *)

\* The first k places of an order have nothing greater than what comes after.
Leads(s, q, k) ==
    \A i \in 1..k : \A j \in DOMAIN s : i < j => s[q[i]] <= s[q[j]]
Orders(s) == Bijection(DOMAIN s, DOMAIN s)
IsSorting(s, q) == q \in Orders(s) /\ \A i, j \in DOMAIN s : i < j => s[q[i]] <= s[q[j]]

\* The next place gets the least of those that are left.
LEMMA FrontGrows ==
    ASSUME NEW s \in Seq(Nat), NEW k \in 1..Len(s), NEW q \in Orders(s), Leads(s, q, k - 1)
    PROVE  \E r \in Orders(s) : Leads(s, r, k)
<1> DEFINE n == Len(s)
           D == DOMAIN s
           T == {s[q[j]] : j \in k..n}
<1>1. D = 1..n /\ n \in Nat /\ k \in D /\ (\A i \in D : s[i] \in Nat)
    OBVIOUS
<1>2. /\ q \in [D -> D]
      /\ \A a, b \in D : q[a] = q[b] => a = b
      /\ \A t \in D : \E a \in D : q[a] = t
    BY Fun_BijectionProperties DEF Orders
<1>3. PICK least \in T : \A y \in T : least <= y
  <2>1. \A j \in k..n : j \in D /\ q[j] \in D /\ s[q[j]] \in Nat
    <3>1. \A j \in k..n : j \in D
        BY <1>1
    <3> HIDE DEF n, D
    <3> QED
        BY <1>1, <1>2, <3>1
  <2>2. T \subseteq Nat /\ T # {}
      BY <1>1, <2>1
  <2> HIDE DEF T
  <2> QED
      BY <2>2, LeastOf
<1>4. PICK c \in k..n : least = s[q[c]]
    BY <1>3
<1>5. c \in D /\ \A j \in k..n : s[q[c]] <= s[q[j]]
  <2>1. c \in D
      BY <1>1
  <2>2. \A j \in k..n : s[q[j]] \in T
      OBVIOUS
  <2> HIDE DEF T
  <2> QED
      BY <1>3, <1>4, <2>1, <2>2
<1> DEFINE other == [i \in D |-> IF i = k THEN c ELSE IF i = c THEN k ELSE i]
           r == [i \in D |-> q[other[i]]]
<1>6. /\ other \in [D -> D] /\ \A i \in D : other[other[i]] = i
    BY <1>1, <1>5
<1>7. r \in Orders(s)
  <2> HIDE DEF other, D
  <2>1. r \in [D -> D]
      BY <1>2, <1>6
  <2>2. \A a, b \in D : r[a] = r[b] => a = b
    <3> SUFFICES ASSUME NEW a \in D, NEW b \in D, r[a] = r[b] PROVE a = b
        OBVIOUS
    <3>1. other[a] = other[b]
        BY <1>2, <1>6
    <3> QED
        BY <1>6, <3>1
  <2>3. \A t \in D : \E a \in D : r[a] = t
    <3> TAKE t \in D
    <3>1. PICK a \in D : q[a] = t
        BY <1>2
    <3>2. other[a] \in D /\ r[other[a]] = t
        BY <1>6, <3>1
    <3> QED
        BY <3>2
  <2> HIDE DEF r
  <2> QED
      BY <2>1, <2>2, <2>3, Fun_IsBij DEF Orders, D
<1>8. ASSUME NEW i \in 1..k, NEW j \in D, i < j PROVE s[r[i]] <= s[r[j]]
  <2>1. i \in D
      BY <1>1
  <2>2. CASE i = k
    <3>1. other[i] = c /\ other[j] \in k..n
        BY <1>1, <1>5, <1>8, <2>2
    <3> HIDE DEF other
    <3> QED
        BY <1>5, <2>1, <3>1
  <2>3. CASE i # k
    <3>1. i \in 1..(k - 1) /\ i < k /\ i < c
      <4>1. k \in Nat /\ c \in Int /\ k <= c
          BY <1>1
      <4> HIDE DEF n, D, other, r
      <4>2. i \in Nat /\ 1 <= i /\ i < k
          BY <2>3, <4>1
      <4> QED
          BY <4>1, <4>2
    <3>2. other[i] = i /\ other[j] \in D /\ other[j] \in {c, k, j}
        BY <1>1, <1>5, <2>1, <2>3, <3>1
    <3>3. i < other[j]
        BY <1>8, <3>1, <3>2
    <3> HIDE DEF other
    <3> QED
        BY <2>1, <3>1, <3>2, <3>3 DEF Leads
  <2> QED
      BY <2>2, <2>3
<1>9. Leads(s, r, k)
  <2> HIDE DEF r
  <2> QED
      BY <1>8 DEF Leads
<1> HIDE DEF r
<1> QED
    BY <1>7, <1>9

\* Every list of numbers can be sorted: so Sorted has one to choose.
LEMMA SortingExists == ASSUME NEW s \in Seq(Nat) PROVE \E q : IsSorting(s, q)
<1> DEFINE n == Len(s)
           P == {k \in 0..n : \E q \in Orders(s) : Leads(s, q, k)}
<1>1. n \in Nat /\ DOMAIN s = 1..n
    OBVIOUS
<1>2. 0 \in P
  <2> DEFINE D == DOMAIN s
             q == [i \in D |-> i]
  <2>1. /\ q \in [D -> D] /\ (\A a, b \in D : q[a] = q[b] => a = b)
        /\ \A t \in D : \E a \in D : q[a] = t
      OBVIOUS
  <2> HIDE DEF q, D
  <2>2. q \in Orders(s)
      BY <2>1, Fun_IsBij DEF Orders, D
  <2>3. Leads(s, q, 0)
      BY DEF Leads
  <2> QED
      BY <1>1, <2>2, <2>3
<1>3. ASSUME NEW k \in 1..n, k - 1 \in P PROVE k \in P
  <2>1. PICK q \in Orders(s) : Leads(s, q, k - 1)
      BY <1>3
  <2>2. \E r \in Orders(s) : Leads(s, r, k)
      BY <2>1, FrontGrows
  <2> QED
      BY <1>1, <2>2
<1>4. n \in P
  <2> HIDE DEF P, n
  <2>1. \A k \in 0..n : k \in P
      BY <1>1, <1>2, <1>3, Reached
  <2> QED
      BY <1>1, <2>1
<1>5. PICK q \in Orders(s) : Leads(s, q, n)
    BY <1>4
<1>6. IsSorting(s, q)
    BY <1>1, <1>5 DEF IsSorting, Leads
<1> QED
    BY <1>6

LEMMA SortedIs ==
    ASSUME NEW s \in Seq(Nat)
    PROVE  \E q : IsSorting(s, q) /\ Sorted(s) = [i \in DOMAIN s |-> s[q[i]]]
<1> DEFINE order == CHOOSE p \in Bijection(DOMAIN s, DOMAIN s) :
                        \A i, j \in DOMAIN s : i < j => s[p[i]] <= s[p[j]]
<1>1. \E p \in Bijection(DOMAIN s, DOMAIN s) :
          \A i, j \in DOMAIN s : i < j => s[p[i]] <= s[p[j]]
    BY SortingExists DEF IsSorting, Orders
<1>2. IsSorting(s, order)
    BY <1>1 DEF IsSorting, Orders
<1>3. Sorted(s) = [i \in DOMAIN s |-> s[order[i]]]
    BY DEF Sorted
<1> HIDE DEF order
<1> QED
    BY <1>2, <1>3

\* As many places as there are to be listed.
LEMMA FirstPlaces ==
    ASSUME NEW n \in Nat, NEW q \in Bijection(1..n, 1..n), NEW k \in 0..n
    PROVE  /\ IsFiniteSet({q[i] : i \in 1..k}) /\ Cardinality({q[i] : i \in 1..k}) = k
<1> DEFINE R == {q[i] : i \in 1..k}
           f == [i \in 1..k |-> q[i]]
<1>1. /\ q \in [1..n -> 1..n] /\ \A a, b \in 1..n : q[a] = q[b] => a = b
    BY Fun_BijectionProperties
<1>2. f \in [1..k -> R] /\ (\A a, b \in 1..k : f[a] = f[b] => a = b)
      /\ \A t \in R : \E a \in 1..k : f[a] = t
    BY <1>1
<1> HIDE DEF f, R
<1>3. f \in Bijection(1..k, R)
    BY <1>2, Fun_IsBij
<1>4. IsFiniteSet(1..k) /\ Cardinality(1..k) = k
    BY FS_Interval
<1>5. IsFiniteSet(R) /\ Cardinality(R) = k
    BY <1>3, <1>4, FS_Bijection DEF ExistsBijection
<1> QED
    BY <1>5 DEF R

Under(s, v) == Cardinality({i \in 1..Len(s) : s[i] < v})
NotOver(s, v) == Cardinality({i \in 1..Len(s) : s[i] <= v})

\* The value at a rank has fewer below it, and as many not above it.
LEMMA RankTells ==
    ASSUME NEW s \in Seq(Nat), NEW q, IsSorting(s, q), NEW r \in 1..Len(s)
    PROVE  /\ Under(s, s[q[r]]) \in Nat /\ Under(s, s[q[r]]) <= r - 1
           /\ NotOver(s, s[q[r]]) \in Nat /\ r <= NotOver(s, s[q[r]])
<1> DEFINE n == Len(s)
           v == s[q[r]]
           A == {i \in 1..n : s[i] < v}
           B == {i \in 1..n : s[i] <= v}
           lower == {q[i] : i \in 1..(r - 1)}
           upTo == {q[i] : i \in 1..r}
<1>1. n \in Nat /\ DOMAIN s = 1..n /\ q \in Bijection(1..n, 1..n) /\ \A i \in 1..n : s[i] \in Nat
    BY DEF IsSorting, Orders
<1>2. q \in [1..n -> 1..n] /\ \A t \in 1..n : \E a \in 1..n : q[a] = t
  <2> DEFINE N == 1..n
  <2>1. q \in Bijection(N, N)
      BY <1>1
  <2> HIDE DEF N
  <2>2. q \in [N -> N] /\ \A t \in N : \E a \in N : q[a] = t
      BY <2>1, Fun_BijectionProperties
  <2> QED
      BY <2>2 DEF N
<1>3. \A i, j \in 1..n : i < j => s[q[i]] <= s[q[j]]
    BY <1>1 DEF IsSorting
<1>4. \A i \in 1..n : s[q[i]] \in Nat
    BY <1>1, <1>2
<1>5. A \subseteq lower
  <2> SUFFICES ASSUME NEW i \in A PROVE i \in lower
      OBVIOUS
  <2>1. PICK a \in 1..n : q[a] = i
      BY <1>2
  <2>2. ~(r <= a)
    <3>1. CASE r < a
        BY <1>3, <1>4, <2>1, <3>1
    <3>2. CASE r = a
        BY <1>4, <2>1, <3>2
    <3> QED
        BY <3>1, <3>2
  <2>3. a \in 1..(r - 1)
      BY <2>2
  <2> QED
      BY <2>1, <2>3
<1>6. upTo \subseteq B
  <2> SUFFICES ASSUME NEW a \in 1..r PROVE q[a] \in B
      OBVIOUS
  <2>1. a \in 1..n /\ q[a] \in 1..n
    <3>1. a \in 1..n
        BY <1>1
    <3> HIDE DEF n
    <3> QED
        BY <1>2, <3>1
  <2>2. CASE a = r
      BY <1>4, <2>1, <2>2
  <2>3. CASE a < r
      BY <1>3, <2>1, <2>3
  <2> QED
      BY <2>2, <2>3
<1>7. /\ IsFiniteSet(lower) /\ Cardinality(lower) = r - 1
      /\ IsFiniteSet(upTo) /\ Cardinality(upTo) = r
  <2>1. r - 1 \in 0..n /\ r \in 0..n
      BY <1>1
  <2> HIDE DEF n
  <2> QED
      BY <1>1, <2>1, FirstPlaces
<1>8. IsFiniteSet(B)
  <2>1. IsFiniteSet(1..n) /\ B \subseteq 1..n
      BY <1>1, FS_Interval
  <2> QED
      BY <2>1, FS_Subset
<1> HIDE DEF lower, upTo
<1>9. Cardinality(A) \in Nat /\ Cardinality(A) <= r - 1
  <2> HIDE DEF A
  <2> QED
      BY <1>5, <1>7, FS_Subset, FS_CardinalityType
<1>10. Cardinality(B) \in Nat /\ r <= Cardinality(B)
  <2> HIDE DEF B
  <2> QED
      BY <1>6, <1>7, <1>8, FS_Subset, FS_CardinalityType
<1> QED
    BY <1>9, <1>10 DEF Under, NotOver

\* The median of some samples has half of them on either side.
LEMMA MedianHalves ==
    ASSUME NEW acc, acc.recent \in Seq(Nat), acc.recent # <<>>
    PROVE  /\ 2 * Under(acc.recent, Percentile(acc, 50)) < Len(acc.recent)
           /\ Len(acc.recent) <= 2 * NotOver(acc.recent, Percentile(acc, 50))
<1> DEFINE s == acc.recent
           n == Len(s)
           rank == (50 * n + 99) \div 100
<1>1. n \in Nat \ {0} /\ DOMAIN s = 1..n
    OBVIOUS
<1>2. rank \in 1..n /\ 2 * (rank - 1) < n /\ n <= 2 * rank
  <2> HIDE DEF n
  <2> QED
      BY <1>1
<1>3. PICK q : IsSorting(s, q) /\ Sorted(s) = [i \in DOMAIN s |-> s[q[i]]]
    BY SortedIs
<1>4. Percentile(acc, 50) = s[q[rank]]
  <2>1. Percentile(acc, 50) = Sorted(s)[IF rank < 1 THEN 1 ELSE IF rank > n THEN n ELSE rank]
      BY DEF Percentile
  <2>2. (IF rank < 1 THEN 1 ELSE IF rank > n THEN n ELSE rank) = rank
    <3> HIDE DEF rank, n
    <3> QED
        BY <1>1, <1>2
  <2> HIDE DEF rank, n
  <2> QED
      BY <1>1, <1>2, <1>3, <2>1, <2>2
<1> DEFINE v == s[q[rank]]
<1>5. /\ Under(s, v) \in Nat /\ Under(s, v) <= rank - 1
      /\ NotOver(s, v) \in Nat /\ rank <= NotOver(s, v)
  <2> HIDE DEF rank
  <2> QED
      BY <1>2, <1>3, RankTells
<1> HIDE DEF v, rank, n
<1>6. 2 * Under(s, v) < n /\ n <= 2 * NotOver(s, v)
    BY <1>1, <1>2, <1>5
<1> QED
    BY <1>4, <1>6 DEF v, n

-----------------------------------------------------------------------------
(* The figures of a target.                                                *)

\* Rows of probes: those that succeeded have a time and addresses.
Shaped(S) == \A row \in S : row.result.ok => /\ row.result.total \in Nat
                                             /\ row.result.ips # {}

LEMMA SeqMade ==
    ASSUME NEW T, NEW n \in Nat, NEW f, f = [i \in 1..n |-> f[i]], \A i \in 1..n : f[i] \in T
    PROVE  f \in Seq(T) /\ Len(f) = n
<1>1. f \in [1..n -> T]
    OBVIOUS
<1> QED
    BY <1>1

LEMMA SameSeq ==
    ASSUME NEW T, NEW n \in Nat, NEW a \in Seq(T), NEW b \in Seq(T),
           Len(a) = n + 1, Len(b) = n + 1, a[n + 1] = b[n + 1],
           \A i \in 1..n : a[i] = b[i]
    PROVE  a = b
<1>1. ASSUME NEW i \in 1..Len(a) PROVE a[i] = b[i]
  <2>1. i = n + 1 \/ i \in 1..n
      BY <1>1
  <2> QED
      BY <2>1
<1> QED
    BY <1>1, SeqEqual

LEMMA TotalsAppended ==
    ASSUME NEW T, \A row \in T : row.result.total \in Nat, NEW s \in Seq(T), NEW row \in T
    PROVE  /\ TotalsOf(s) \in Seq(Nat) /\ Len(TotalsOf(s)) = Len(s)
           /\ TotalsOf(Append(s, row)) = Append(TotalsOf(s), row.result.total)
<1> DEFINE n == Len(s)
           v == row.result.total
           a == TotalsOf(Append(s, row))
           b == Append(TotalsOf(s), v)
<1>1. /\ n \in Nat /\ DOMAIN s = 1..n /\ \A i \in 1..n : s[i].result.total \in Nat
      /\ v \in Nat
    OBVIOUS
<1>2. /\ TotalsOf(s) \in Seq(Nat) /\ Len(TotalsOf(s)) = n
      /\ \A i \in 1..n : TotalsOf(s)[i] = s[i].result.total
    BY <1>1 DEF TotalsOf
<1>3. /\ a \in Seq(Nat) /\ Len(a) = n + 1 /\ a[n + 1] = v
      /\ \A i \in 1..n : a[i] = s[i].result.total
  <2> DEFINE t == Append(s, row)
  <2>1. /\ DOMAIN t = 1..(n + 1) /\ t[n + 1] = row /\ \A i \in 1..n : t[i] = s[i]
      OBVIOUS
  <2> HIDE DEF t, n
  <2>2. DOMAIN TotalsOf(t) = 1..(n + 1) /\ \A i \in 1..(n + 1) : TotalsOf(t)[i] = t[i].result.total
      BY <2>1 DEF TotalsOf
  <2>3. \A i \in 1..n : i \in 1..(n + 1)
      BY <1>1
  <2>4. n + 1 \in 1..(n + 1) /\ \A i \in 1..(n + 1) : i = n + 1 \/ i \in 1..n
      BY <1>1
  <2>5. \A i \in 1..(n + 1) : TotalsOf(t)[i] \in Nat
      BY <1>1, <2>1, <2>2, <2>3, <2>4
  <2>6. TotalsOf(t) = [i \in 1..(n + 1) |-> TotalsOf(t)[i]]
      BY <2>1 DEF TotalsOf
  <2>7. TotalsOf(t) \in Seq(Nat) /\ Len(TotalsOf(t)) = n + 1
    <3> DEFINE f == TotalsOf(t)
               m == n + 1
    <3>1. m \in Nat /\ f = [i \in 1..m |-> f[i]] /\ \A i \in 1..m : f[i] \in Nat
        BY <1>1, <2>5, <2>6
    <3> HIDE DEF f, m
    <3>2. f \in Seq(Nat) /\ Len(f) = m
        BY <3>1, SeqMade
    <3> QED
        BY <3>2 DEF f, m
  <2> QED
      BY <2>1, <2>2, <2>3, <2>4, <2>7 DEF t
<1>4. /\ b \in Seq(Nat) /\ Len(b) = n + 1 /\ b[n + 1] = v
      /\ \A i \in 1..n : b[i] = s[i].result.total
    BY <1>1, <1>2
<1> HIDE DEF a, b
<1>5. a = b
  <2>1. n \in Nat /\ a[n + 1] = b[n + 1] /\ \A i \in 1..n : a[i] = b[i]
      BY <1>1, <1>3, <1>4
  <2> HIDE DEF n
  <2> QED
      BY <1>3, <1>4, <2>1, SameSeq
<1> QED
    BY <1>2, <1>5 DEF a, b

LEMMA SquaresAppended ==
    ASSUME NEW s \in Seq(Nat), NEW v \in Nat
    PROVE  /\ Squares(s) \in Seq(Int)
           /\ Squares(Append(s, v)) = Append(Squares(s), v * v)
<1> DEFINE n == Len(s)
           a == Squares(Append(s, v))
           b == Append(Squares(s), v * v)
<1>1. n \in Nat /\ DOMAIN s = 1..n /\ \A i \in 1..n : s[i] \in Nat
    OBVIOUS
<1>2. \A x \in Nat : x * x \in Int
    OBVIOUS
<1>3. /\ Squares(s) \in Seq(Int) /\ Len(Squares(s)) = n
      /\ \A i \in 1..n : Squares(s)[i] = s[i] * s[i]
    BY <1>1, <1>2 DEF Squares
<1>4. /\ a \in Seq(Int) /\ Len(a) = n + 1 /\ a[n + 1] = v * v
      /\ \A i \in 1..n : a[i] = s[i] * s[i]
  <2> DEFINE t == Append(s, v)
  <2>1. /\ DOMAIN t = 1..(n + 1) /\ t[n + 1] = v /\ \A i \in 1..n : t[i] = s[i]
      OBVIOUS
  <2> HIDE DEF t, n
  <2>2. DOMAIN Squares(t) = 1..(n + 1) /\ \A i \in 1..(n + 1) : Squares(t)[i] = t[i] * t[i]
      BY <2>1 DEF Squares
  <2>3. \A i \in 1..n : i \in 1..(n + 1)
      BY <1>1
  <2>4. n + 1 \in 1..(n + 1) /\ \A i \in 1..(n + 1) : i = n + 1 \/ i \in 1..n
      BY <1>1
  <2>5. \A i \in 1..(n + 1) : t[i] \in Nat
      BY <1>1, <2>1, <2>4
  <2>6. \A i \in 1..(n + 1) : Squares(t)[i] \in Int
      BY <1>2, <2>2, <2>5
  <2>7. Squares(t) = [i \in 1..(n + 1) |-> Squares(t)[i]]
      BY <2>1 DEF Squares
  <2>8. Squares(t) \in Seq(Int) /\ Len(Squares(t)) = n + 1
    <3> DEFINE f == Squares(t)
               m == n + 1
    <3>1. m \in Nat /\ f = [i \in 1..m |-> f[i]] /\ \A i \in 1..m : f[i] \in Int
        BY <1>1, <2>6, <2>7
    <3> HIDE DEF f, m
    <3>2. f \in Seq(Int) /\ Len(f) = m
        BY <3>1, SeqMade
    <3> QED
        BY <3>2 DEF f, m
  <2> QED
      BY <2>1, <2>2, <2>3, <2>4, <2>8 DEF t
<1>5. /\ b \in Seq(Int) /\ Len(b) = n + 1 /\ b[n + 1] = v * v
      /\ \A i \in 1..n : b[i] = s[i] * s[i]
    BY <1>1, <1>2, <1>3
<1> HIDE DEF a, b
<1>6. a = b
  <2>1. n \in Nat /\ a[n + 1] = b[n + 1] /\ \A i \in 1..n : a[i] = b[i]
      BY <1>1, <1>4, <1>5
  <2> HIDE DEF n
  <2> QED
      BY <1>4, <1>5, <2>1, SameSeq
<1> QED
    BY <1>3, <1>6 DEF a, b

\* What is kept of some samples ts.
Moments(acc, ts) ==
    /\ acc.count = Len(ts) /\ acc.recent = Latest(ts)
    /\ ts = <<>> => acc.mean = 0 /\ acc.m2 = 0
    /\ Stands(Len(ts), Scale, Sum(ts), Sum(Squares(ts)), acc.mean, acc.m2)

LEMMA NoMoments == Moments(NoSamples, <<>>)
<1>1. Squares(<<>>) = <<>> /\ <<>> \in Seq(Nat) /\ Len(<<>>) = 0
    BY DEF Squares
<1>2. Latest(<<>>) = <<>>
  <2>1. From(0) + 1 = 1 /\ From(0) \in Nat
      BY FromTells
  <2>2. Latest(<<>>) = SubSeq(<<>>, 1, 0)
      BY <1>1, <2>1 DEF Latest
  <2> QED
      BY <2>2, SubSeqEmpty
<1> QED
    BY <1>1, <1>2, SumEmpty, StatsAssumption DEF Moments, Stands, NoSamples

\* Push takes the moments of some samples to those of one sample more.
LEMMA MomentsKept ==
    ASSUME NEW acc, NEW ts \in Seq(Nat), NEW v \in Nat, Moments(acc, ts),
           \A n \in 1..(Len(ts) + 1) : Scale % n = 0
    PROVE  Moments(Push(acc, v), Append(ts, v))
<1> DEFINE n == Len(ts)
           t == Append(ts, v)
           next == NextMean(n, Scale, v, acc.mean)
           m2 == NextM2(n, Scale, v, acc.mean, acc.m2)
           S == Sum(ts)
           Q == Sum(Squares(ts))
<1>1. n \in Nat /\ Len(t) = n + 1 /\ t # <<>> /\ acc.count = n
      /\ acc.mean \in Int /\ acc.m2 \in Int /\ Scale \in Nat
      /\ (n = 0 => ts = <<>>)
  <2>1. n \in Nat /\ Len(t) = n + 1 /\ t # <<>> /\ (n = 0 => ts = <<>>)
      OBVIOUS
  <2> QED
      BY <2>1, StatsAssumption DEF Moments, Stands
<1>2. S \in Int /\ Sum(t) = S + v
    BY SumAppended
<1>3. Q \in Int /\ Sum(Squares(t)) = Q + v * v
  <2> DEFINE w == v * v
  <2>1. w \in Int
      OBVIOUS
  <2>2. Squares(ts) \in Seq(Int) /\ Squares(t) = Append(Squares(ts), w)
      BY SquaresAppended
  <2> HIDE DEF w, t
  <2>3. Sum(Squares(ts)) \in Int /\ Sum(Squares(t)) = Sum(Squares(ts)) + w
      BY <2>1, <2>2, SumAppended
  <2> QED
      BY <2>3 DEF w
<1>4. Stands(n, Scale, S, Q, acc.mean, acc.m2)
    BY DEF Moments
<1>5. /\ Push(acc, v).count = n + 1 /\ Push(acc, v).mean = next /\ Push(acc, v).m2 = m2
      /\ Push(acc, v).recent = Ring(acc.recent, v)
    BY <1>1 DEF Push, NextMean, NextM2
<1>6. Push(acc, v).recent = Latest(t)
    BY <1>5, RingKept DEF Moments
<1> HIDE DEF t, S, Q
<1>7. Stands(n + 1, Scale, S + v, Q + v * v, next, m2)
  <2>1. CASE n = 0
    <3>1. ts = <<>> /\ acc.mean = 0 /\ acc.m2 = 0 /\ S = 0 /\ Q = 0
      <4>1. ts = <<>> /\ Squares(ts) = <<>>
          BY <1>1, <2>1 DEF Squares
      <4> QED
          BY <4>1, SumEmpty DEF Moments, S, Q
    <3>2. next = Scale * v
      <4>1. \A x \in Int : x \div 1 = x
          OBVIOUS
      <4>2. Scale * v \in Int
          BY <1>1
      <4> QED
          BY <2>1, <3>1, <4>1, <4>2 DEF NextMean
    <3>3. m2 = 0
        BY <1>1, <3>1, <3>2 DEF NextM2
    <3> QED
        BY <1>1, <2>1, <3>1, <3>2, <3>3 DEF Stands
  <2>2. CASE n # 0
    <3>1. n \in Nat \ {0} /\ n \in 1..(n + 1) /\ n + 1 \in 1..(n + 1)
        BY <1>1, <2>2
    <3>2. Scale % n = 0 /\ Scale % (n + 1) = 0
        BY <3>1
    <3>3. Scale \in Int /\ S \in Int /\ Q \in Int /\ v \in Int
        BY <1>1, <1>2, <1>3
    <3> HIDE DEF n
    <3> QED
        BY <1>4, <3>1, <3>2, <3>3, WelfordStep
  <2> QED
      BY <2>1, <2>2
<1> HIDE DEF n, next, m2
<1> QED
    BY <1>1, <1>2, <1>3, <1>5, <1>6, <1>7 DEF Moments, t

\* The figures of a target are those of the rows found for it.
Figures(s, found) ==
    /\ DOMAIN s = DOMAIN NewStats
    /\ s.succeeded = Len(found) /\ s.ipChanges = Changes(found)
    /\ s.lastIps = IF found = <<>> THEN {} ELSE found[Len(found)].result.ips
    /\ Moments(s.total, TotalsOf(found))

LEMMA FieldsFailed ==
    ASSUME NEW s, DOMAIN s = DOMAIN NewStats, NEW r, ~r.ok
    PROVE  /\ DOMAIN RecordStats(s, r) = DOMAIN NewStats
           /\ RecordStats(s, r).sent = s.sent + 1
           /\ RecordStats(s, r).failed = s.failed + 1
           /\ RecordStats(s, r).succeeded = s.succeeded
           /\ RecordStats(s, r).ipChanges = s.ipChanges
           /\ RecordStats(s, r).lastIps = s.lastIps
           /\ RecordStats(s, r).total = s.total
<1> QED
    BY DEF RecordStats, NewStats

LEMMA FiguresStart == Figures(NewStats, <<>>)
<1>1. Changes(<<>>) = 0
  <2>1. {i \in 2..Len(<<>>) : <<>>[i - 1].result.ips # <<>>[i].result.ips} = {}
      OBVIOUS
  <2> QED
      BY <2>1, FS_EmptySet DEF Changes
<1>2. TotalsOf(<<>>) = <<>>
    BY DEF TotalsOf
<1> QED
    BY <1>1, <1>2, NoMoments DEF Figures, NewStats

\* A success moves every figure to that of one row more.
LEMMA FiguresKept ==
    ASSUME NEW s, NEW T, \A row \in T : row.result.total \in Nat /\ row.result.ips # {},
           NEW found \in Seq(T), NEW row \in T, row.result.ok, Figures(s, found),
           \A n \in 1..(Len(found) + 1) : Scale % n = 0
    PROVE  Figures(RecordStats(s, row.result), Append(found, row))
<1> DEFINE r == row.result
           n == Len(found)
           next == RecordStats(s, r)
           more == Append(found, row)
<1>1. /\ n \in Nat /\ Len(more) = n + 1 /\ more # <<>> /\ more[n + 1] = row
      /\ (found = <<>> <=> n = 0) /\ r.ips # {} /\ r.total \in Nat
    OBVIOUS
<1>2. /\ DOMAIN next = DOMAIN NewStats
      /\ next.succeeded = s.succeeded + 1
      /\ next.ipChanges
           = s.ipChanges + (IF r.ips # {} /\ s.lastIps \notin {{}, r.ips} THEN 1 ELSE 0)
      /\ next.lastIps = IF r.ips = {} THEN s.lastIps ELSE r.ips
      /\ next.total = Push(s.total, r.total)
  <2>1. DOMAIN s = DOMAIN NewStats /\ r.ok
      BY DEF Figures
  <2> HIDE DEF r
  <2> QED
      BY <2>1 DEF RecordStats, NewStats
<1>3. Changes(found) \in Nat /\ Changes(more)
        = Changes(found) + One(found # <<>> /\ found[Len(found)].result.ips # r.ips)
    BY ChangesAppended
<1>4. next.ipChanges = Changes(more)
  <2>1. (r.ips # {} /\ s.lastIps \notin {{}, r.ips})
          <=> (found # <<>> /\ found[Len(found)].result.ips # r.ips)
    <3>1. CASE found = <<>>
        BY <3>1 DEF Figures
    <3>2. CASE found # <<>>
      <4>1. found[n].result.ips # {} /\ s.lastIps = found[n].result.ips
          BY <1>1, <3>2 DEF Figures
      <4> QED
          BY <1>1, <3>2, <4>1
    <3> QED
        BY <3>1, <3>2
  <2>2. s.ipChanges = Changes(found)
      BY DEF Figures
  <2> HIDE DEF next, more
  <2> QED
      BY <1>2, <1>3, <2>1, <2>2 DEF One
<1>5. Moments(next.total, TotalsOf(more))
  <2>1. TotalsOf(found) \in Seq(Nat) /\ Len(TotalsOf(found)) = n
        /\ TotalsOf(more) = Append(TotalsOf(found), r.total)
      BY TotalsAppended
  <2>2. Moments(s.total, TotalsOf(found))
      BY DEF Figures
  <2>3. \A m \in 1..(Len(TotalsOf(found)) + 1) : Scale % m = 0
      BY <2>1
  <2>4. Moments(Push(s.total, r.total), Append(TotalsOf(found), r.total))
      BY <1>1, <2>1, <2>2, <2>3, MomentsKept
  <2> QED
      BY <1>2, <2>1, <2>4
<1> HIDE DEF next, more
<1>6. next.succeeded = n + 1 /\ next.lastIps = r.ips
    BY <1>1, <1>2 DEF Figures
<1> QED
    BY <1>1, <1>2, <1>4, <1>5, <1>6 DEF Figures, next, more

-----------------------------------------------------------------------------
(* The slots of the targets through a run.                                 *)

SentTo(u) == Cardinality({i \in DOMAIN rows : rows[i].target = u})

\* What the slot of a target says of the rows.
Recorded(u) ==
    LET s == slots[u].stats IN
    /\ Figures(s, SuccessesOf(u))
    /\ s.sent \in Nat /\ s.sent = SentTo(u) /\ s.sent <= args.count
    /\ Len(SuccessesOf(u)) <= s.sent
    /\ s.failed = s.sent - Len(SuccessesOf(u))

StatsInv ==
    command = "ping" =>
        /\ args \in Lines /\ DOMAIN slots = Urls
        /\ \E S : Shaped(S) /\ rows \in Seq(S)
        /\ \A u \in Urls : Recorded(u)

LEMMA StatsStart == StartPing => StatsInv'
<1> SUFFICES ASSUME StartPing PROVE StatsInv'
    OBVIOUS
<1>1. /\ slots' = [u \in Urls |-> NewSlot] /\ rows' = <<>> /\ args' \in Lines
    BY DEF StartPing, Start, Empty
<1>2. DOMAIN slots' = Urls /\ \A u \in Urls : slots'[u].stats = NewStats
    BY <1>1 DEF NewSlot
<1>3. Shaped({}) /\ rows' \in Seq({})
    BY <1>1 DEF Shaped
<1>4. args'.count \in Nat
    BY <1>1, ScaleAssumption
<1>5. ASSUME NEW u \in Urls PROVE Recorded(u)'
  <2>1. SuccessesOf(u)' = <<>>
      BY <1>1, FoundEmpty DEF SuccessesOf
  <2>2. SentTo(u)' = 0
    <3>1. {i \in DOMAIN rows' : rows'[i].target = u} = {}
        BY <1>1
    <3> QED
        BY <3>1, FS_EmptySet DEF SentTo
  <2>3. NewStats.sent = 0 /\ NewStats.failed = 0 /\ slots'[u].stats = NewStats
      BY <1>2 DEF NewStats
  <2> QED
      BY <1>4, <2>1, <2>2, <2>3, FiguresStart DEF Recorded
<1> QED
    BY <1>1, <1>2, <1>3, <1>5 DEF StatsInv

LEMMA StatsCollect == StatsInv /\ Collect => StatsInv'
<1> SUFFICES ASSUME StatsInv, Collect PROVE StatsInv'
    OBVIOUS
<1>1. /\ command = "ping" /\ args \in Lines /\ DOMAIN slots = Urls /\ (\A u \in Urls : Recorded(u))
      /\ UNCHANGED <<command, args>>
    BY DEF Collect, Running, StatsInv
<1>2. PICK v \in ToSet(args.targets) : \E r \in Results(v) :
        /\ slots[v].stats.sent < args.count
        /\ rows' = Append(rows, [target |-> v, result |-> r])
        /\ slots' = [slots EXCEPT ![v] = [stats |-> RecordStats(@.stats, r),
                                          last |-> IF r.ok THEN r ELSE @.last,
                                          verdict |-> Assess(r)]]
    BY DEF Collect
<1>3. PICK r \in Results(v) :
        /\ slots[v].stats.sent < args.count
        /\ rows' = Append(rows, [target |-> v, result |-> r])
        /\ slots' = [slots EXCEPT ![v] = [stats |-> RecordStats(@.stats, r),
                                          last |-> IF r.ok THEN r ELSE @.last,
                                          verdict |-> Assess(r)]]
    BY <1>2
<1>4. PICK S : Shaped(S) /\ rows \in Seq(S)
    BY <1>1 DEF StatsInv
<1> DEFINE row == [target |-> v, result |-> r]
           T == S \union {row}
<1>5. v \in Urls
    BY <1>1, LinesAssumption
<1>6. r.ok => r.total \in Nat /\ r.ips # {}
    BY TimingsAssumption DEF Results, Failure, Answered
<1>7. row \in T /\ row.target = v /\ row.result = r /\ Shaped(T) /\ rows \in Seq(T)
      /\ rows' = Append(rows, row) /\ rows' \in Seq(T)
    BY <1>3, <1>4, <1>6 DEF Shaped
<1>8. /\ DOMAIN slots' = Urls /\ slots'[v].stats = RecordStats(slots[v].stats, r)
      /\ \A u \in Urls \ {v} : slots'[u] = slots[u]
    BY <1>1, <1>3, <1>5
<1> HIDE DEF row, T
<1>9. \A u : /\ SuccessesOf(u) \in Seq(WantedOf(T, u))
             /\ SuccessesOf(u)' = Keeping(u, row, SuccessesOf(u))
    BY <1>7, FoundAppended DEF SuccessesOf
<1>10. \A u : SentTo(u) \in Nat /\ SentTo(u)' = SentTo(u) + One(u = v)
  <2> TAKE u
  <2> DEFINE n == Len(rows)
             A == {i \in DOMAIN rows : rows[i].target = u}
             B == {i \in DOMAIN rows' : rows'[i].target = u}
  <2>1. /\ n \in Nat /\ DOMAIN rows = 1..n /\ DOMAIN rows' = 1..(n + 1)
        /\ rows'[n + 1] = row /\ \A i \in 1..n : rows'[i] = rows[i]
      BY <1>7
  <2>2. A \subseteq 1..n /\ B = A \union (IF u = v THEN {n + 1} ELSE {})
    <3> HIDE DEF n
    <3>1. \A i \in 1..(n + 1) : i \in 1..n \/ i = n + 1
        BY <2>1
    <3>2. \A i \in 1..n : i \in 1..(n + 1)
        BY <2>1
    <3>3. n + 1 \in 1..(n + 1)
        BY <2>1
    <3> QED
        BY <1>7, <2>1, <3>1, <3>2, <3>3
  <2> HIDE DEF n, A, B
  <2>3. Cardinality(A) \in Nat /\ Cardinality(B) = Cardinality(A) + One(u = v)
    <3>1. CASE u = v
        BY <2>1, <2>2, <3>1, OneMore DEF One
    <3>2. CASE u # v
      <4>1. B = A
          BY <2>2, <3>2
      <4>2. Cardinality(A) \in Nat
          BY <2>1, <2>2, OneMore
      <4> QED
          BY <3>2, <4>1, <4>2 DEF One
    <3> QED
        BY <3>1, <3>2
  <2> QED
      BY <2>3 DEF SentTo, A, B
<1>11. args.count \in Nat /\ \A n \in 1..args.count : Scale % n = 0
    BY <1>1, ScaleAssumption
<1>12. ASSUME NEW u \in Urls PROVE Recorded(u)'
  <2>1. Recorded(u)
      BY <1>1
  <2>2. CASE u # v
    <3>1. SuccessesOf(u)' = SuccessesOf(u) /\ SentTo(u)' = SentTo(u)
        BY <1>7, <1>9, <1>10, <2>2 DEF Keeping, Wanted, One
    <3> QED
        BY <1>1, <1>8, <2>1, <2>2, <3>1 DEF Recorded
  <2>3. CASE u = v
    <3> DEFINE s == slots[v].stats
               found == SuccessesOf(v)
               next == RecordStats(s, r)
    <3>1. /\ s.sent \in Nat /\ s.sent = SentTo(v) /\ s.sent < args.count
          /\ Len(found) <= s.sent /\ Figures(s, found)
          /\ s.failed = s.sent - Len(found) /\ DOMAIN s = DOMAIN NewStats
        BY <1>3, <2>1, <2>3 DEF Recorded, Figures
    <3>2. found \in Seq(WantedOf(T, v)) /\ Len(found) \in Nat
        BY <1>9
    <3>3. SentTo(v)' = SentTo(v) + 1 /\ slots'[v].stats = next
        BY <1>8, <1>10 DEF One
    <3>4. CASE ~r.ok
      <4>1. SuccessesOf(v)' = found
          BY <1>7, <1>9, <3>4 DEF Keeping, Wanted
      <4>2. /\ DOMAIN next = DOMAIN NewStats /\ next.sent = s.sent + 1
            /\ next.failed = s.failed + 1 /\ next.succeeded = s.succeeded
            /\ next.ipChanges = s.ipChanges /\ next.lastIps = s.lastIps
            /\ next.total = s.total
          BY <3>1, <3>4, FieldsFailed
      <4> HIDE DEF s, found, next
      <4>3. Figures(next, found)
          BY <3>1, <4>2 DEF Figures
      <4>4. /\ next.sent \in Nat /\ next.sent = SentTo(v)' /\ next.sent <= args.count
            /\ Len(found) <= next.sent /\ next.failed = next.sent - Len(found)
          BY <1>11, <3>1, <3>2, <3>3, <4>2
      <4> QED
          BY <1>1, <2>3, <3>3, <4>1, <4>3, <4>4 DEF Recorded
    <3>5. CASE r.ok
      <4> DEFINE more == Append(found, row)
      <4>1. SuccessesOf(v)' = more /\ row \in WantedOf(T, v)
          BY <1>7, <1>9, <3>5 DEF Keeping, Wanted, WantedOf
      <4>2. next.sent = s.sent + 1 /\ next.failed = s.failed
          BY <3>1, <3>5 DEF RecordStats, NewStats
      <4>3. \A w \in WantedOf(T, v) : w.result.total \in Nat /\ w.result.ips # {}
          BY <1>7 DEF WantedOf, Wanted, Shaped
      <4>4. \A n \in 1..(Len(found) + 1) : Scale % n = 0
        <5>1. Len(found) + 1 <= args.count
            BY <1>11, <3>1, <3>2
        <5>2. \A n \in 1..(Len(found) + 1) : n \in 1..args.count
            BY <1>11, <3>2, <5>1
        <5> QED
            BY <1>11, <5>2
      <4>5. Len(more) = Len(found) + 1
          BY <3>2
      <4> HIDE DEF s, found
      <4>6. Figures(RecordStats(s, row.result), Append(found, row))
        <5> DEFINE W == WantedOf(T, v)
        <5>1. /\ found \in Seq(W) /\ row \in W /\ row.result.ok /\ Figures(s, found)
              /\ \A w \in W : w.result.total \in Nat /\ w.result.ips # {}
            BY <1>7, <3>1, <3>2, <3>5, <4>1, <4>3
        <5> HIDE DEF W
        <5> QED
            BY <4>4, <5>1, FiguresKept
      <4>7. Figures(next, more)
          BY <1>7, <4>6
      <4> HIDE DEF next, more
      <4>8. /\ next.sent \in Nat /\ next.sent = SentTo(v)' /\ next.sent <= args.count
            /\ Len(more) <= next.sent /\ next.failed = next.sent - Len(more)
          BY <1>11, <3>1, <3>2, <3>3, <4>2, <4>5
      <4> QED
          BY <1>1, <2>3, <3>3, <4>1, <4>7, <4>8 DEF Recorded
    <3> QED
        BY <3>4, <3>5
  <2> QED
      BY <2>2, <2>3
<1> QED
    BY <1>1, <1>7, <1>8, <1>12 DEF StatsInv

\* The other steps leave the rows and the slots of a run alone.
LEMMA StatsLeft ==
    ASSUME StatsInv, UNCHANGED <<command, args, rows, slots>> PROVE StatsInv'
<1>1. \A u : SuccessesOf(u)' = SuccessesOf(u) /\ SentTo(u)' = SentTo(u)
    BY DEF SuccessesOf, SentTo
<1>2. \A u : Recorded(u) => Recorded(u)'
    BY <1>1 DEF Recorded
<1> QED
    BY <1>2 DEF StatsInv

LEMMA StatsKept == StatsInv /\ [CommandsNext]_vars => StatsInv'
<1> SUFFICES ASSUME StatsInv, [CommandsNext]_vars PROVE StatsInv'
    OBVIOUS
<1>1. CASE UNCHANGED vars
  <2>1. UNCHANGED <<command, args, rows, slots>>
      BY <1>1 DEF vars, local, pingVars
  <2> QED
      BY <2>1, StatsLeft
<1>2. CASE FileLess
  <2>1. command' # "ping"
      BY <1>2, Dispatch DEF FileLess
  <2> QED
      BY <2>1 DEF StatsInv
<1>3. CASE StartPing
    BY <1>3, StatsStart
<1>4. CASE Collect
    BY <1>4, StatsCollect
<1>5. CASE EndCollecting \/ Seed \/ UnreadableReference \/ NotComparable \/ CompareWith
           \/ Write \/ Killed
  <2>1. UNCHANGED <<command, args, rows, slots>>
      BY <1>5 DEF EndCollecting, Seed, UnreadableReference, NotComparable, CompareWith, Write,
         Killed, Truncate, Leave, Exit
  <2> QED
      BY <2>1, StatsLeft
<1>6. CASE Provide \/ Discard
  <2>1. command' = "none"
      BY <1>6 DEF Provide, Discard, local
  <2> QED
      BY <2>1 DEF StatsInv
<1>7. CASE Leaving
  <2>1. command' = "none"
      BY <1>7 DEF Leaving, Gone
  <2> QED
      BY <2>1 DEF StatsInv
<1> QED
    BY <1>1, <1>2, <1>3, <1>4, <1>5, <1>6, <1>7 DEF CommandsNext, PingNext, Environment

LEMMA StatsTell == StatsInv => StatsFaithful
<1> SUFFICES ASSUME StatsInv, command = "ping", NEW u \in Urls
             PROVE  LET s == slots[u].stats
                        ts == TotalsOf(SuccessesOf(u))
                        n == Len(ts)
                        acc == s.total
                    IN /\ s.sent = Cardinality({i \in DOMAIN rows : rows[i].target = u})
                       /\ acc.count = n /\ s.succeeded = n /\ s.failed = s.sent - n
                       /\ s.ipChanges = Changes(SuccessesOf(u))
                       /\ n * acc.mean = Scale * Sum(ts)
                       /\ n * acc.m2 = Scale * Scale * (n * Sum(Squares(ts)) - Sum(ts) * Sum(ts))
                       /\ acc.recent = SubSeq(ts, (IF n > RingCap THEN n - RingCap ELSE 0) + 1, n)
                       /\ n > 0 => LET p == Percentile(acc, 50)
                                       m == Len(acc.recent)
                                       Below(v) == Cardinality({i \in 1..m : acc.recent[i] < v})
                                       NoMore(v) == Cardinality({i \in 1..m : acc.recent[i] <= v})
                                   IN 2 * Below(p) < m /\ m <= 2 * NoMore(p)
    BY DEF StatsFaithful
<1> DEFINE s == slots[u].stats
           found == SuccessesOf(u)
           ts == TotalsOf(found)
           n == Len(ts)
           acc == s.total
<1>1. PICK S : Shaped(S) /\ rows \in Seq(S)
    BY DEF StatsInv
<1>2. Recorded(u)
    BY DEF StatsInv
<1>3. ts \in Seq(Nat) /\ n = Len(found) /\ n \in Nat
  <2> DEFINE W == WantedOf(S, u)
  <2>1. found \in Seq(W)
    <3>1. CASE S = {}
      <4>1. rows = <<>>
          BY <1>1, <3>1
      <4> QED
        <5>1. found = <<>>
            BY <4>1, FoundEmpty DEF SuccessesOf
        <5> HIDE DEF found, W
        <5> QED
            BY <5>1
    <3>2. CASE S # {}
      <4>1. PICK row \in S : TRUE
          BY <3>2
      <4> QED
          BY <1>1, <4>1, FoundAppended DEF SuccessesOf
    <3> QED
        BY <3>1, <3>2
  <2>2. \A row \in W : row.result.total \in Nat
      BY <1>1 DEF WantedOf, Wanted, Shaped
  <2> HIDE DEF W, found
  <2>3. CASE found = <<>>
      BY <2>3 DEF TotalsOf
  <2>4. CASE found # <<>>
    <3>1. found[1] \in W
        BY <2>1, <2>4
    <3>2. TotalsOf(found) \in Seq(Nat) /\ Len(TotalsOf(found)) = Len(found)
        BY <2>1, <2>2, <3>1, TotalsAppended
    <3> QED
        BY <3>2
  <2> QED
      BY <2>3, <2>4
<1>4. /\ s.sent = SentTo(u) /\ s.failed = s.sent - Len(found) /\ s.succeeded = Len(found)
      /\ s.ipChanges = Changes(found) /\ Moments(acc, ts)
    BY <1>2 DEF Recorded, Figures
<1>5. /\ acc.count = n /\ acc.recent = Latest(ts)
      /\ n * acc.mean = Scale * Sum(ts)
      /\ n * acc.m2 = Scale * Scale * (n * Sum(Squares(ts)) - Sum(ts) * Sum(ts))
    BY <1>4 DEF Moments, Stands
<1>6. acc.recent = SubSeq(ts, (IF n > RingCap THEN n - RingCap ELSE 0) + 1, n)
    BY <1>5 DEF Latest, From
<1>7. n > 0 => /\ 2 * Under(acc.recent, Percentile(acc, 50)) < Len(acc.recent)
               /\ Len(acc.recent) <= 2 * NotOver(acc.recent, Percentile(acc, 50))
  <2> SUFFICES ASSUME n > 0
               PROVE  /\ 2 * Under(acc.recent, Percentile(acc, 50)) < Len(acc.recent)
                      /\ Len(acc.recent) <= 2 * NotOver(acc.recent, Percentile(acc, 50))
      OBVIOUS
  <2> HIDE DEF n, ts, acc
  <2>1. Latest(ts) \in Seq(Nat) /\ Len(Latest(ts)) = n - From(n)
      BY <1>3, LatestProperties DEF n
  <2>2. n - From(n) > 0
      BY <1>3, StatsAssumption DEF From
  <2>3. acc.recent \in Seq(Nat) /\ acc.recent # <<>>
      BY <1>5, <2>1, <2>2
  <2> QED
      BY <2>3, MedianHalves
<1> QED
    BY <1>3, <1>4, <1>5, <1>6, <1>7 DEF SentTo, Under, NotOver

\* The statistics of every target are those of the definition, after any number
\* of probes and for a ring of any size.
THEOREM StatsHold == CommandsSpec => []StatsFaithful
<1>1. CommandsInit => StatsInv
    BY DEF CommandsInit, Init, StatsInv
<1> QED
    BY <1>1, StatsKept, StatsTell, PTL DEF CommandsSpec
=============================================================================
