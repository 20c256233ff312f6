------------------------------ MODULE ProbeProofs ------------------------------
(***************************************************************************)
(* A probe keeps its time limit, the resolvers share it fairly, and its    *)
(* result is coherent, for any number of resolvers, redirects and calls,   *)
(* and any deadline, cap and grace.                                        *)
(*                                                                         *)
(* The heart of the fair division: whoever is asked is given an even share *)
(* of the time that is left, so what is left after it still has an even    *)
(* share of the whole for each of those behind it.                         *)
(***************************************************************************)
EXTENDS Probe, TLAPS

-----------------------------------------------------------------------------
(* Division.                                                               *)

LEMMA Quotient ==
  ASSUME NEW x \in Nat, NEW k \in Nat \ {0}
  PROVE  x \div k \in Nat /\ k * (x \div k) <= x /\ x < k * (x \div k) + k
OBVIOUS

LEMMA TimesMonotone ==
  ASSUME NEW k \in Nat, NEW a \in Nat, NEW b \in Nat, a <= b
  PROVE  k * a \in Nat /\ k * a <= k * b
OBVIOUS

\* An even share s of x among k is no more than the k-th part of it.
LEMMA ShareFits ==
  ASSUME NEW x \in Nat, NEW k \in Nat \ {0}, NEW s \in Nat, k * s <= x
  PROVE  s <= x \div k
<1> DEFINE q == x \div k
<1>1. q \in Nat /\ x < k * (q + 1)
  BY Quotient
<1>2. CASE s >= q + 1
  <2>1. k * (q + 1) <= k * s
    BY <1>1, <1>2, TimesMonotone
  <2> QED
    BY <1>1, <2>1
<1> QED
  BY <1>1, <1>2

\* What is left when one of k has had its part still has a share for the others.
LEMMA ShareRemains ==
  ASSUME NEW x \in Nat, NEW k \in Nat \ {0}, NEW s \in Nat, k * s <= x,
         NEW b \in Nat, b <= x \div k
  PROVE  /\ x - b >= (k - 1) * s
         /\ b <= x
         /\ x > 0 /\ k > 1 => b < x
<1> DEFINE q == x \div k
<1>1. q \in Nat /\ k * q <= x /\ s <= q
  BY Quotient, ShareFits
<1>2. (k - 1) * s <= (k - 1) * q /\ (k - 1) * q \in Nat
  BY <1>1, TimesMonotone
<1>3. (k - 1) * q = k * q - q
  BY <1>1
<1>4. x - b >= (k - 1) * s /\ b <= x
  BY <1>1, <1>2, <1>3
<1>5. ASSUME x > 0, k > 1 PROVE b < x
  <2>1. 1 * q <= (k - 1) * q
    BY <1>1, <1>5
  <2> QED
    BY <1>1, <1>3, <1>5, <2>1
<1> QED
  BY <1>4, <1>5

-----------------------------------------------------------------------------
(* The resolution.                                                         *)

LEMMA DnsNumbers == /\ NServers \in Nat \ {0}
                    /\ Deadline \in Nat /\ QueryCap \in Nat /\ Grace \in Nat
BY DnsAssumption

Share == Smaller((Deadline - start) \div NServers, QueryCap)
Left == NServers - server + 1   \* servers that have not answered yet

DnsTypeOK ==
    /\ now \in Nat /\ start \in Nat /\ expiry \in Nat
    /\ server \in 1..(NServers + 1)
    /\ pending \in SUBSET Families /\ got \in SUBSET Families
    /\ grace \in Nat \cup {Never} /\ gotAt \in Nat \cup {Never}
    /\ outcome \in {"none", "ok", "failed", "timeout"}
    /\ given \in [Servers -> Int]

\* No timer is missed, and none is set beyond the deadline.
ClockInv ==
    /\ start <= now /\ now <= Deadline
    /\ Resolving /\ pending # {} =>
          server \in Servers /\ now <= expiry /\ expiry <= Deadline
    /\ outcome = "timeout" => now = Deadline

ShareInv == start < Deadline =>
    /\ \A s \in Servers : s < server => given[s] >= Share
    /\ Resolving /\ pending = {} /\ server <= NServers =>
          now < Deadline /\ Left * Share <= Deadline - now
    /\ Resolving /\ pending # {} =>
          /\ given[server] >= Share
          /\ (Left - 1) * Share <= Deadline - expiry
          /\ server < NServers => expiry < Deadline
    /\ outcome \in {"failed", "timeout"} => \A s \in Servers : given[s] >= Share

\* From the first query that ended, the other one has the grace.
SilentInv ==
    /\ got = {} <=> gotAt = Never
    /\ got # {} => gotAt \in start..now /\ pending # Families
    /\ Resolving /\ pending = {} => got = {}
    /\ Resolving /\ pending # {} /\ pending # Families => grace # Never /\ now <= grace
    /\ Resolving /\ got # {} => grace <= gotAt + Grace
    /\ outcome = "ok" => got # {} /\ now <= gotAt + Grace

DnsInv == DnsTypeOK /\ ClockInv /\ ShareInv /\ SilentInv

\* A resolution begins with a share for every server.
LEMMA Begins ==
  ASSUME NEW t \in Nat, t <= Deadline, BeginAt(t)
  PROVE  DnsInv'
<1> USE DnsNumbers, DnsAssumption DEF BeginAt
<1>1. DnsTypeOK' /\ ClockInv'
  BY DEF DnsTypeOK, ClockInv, Servers, Never, Resolving
<1>2. SilentInv'
  BY DEF SilentInv, Never, Resolving
<1>3. ShareInv'
  <2> SUFFICES ASSUME t < Deadline
               PROVE  NServers * Share' <= Deadline - t
    BY DEF ShareInv, Left, Resolving, Servers
  <2> DEFINE q == (Deadline - t) \div NServers
  <2>1. q \in Nat /\ NServers * q <= Deadline - t
    BY Quotient
  <2>2. Share' \in Nat /\ Share' <= q
    BY <2>1 DEF Share, Smaller
  <2>3. PICK s \in Nat, r \in Nat : s = Share' /\ r = q
    BY <2>1, <2>2
  <2>4. NServers * s <= NServers * r
    BY <2>2, <2>3, TimesMonotone
  <2>5. NServers * r <= Deadline - t
    <3> HIDE DEF q
    <3> QED
      BY <2>1, <2>3
  <2>6. NServers * s \in Nat /\ NServers * r \in Nat
    BY TimesMonotone, <2>4
  <2>7. NServers * s <= Deadline - t
    BY <2>4, <2>5, <2>6
  <2> QED
    BY <2>3, <2>7
<1> QED
  BY <1>1, <1>2, <1>3 DEF DnsInv

LEMMA BudgetFair ==
  ASSUME DnsInv, Resolving, pending = {}, server \in Servers, now < Deadline
  PROVE  /\ Budget \in Nat /\ now + Budget <= Deadline
         /\ start < Deadline =>
               /\ Share <= Budget
               /\ (Left - 1) * Share <= Deadline - (now + Budget)
               /\ server < NServers => now + Budget < Deadline
<1> USE DnsNumbers
<1> DEFINE x == Deadline - now
           k == Left
<1>1. /\ x \in Nat /\ x > 0 /\ k \in Nat \ {0} /\ start \in Nat /\ now \in Nat
      /\ server < NServers <=> k > 1
  BY DEF DnsInv, DnsTypeOK, Left, Servers
<1>2. x \div k \in Nat /\ k * (x \div k) <= x
  BY <1>1, Quotient
<1>3. Budget \in Nat /\ Budget <= x \div k /\ (Budget = x \div k \/ Budget = QueryCap)
  BY <1>1, <1>2 DEF Budget, Smaller, Left
<1>4. Budget <= x
  <2>1. k * 0 <= x
    BY <1>1
  <2> QED
    BY <1>1, <1>3, <2>1, ShareRemains
<1>5. ASSUME start < Deadline
      PROVE  /\ Share <= Budget
             /\ (Left - 1) * Share <= Deadline - (now + Budget)
             /\ server < NServers => now + Budget < Deadline
  <2>1. k * Share <= x
    BY <1>5 DEF DnsInv, ShareInv, Servers
  <2>2. Share \in Nat /\ Share <= QueryCap
    <3>1. (Deadline - start) \div NServers \in Nat
      BY <1>1, <1>5, Quotient
    <3> QED
      BY <3>1 DEF Share, Smaller
  <2>3. Share <= x \div k
    BY <1>1, <2>1, <2>2, ShareFits
  <2>4. x - Budget >= (k - 1) * Share /\ (k > 1 => Budget < x)
    BY <1>1, <1>3, <2>1, <2>2, ShareRemains
  <2> QED
    BY <1>1, <1>3, <2>2, <2>3, <2>4
<1> QED
  BY <1>1, <1>3, <1>4, <1>5

LEMMA Asking == DnsInv /\ Ask => DnsInv'
<1> SUFFICES ASSUME DnsInv, Ask PROVE DnsInv'
  OBVIOUS
<1> USE DnsNumbers, DnsAssumption
<1>0. Resolving /\ pending = {} /\ server \in Servers /\ now < Deadline
  BY DEF Ask
<1>1. /\ Budget \in Nat /\ now + Budget <= Deadline
      /\ start < Deadline =>
               /\ Share <= Budget
               /\ (Left - 1) * Share <= Deadline - (now + Budget)
               /\ server < NServers => now + Budget < Deadline
  BY <1>0, BudgetFair
<1>2. DnsTypeOK'
  BY <1>0, <1>1 DEF Ask, DnsInv, DnsTypeOK, Never, Servers
<1>3. ClockInv'
  BY <1>0, <1>1 DEF Ask, DnsInv, DnsTypeOK, ClockInv, Resolving
<1>4. SilentInv'
  BY <1>0 DEF Ask, DnsInv, DnsTypeOK, SilentInv, Resolving
<1>5. ShareInv'
  <2>1. /\ Share' = Share /\ Left' = Left /\ start' = start /\ outcome' = "none"
        /\ server' = server /\ pending' # {} /\ expiry' = now + Budget
        /\ given' = [given EXCEPT ![server] = Budget]
    BY <1>0 DEF Ask, Share, Left, Resolving
  <2>2. \A s \in Servers : given'[s] = IF s = server THEN Budget ELSE given[s]
    BY <2>1, <1>0 DEF DnsInv, DnsTypeOK
  <2>3. start < Deadline => \A s \in Servers : s < server => given'[s] >= Share
    BY <2>2, <1>0 DEF DnsInv, ShareInv, Servers
  <2> QED
    BY <2>1, <2>2, <2>3, <1>0, <1>1 DEF ShareInv, Resolving
<1> QED
  BY <1>2, <1>3, <1>4, <1>5 DEF DnsInv

LEMMA Failing == DnsInv /\ (GiveUp \/ HardCap) => DnsInv'
<1> SUFFICES ASSUME DnsInv, GiveUp \/ HardCap PROVE DnsInv'
  OBVIOUS
<1> USE DnsNumbers
<1>1. /\ UNCHANGED <<now, server, pending, expiry, grace, got, start, given, gotAt>>
      /\ Resolving
      /\ \/ outcome' = "failed" /\ pending = {} /\ (server > NServers \/ now >= Deadline)
         \/ outcome' = "timeout" /\ pending # {} /\ now >= Deadline
  BY DEF GiveUp, HardCap
<1>2. DnsTypeOK' /\ ClockInv'
  BY <1>1 DEF DnsInv, DnsTypeOK, ClockInv, Resolving
<1>3. SilentInv'
  BY <1>1 DEF DnsInv, SilentInv, Resolving
<1>4. ShareInv'
  <2> SUFFICES ASSUME start < Deadline PROVE \A s \in Servers : given[s] >= Share
    BY <1>1 DEF ShareInv, Resolving, Share, Left, DnsInv
  <2>1. CASE pending = {}
    <3>1. server > NServers
      BY <1>1, <2>1 DEF DnsInv, DnsTypeOK, ShareInv
    <3> QED
      BY <3>1 DEF DnsInv, DnsTypeOK, ShareInv, Servers
  <2>2. CASE pending # {}
    <3>1. server \in Servers /\ ~(server < NServers)
      BY <1>1, <2>2 DEF DnsInv, DnsTypeOK, ClockInv, ShareInv
    <3>2. \A s \in Servers : s < server \/ s = server
      BY <3>1 DEF Servers
    <3> QED
      BY <1>1, <2>2, <3>2 DEF DnsInv, ShareInv
  <2> QED
    BY <2>1, <2>2
<1> QED
  BY <1>2, <1>3, <1>4 DEF DnsInv

\* A server has answered, or has not in time.
LEMMA Settling ==
  ASSUME DnsInv, Resolving, pending # {},
         NEW rest \in SUBSET pending, rest # pending,
         NEW addresses \in SUBSET Families, got \subseteq addresses,
         Settle(rest, addresses),
         UNCHANGED <<now, expiry, start, given>>,
         gotAt' = IF got = {} /\ addresses # {} THEN now ELSE gotAt,
         grace' \in Nat,
         rest # {} => now <= grace',
         addresses # {} => \/ grace' <= gotAt' + Grace
                           \/ rest = {},
         rest = {} /\ got # {} => now <= gotAt + Grace
  PROVE  DnsInv'
<1> USE DnsNumbers, DnsAssumption DEF Settle
<1>a. /\ DnsTypeOK /\ ClockInv /\ ShareInv /\ SilentInv
      /\ server \in Servers /\ outcome = "none" /\ now <= expiry /\ expiry <= Deadline
      /\ now \in Nat /\ start \in Nat /\ expiry \in Nat /\ start <= now
  BY DEF DnsInv, DnsTypeOK, ClockInv, Resolving
<1>1. DnsTypeOK'
  BY <1>a DEF DnsTypeOK, Servers
<1>2. ClockInv'
  BY <1>a DEF ClockInv, Resolving
<1>3. SilentInv'
  <2>1. gotAt' = Never <=> addresses = {}
    <3>1. CASE got # {}
      <4>1. addresses # {} /\ gotAt' = gotAt
        BY <3>1
      <4> QED
        BY <1>a, <3>1, <4>1 DEF SilentInv
    <3>2. CASE got = {} /\ addresses = {}
      BY <1>a, <3>2 DEF SilentInv
    <3>3. CASE got = {} /\ addresses # {}
      <4>1. gotAt' = now /\ now \in Nat
        BY <1>a, <3>3
      <4>2. now # Never
        BY <4>1 DEF Never
      <4> QED
        BY <4>1, <4>2, <3>3
    <3> QED
      BY <3>1, <3>2, <3>3
  <2>2. addresses # {} => gotAt' \in start..now
    BY <1>a DEF SilentInv
  <2>3. rest # Families
    BY <1>a DEF DnsTypeOK
  <2>4. addresses # {} /\ rest = {} => now <= gotAt' + Grace
    BY <1>a
  <2> QED
    BY <1>a, <2>1, <2>2, <2>3, <2>4 DEF SilentInv, Resolving, Never
<1>4. ShareInv'
  <2> SUFFICES ASSUME start < Deadline PROVE ShareInv'
    BY DEF ShareInv
  <2>1. Share' = Share
    BY DEF Share
  <2>2. CASE ~(rest = {} /\ addresses = {})
    BY <1>a, <2>1, <2>2 DEF ShareInv, Resolving, Left
  <2>3. CASE rest = {} /\ addresses = {}
    <3>1. server' = server + 1 /\ outcome' = "none" /\ pending' = {}
      BY <1>a, <2>3
    <3>2. Left' = Left - 1
      BY <1>a, <3>1 DEF Left, Servers
    <3>3. \A s \in Servers : s < server' => s < server \/ s = server
      BY <1>a, <3>1 DEF Servers
    <3>4. \A s \in Servers : s < server' => given[s] >= Share
      BY <1>a, <3>3 DEF ShareInv, Resolving
    <3>5. server' <= NServers => server < NServers
      BY <1>a, <3>1 DEF Servers
    <3>6. /\ (Left - 1) * Share <= Deadline - expiry
          /\ server < NServers => expiry < Deadline
      BY <1>a DEF ShareInv, Resolving
    <3>7. server' <= NServers => now < Deadline
      BY <1>a, <3>5, <3>6
    <3>8. (Left - 1) * Share \in Int
      <4>1. (Deadline - start) \div NServers \in Nat
        BY <1>a, Quotient
      <4>2. Share \in Nat
        BY <4>1 DEF Share, Smaller
      <4> QED
        BY <4>2, <1>a DEF Left, Servers
    <3>9. (Left - 1) * Share <= Deadline - now
      BY <1>a, <3>6, <3>8
    <3> QED
      BY <2>1, <3>1, <3>2, <3>4, <3>7, <3>9 DEF ShareInv, Resolving
  <2> QED
    BY <2>2, <2>3
<1> QED
  BY <1>1, <1>2, <1>3, <1>4 DEF DnsInv

LEMMA Ending == DnsInv /\ (GraceOver \/ \E f \in Families : QueryEnds(f)) => DnsInv'
<1> SUFFICES ASSUME DnsInv, GraceOver \/ \E f \in Families : QueryEnds(f) PROVE DnsInv'
  OBVIOUS
<1> USE DnsNumbers, DnsAssumption
<1>1. CASE GraceOver
  <2>1. /\ Resolving /\ pending # {} /\ grace # Never /\ now >= grace
        /\ Settle({}, got) /\ UNCHANGED <<now, expiry, grace, start, given, gotAt>>
    BY <1>1 DEF GraceOver
  <2>2. /\ grace' \in Nat /\ got \in SUBSET Families
        /\ got # {} => now <= gotAt + Grace
    <3>1. now \in Nat /\ grace \in Nat
      BY <2>1 DEF DnsInv, DnsTypeOK
    <3>2. got # {} => pending # Families /\ gotAt \in Nat
      BY DEF DnsInv, SilentInv, DnsTypeOK, Never
    <3>3. got # {} => now <= grace /\ grace <= gotAt + Grace
      BY <2>1, <3>2 DEF DnsInv, SilentInv
    <3> QED
      BY <2>1, <3>1, <3>2, <3>3 DEF DnsInv, DnsTypeOK
  <2>3. gotAt' = IF got = {} /\ got # {} THEN now ELSE gotAt
    BY <2>1
  <2> QED
    BY <2>1, <2>2, <2>3, Settling
<1>2. ASSUME NEW f \in Families, QueryEnds(f) PROVE DnsInv'
  <2>1. PICK found \in {{}, {f}} :
           /\ Settle(pending \ {f}, got \cup found)
           /\ gotAt' = IF got = {} /\ found # {} THEN now ELSE gotAt
    BY <1>2 DEF QueryEnds
  <2> DEFINE rest == pending \ {f}
             addresses == got \cup found
  <2>2. /\ Resolving /\ f \in pending /\ UNCHANGED <<now, expiry, start, given>>
        /\ grace' = IF pending = Families THEN now + Grace ELSE grace
    BY <1>2 DEF QueryEnds, GraceEnd
  <2>3. /\ now \in Nat /\ got \in SUBSET Families /\ addresses \in SUBSET Families
        /\ pending # {} /\ rest \in SUBSET pending /\ rest # pending
        /\ gotAt' = IF got = {} /\ addresses # {} THEN now ELSE gotAt
    BY <2>1, <2>2 DEF DnsInv, DnsTypeOK
  <2>4. pending # Families => grace \in Nat /\ now <= grace
    BY <2>2, <2>3 DEF DnsInv, DnsTypeOK, SilentInv
  <2>5. grace' \in Nat /\ now <= grace'
    BY <2>2, <2>3, <2>4
  <2>6. got # {} => /\ pending # Families /\ gotAt' = gotAt /\ gotAt \in Nat
                    /\ grace <= gotAt + Grace
    BY <2>2, <2>3 DEF DnsInv, DnsTypeOK, SilentInv, Never
  <2>7. rest = {} /\ got # {} => now <= gotAt + Grace
    <3> SUFFICES ASSUME got # {} PROVE now <= gotAt + Grace
      OBVIOUS
    <3>1. grace \in Nat /\ now <= grace /\ grace <= gotAt + Grace
      BY <2>4, <2>6
    <3>2. gotAt \in Nat
      BY <2>6
    <3> QED
      BY <2>3, <3>1, <3>2
  <2>8. addresses # {} => grace' <= gotAt' + Grace \/ rest = {}
    <3>1. CASE got # {}
      BY <3>1, <2>2, <2>6
    <3>2. CASE got = {} /\ addresses # {} /\ pending = Families
      BY <3>2, <2>2, <2>3
    <3>3. CASE pending # Families
      <4>1. rest = {}
        BY <3>3, <2>2 DEF DnsInv, DnsTypeOK
      <4> QED
        BY <4>1
    <3> QED
      BY <3>1, <3>2, <3>3
  <2> QED
    BY <2>1, <2>2, <2>3, <2>5, <2>7, <2>8, Settling
<1> QED
  BY <1>1, <1>2

LEMMA Ticking == DnsInv /\ Tick => DnsInv'
<1> SUFFICES ASSUME DnsInv, Tick PROVE DnsInv'
  OBVIOUS
<1> USE DnsNumbers
<1>1. /\ Resolving /\ pending # {} /\ now < expiry /\ (grace # Never => now < grace)
      /\ now' = now + 1
      /\ UNCHANGED <<server, pending, expiry, grace, got, outcome, start, given, gotAt>>
  BY DEF Tick
<1>2. DnsTypeOK'
  BY <1>1 DEF DnsInv, DnsTypeOK
<1>3. ClockInv'
  BY <1>1 DEF DnsInv, DnsTypeOK, ClockInv, Resolving
<1>4. SilentInv'
  BY <1>1 DEF DnsInv, DnsTypeOK, SilentInv, Resolving, Never
<1>5. ShareInv'
  BY <1>1 DEF DnsInv, ShareInv, Resolving, Share, Left
<1> QED
  BY <1>2, <1>3, <1>4, <1>5 DEF DnsInv

LEMMA DnsStep == DnsInv /\ Next => DnsInv'
BY Asking, Failing, Ending, Ticking DEF Next

-----------------------------------------------------------------------------
(* The probe.                                                              *)

Busy == pc \notin {"idle", "done"}

Hop == [url : Urls, request : {Own, Get}, conn : Nat, reused : BOOLEAN,
        pinned : BOOLEAN, cert : Nat, status : Statuses,
        to : Locations \cup {None}]

ShapeInv ==
    /\ cfg \in Configs /\ (cfg.keepAlive => cfg.follow = 0)
    /\ url \in Urls /\ request \in {Own, Get} /\ hops \in Seq(Hop)
    /\ made \in Nat /\ conn \in 0..made /\ kept \in 0..made
    /\ failedOn \subseteq 1..made

\* The clock is the time since the call began, the resolver's included.
TimeInv ==
    /\ now \in 0..Deadline /\ spent = now
    /\ pc = "resolve" => DnsInv
    /\ pc # "resolve" => outcome = "none"
    /\ error.timedOut => spent = Deadline
    /\ Busy => error = NoError

\* While a call is under way, the connection kept was alive when it began.
ReuseInv ==
    /\ conn \notin failedOn /\ kept \notin failedOn
    /\ Busy /\ kept # NoConn => atStart # "gone"
    /\ pc = "done" => conn = NoConn
    /\ \A i \in 1..Len(hops) :
          hops[i].cert = IF IsHttps(hops[i].url) THEN hops[i].conn ELSE NoConn

\* The request under way is what the last hop asks for.
ResultInv ==
    /\ ResultCoherent
    /\ Busy => /\ Len(hops) <= cfg.follow
               /\ hops # <<>> =>
                     /\ url = hops[Len(hops)].to
                     /\ request = IF hops[Len(hops)].status = 303 THEN Get
                                  ELSE hops[Len(hops)].request
    /\ InCall => failures = {}

ProbeInv == ShapeInv /\ TimeInv /\ ReuseInv /\ ResultInv

LEMMA FollowIsNat == ShapeInv => cfg.follow \in Nat /\ Len(hops) \in Nat
BY ProbeAssumption DEF ShapeInv, Configs

\* A hop begins at the time its caller says.
LEMMA HopBegins ==
  ASSUME NEW u, NEW first, NEW t \in Nat, t <= Deadline, BeginHop(u, first, t)
  PROVE  /\ url' = u /\ now' = t /\ outcome' = "none"
         /\ pc' \in {"tcp", "resolve", "lookup"}
         /\ pc' = "resolve" => DnsInv'
<1>1. BeginAt(t)
  BY DEF BeginHop
<1>2. DnsInv'
  BY <1>1, Begins
<1> QED
  BY <1>1, <1>2 DEF BeginHop, BeginAt

\* A call that fails is over: its connection is not used again.
LEMMA Fails ==
  ASSUME ProbeInv, Busy, NEW phase, phase # None, NEW late \in BOOLEAN,
         Fail(phase, late), late => now = Deadline,
         now' = now, outcome' = "none"
  PROVE  ProbeInv'
<1> USE DEF Fail, NoConn
<1>1. ShapeInv'
  BY DEF ProbeInv, ShapeInv
<1>2. error' # NoError /\ error'.timedOut = late /\ pc' = "done"
  BY DEF NoError
<1>3. TimeInv'
  BY <1>2 DEF ProbeInv, TimeInv, Busy
<1>4. ReuseInv'
  BY <1>2 DEF ProbeInv, ShapeInv, ReuseInv, Busy
<1>5. ResultInv'
  BY <1>2 DEF ProbeInv, ResultInv, ResultCoherent, Busy, InCall
<1> QED
  BY <1>1, <1>3, <1>4, <1>5 DEF ProbeInv

\* The call waits for the next thing.
LEMMA GoesOn ==
  ASSUME ProbeInv, Busy,
         NEW next \in {"tcp", "tls", "handshake", "request", "download"},
         GoOn(next), now' = now, outcome' = "none"
  PROVE  ProbeInv'
<1> USE DEF GoOn
<1>0. next \notin {"idle", "done", "resolve"}
  OBVIOUS
<1>1. ShapeInv'
  BY DEF ProbeInv, ShapeInv
<1>3. TimeInv'
  BY <1>0 DEF ProbeInv, TimeInv, Busy
<1>4. ReuseInv'
  BY <1>0 DEF ProbeInv, ReuseInv, Busy
<1>5. ResultInv'
  BY <1>0 DEF ProbeInv, ResultInv, ResultCoherent, Busy, InCall
<1> QED
  BY <1>1, <1>3, <1>4, <1>5 DEF ProbeInv

\* Nothing but the clocks, or what the server did, changes.
LEMMA Waits ==
  ASSUME ProbeInv,
         UNCHANGED <<cfg, pc, url, request, hops, error, conn, kept, capture,
                     failures, made, failedOn, atStart>>,
         now' \in 0..Deadline, spent' = now',
         pc = "resolve" => DnsInv', pc # "resolve" => outcome' = "none",
         spent' = spent \/ Busy
  PROVE  ProbeInv'
<1>1. ShapeInv'
  BY DEF ProbeInv, ShapeInv
<1>3. TimeInv'
  BY DEF ProbeInv, TimeInv, Busy, NoError
<1>4. ReuseInv'
  BY DEF ProbeInv, ReuseInv, Busy
<1>5. ResultInv'
  BY DEF ProbeInv, ResultInv, ResultCoherent, Busy, InCall
<1> QED
  BY <1>1, <1>3, <1>4, <1>5 DEF ProbeInv

-----------------------------------------------------------------------------
(* A hop is completed.                                                     *)

LEMMA HopIsHop ==
  ASSUME ProbeInv, NEW status \in Statuses, NEW to \in Locations \cup {None}
  PROVE  HopOf(status, to) \in Hop
<1>1. Reused \in BOOLEAN /\ Pinned(hops = <<>>) \in BOOLEAN
  BY Zenon DEF Reused, Pinned, ProbeInv, ShapeInv, Configs
<1>2. url \in Urls /\ request \in {Own, Get} /\ conn \in Nat
  BY DEF ProbeInv, ShapeInv
<1> QED
  BY <1>1, <1>2 DEF HopOf, Hop, NoConn

\* The chain is one hop longer, and the new hop is what the last one asked for.
LEMMA Appends ==
  ASSUME ProbeInv, Busy, NEW status \in Statuses, NEW to \in Locations \cup {None},
         hops' = Append(hops, HopOf(status, to)), cfg' = cfg
  PROVE  /\ hops' \in Seq(Hop) /\ hops' # <<>>
         /\ Len(hops') \in Nat /\ Len(hops') = Len(hops) + 1
         /\ Len(hops') <= cfg'.follow + 1
         /\ hops'[Len(hops')] = HopOf(status, to)
         /\ \A i \in 1..Len(hops') :
               /\ hops'[i].cert = IF IsHttps(hops'[i].url) THEN hops'[i].conn
                                  ELSE NoConn
               /\ hops'[i].pinned => i = 1
               /\ i > 1 => /\ hops'[i].url = hops'[i - 1].to
                           /\ hops'[i].request =
                                 IF hops'[i - 1].status = 303 THEN Get
                                 ELSE hops'[i - 1].request
<1> DEFINE hop == HopOf(status, to)
           n == Len(hops)
<1>1. /\ hops \in Seq(Hop) /\ hop \in Hop /\ n \in Nat
      /\ n <= cfg.follow /\ cfg.follow \in Nat
  BY HopIsHop, FollowIsNat DEF ProbeInv, ShapeInv, ResultInv
<1>2. /\ hop.cert = (IF IsHttps(hop.url) THEN hop.conn ELSE NoConn)
      /\ hop.url = url /\ hop.request = request
      /\ hop.pinned => hops = <<>>
  BY DEF HopOf, Pinned
<1>3. n > 0 => /\ hop.url = hops[n].to
               /\ hop.request = IF hops[n].status = 303 THEN Get
                                ELSE hops[n].request
  BY <1>1, <1>2 DEF ProbeInv, ResultInv
<1> HIDE DEF hop
<1>4. /\ hops' \in Seq(Hop) /\ Len(hops') = n + 1
      /\ \A i \in 1..n : hops'[i] = hops[i]
      /\ hops'[n + 1] = hop
  BY <1>1 DEF hop
<1>5. ASSUME NEW i \in 1..Len(hops')
      PROVE  /\ hops'[i].cert = IF IsHttps(hops'[i].url) THEN hops'[i].conn
                                  ELSE NoConn
             /\ hops'[i].pinned => i = 1
             /\ i > 1 => /\ hops'[i].url = hops'[i - 1].to
                         /\ hops'[i].request =
                               IF hops'[i - 1].status = 303 THEN Get
                               ELSE hops'[i - 1].request
  <2>1. CASE i \in 1..n
    <3>1. hops'[i] = hops[i] /\ (i > 1 => hops'[i - 1] = hops[i - 1])
      BY <1>1, <1>4, <2>1
    <3> QED
      BY <3>1, <2>1 DEF ProbeInv, ReuseInv, ResultInv, ResultCoherent
  <2>2. CASE i = n + 1
    <3>1. hops'[i] = hop /\ (i > 1 => n > 0 /\ hops'[i - 1] = hops[n])
      BY <1>1, <1>4, <2>2
    <3>2. hop.pinned => i = 1
      BY <1>1, <1>2, <2>2
    <3> QED
      BY <3>1, <3>2, <1>2, <1>3
  <2> QED
    BY <1>1, <1>4, <2>1, <2>2
<1>6. hops' # <<>> /\ Len(hops') <= cfg'.follow + 1
  BY <1>1, <1>4
<1> QED
  BY <1>1, <1>4, <1>5, <1>6 DEF hop

\* The last hop ends the call, with its result or with an error.
LEMMA Completes ==
  ASSUME ProbeInv, Busy, NEW status \in Statuses, NEW to \in Locations \cup {None},
         NEW keep \in {kept, conn},
         hops' = Append(hops, HopOf(status, to)), capture' = Len(hops'),
         pc' = "done", kept' = keep, conn' = NoConn,
         error' = error \/ (error'.timedOut = FALSE /\ error' # NoError),
         error' = error /\ cfg.follow > 0 => to = None,
         UNCHANGED <<cfg, url, request, failures, made, spent, failedOn, atStart>>,
         now' = now, outcome' = "none"
  PROVE  ProbeInv'
<1>1. ShapeInv'
  BY Appends DEF ProbeInv, ShapeInv, NoConn
<1>2. TimeInv'
  BY DEF ProbeInv, TimeInv, Busy
<1>3. ReuseInv'
  <2>1. conn' \notin failedOn' /\ kept' \notin failedOn'
    BY DEF ProbeInv, ShapeInv, ReuseInv, NoConn
  <2> QED
    BY <2>1, Appends DEF ReuseInv, Busy
<1>4. ResultInv'
  <2>1. failures' = {} /\ ~Busy'
    BY DEF ProbeInv, ResultInv, Busy, InCall
  <2>2. error' = NoError /\ cfg'.follow > 0 => hops'[Len(hops')].to = None
    <3>1. error = NoError
      BY DEF ProbeInv, TimeInv
    <3>2. hops'[Len(hops')].to = to
      BY Appends DEF HopOf
    <3> QED
      BY <3>1, <3>2
  <2> QED
    BY <2>1, <2>2, Appends DEF ResultInv, ResultCoherent
<1> QED
  BY <1>1, <1>2, <1>3, <1>4 DEF ProbeInv

\* The redirect is followed.
LEMMA Follows ==
  ASSUME ProbeInv, Busy, NEW status \in Statuses, NEW to \in Urls,
         Len(hops) < cfg.follow, Follow(HopOf(status, to))
  PROVE  ProbeInv'
<1> DEFINE hop == HopOf(status, to)
<1>1. /\ hops' = Append(hops, hop) /\ to \in Locations \cup {None}
      /\ hop.to = to /\ hop.status = status /\ hop.request = request
      /\ request' = (IF status = 303 THEN Get ELSE request)
      /\ BeginHop(to, FALSE, now) /\ conn' = NoConn
      /\ UNCHANGED <<cfg, error, kept, failures, made, spent, failedOn, atStart>>
  <2>1. hop.to = to /\ hop.status = status /\ hop.request = request
    BY DEF HopOf
  <2>2. status \in 301..303 <=> status = 303
    BY DEF Statuses
  <2>3. NextRequest(hop.status) = IF status = 303 THEN Get ELSE request
    BY <2>1, <2>2 DEF NextRequest
  <2> HIDE DEF hop
  <2> QED
    BY <2>1, <2>3 DEF Follow, HopClock, Locations, hop
<1>2. /\ url' = to /\ now' = now /\ outcome' = "none"
      /\ pc' \in {"tcp", "resolve", "lookup"}
      /\ pc' = "resolve" => DnsInv'
  <2>1. now \in Nat /\ now <= Deadline
    BY DnsNumbers DEF ProbeInv, TimeInv
  <2> QED
    BY <1>1, <2>1, HopBegins
<1>3. Busy'
  BY <1>2 DEF Busy
<1>4. ShapeInv'
  BY <1>1, <1>2, Appends DEF ProbeInv, ShapeInv, NoConn
<1>5. TimeInv'
  BY <1>1, <1>2 DEF ProbeInv, TimeInv, Busy
<1>6. ReuseInv'
  <2>1. /\ conn' \notin failedOn' /\ kept' \notin failedOn'
        /\ kept' # NoConn => atStart' # "gone"
    BY <1>1 DEF ProbeInv, ShapeInv, ReuseInv, NoConn
  <2> QED
    BY <1>1, <1>2, <2>1, Appends DEF ReuseInv
<1>7. ResultInv'
  <2>1. failures' = {} /\ pc' # "done"
    BY <1>1, <1>2 DEF ProbeInv, ResultInv, Busy, InCall
  <2>2. Len(hops') <= cfg'.follow
    BY <1>1, Appends, FollowIsNat DEF ProbeInv
  <2>3. hops'[Len(hops')] = hop
    BY <1>1, Appends
  <2> QED
    BY <1>1, <1>2, <2>1, <2>2, <2>3, Appends DEF ResultInv, ResultCoherent
<1> QED
  BY <1>4, <1>5, <1>6, <1>7 DEF ProbeInv

LEMMA Receiving ==
  ASSUME ProbeInv, ReceiveBody
  PROVE  ProbeInv'
<1>1. PICK status \in Statuses, location \in Locations \cup {None} :
          LET loc == IF IsRedirect(status) THEN location ELSE None
              hop == HopOf(status, IF loc = "invalid" THEN None ELSE loc)
          IN  \/ /\ cfg.keepAlive
                 /\ Succeed(hop, conn)
                 /\ UNCHANGED vars
              \/ /\ ~cfg.keepAlive
                 /\ loc = None \/ cfg.follow = 0
                 /\ Succeed(hop, kept)
                 /\ UNCHANGED vars
              \/ /\ ~cfg.keepAlive /\ loc # None /\ cfg.follow > 0
                 /\ \/ loc \in {"invalid", "foreign"}
                    \/ Len(hops) >= cfg.follow
                 /\ Astray(hop)
                 /\ UNCHANGED vars
              \/ /\ ~cfg.keepAlive /\ loc \in Urls
                 /\ Len(hops) < cfg.follow
                 /\ Follow(hop)
  BY DEF ReceiveBody
<1> DEFINE loc == IF IsRedirect(status) THEN location ELSE None
           to == IF loc = "invalid" THEN None ELSE loc
           hop == HopOf(status, to)
<1>2. to \in Locations \cup {None} /\ loc \in Locations \cup {None}
  BY DEF Locations
<1>3. Busy /\ outcome = "none" /\ error = NoError /\ (cfg.keepAlive => cfg.follow = 0)
  BY DEF ReceiveBody, Busy, ProbeInv, TimeInv, ShapeInv
<1> HIDE DEF to, loc
<1>4. CASE cfg.keepAlive /\ Succeed(hop, conn) /\ UNCHANGED vars
  <2>1. ~(cfg.follow > 0)
    BY <1>3, <1>4
  <2> QED
    BY <1>2, <1>3, <1>4, <2>1, Completes DEF Succeed, vars
<1>5. CASE ~cfg.keepAlive /\ (loc = None \/ cfg.follow = 0) /\ Succeed(hop, kept)
           /\ UNCHANGED vars
  <2>1. cfg.follow > 0 => to = None
    BY <1>5 DEF to, None
  <2> QED
    BY <1>2, <1>3, <1>5, <2>1, Completes DEF Succeed, vars
<1>6. CASE cfg.follow > 0 /\ Astray(hop) /\ UNCHANGED vars
  <2>1. error' # NoError /\ error'.timedOut = FALSE
    BY <1>6 DEF Astray, NoError, None
  <2> QED
    BY <1>2, <1>3, <1>6, <2>1, Completes DEF Astray, vars
<1>7. CASE loc \in Urls /\ Len(hops) < cfg.follow /\ Follow(hop)
  <2>1. to \in Urls
    BY <1>7 DEF to, Urls
  <2> QED
    BY <1>3, <1>7, <2>1, Follows
<1> QED
  BY <1>1, <1>4, <1>5, <1>6, <1>7 DEF to, loc

-----------------------------------------------------------------------------
(* The other steps.                                                        *)

LEMMA Handshaking ==
  ASSUME ProbeInv, HttpHandshake
  PROVE  ProbeInv'
<1>1. Busy /\ outcome = "none" /\ UNCHANGED vars /\ pc # "resolve"
  BY DEF HttpHandshake, Busy, ProbeInv, TimeInv
<1>2. CASE Fail("request", FALSE) \/ Fail("setup", FALSE)
  BY <1>1, <1>2, Fails DEF vars, None
<1>3. CASE /\ pc' = "request"
           /\ made' = made + 1 /\ conn' = made'
           /\ UNCHANGED <<cfg, url, request, hops, error, kept, peer, capture,
                          failures, calls, spent, failedOn, atStart>>
  <2>1. ShapeInv'
    BY <1>3 DEF ProbeInv, ShapeInv
  <2>2. TimeInv'
    BY <1>1, <1>3 DEF ProbeInv, TimeInv, Busy, vars
  <2>3. ReuseInv'
    BY <1>1, <1>3 DEF ProbeInv, ShapeInv, ReuseInv, Busy
  <2>4. ResultInv'
    BY <1>1, <1>3 DEF ProbeInv, ResultInv, ResultCoherent, Busy, InCall
  <2> QED
    BY <2>1, <2>2, <2>3, <2>4 DEF ProbeInv
<1> QED
  BY <1>2, <1>3 DEF HttpHandshake

LEMMA Reporting ==
  ASSUME ProbeInv, Report
  PROVE  ProbeInv'
<1> USE DEF Report
<1>1. ShapeInv'
  BY DEF ProbeInv, ShapeInv
<1>2. TimeInv'
  BY DEF ProbeInv, TimeInv, Busy, vars
<1>3. ReuseInv'
  BY DEF ProbeInv, ReuseInv, Busy
<1>4. ResultInv'
  <2>1. failures' # {} => error = NoError
    BY DEF Unmet
  <2> QED
    BY <2>1 DEF ProbeInv, ResultInv, ResultCoherent, Busy, InCall
<1> QED
  BY <1>1, <1>2, <1>3, <1>4 DEF ProbeInv

LEMMA Calling ==
  ASSUME ProbeInv, Begin
  PROVE  ProbeInv'
<1>0. /\ request' = Own /\ hops' = <<>> /\ error' = NoError /\ failures' = {}
      /\ spent' = 0 /\ atStart' = peer
      /\ UNCHANGED <<cfg, made, failedOn>>
      /\ hops' \in Seq(Hop) /\ Len(hops') = 0 /\ NoError.timedOut = FALSE
  BY DEF Begin, NoError
<1>1. /\ url' = cfg.target /\ Busy' /\ pc' # "done" /\ now' = 0 /\ outcome' = "none"
      /\ pc' = "resolve" => DnsInv'
      /\ \/ kept' = kept /\ conn' = kept /\ peer # "gone"
         \/ kept' = NoConn /\ conn' = NoConn
  <2>1. CASE kept # NoConn /\ peer # "gone"
    BY <2>1 DEF Begin, BeginAt, Busy
  <2>2. CASE ~(kept # NoConn /\ peer # "gone")
    <3>1. BeginHop(cfg.target, TRUE, 0) /\ kept' = NoConn /\ conn' = NoConn
      BY <2>2 DEF Begin
    <3>2. 0 \in Nat /\ 0 <= Deadline
      BY DnsNumbers
    <3> QED
      BY <3>1, <3>2, HopBegins DEF Busy
  <2> QED
    BY <2>1, <2>2
<1>2. ShapeInv'
  BY <1>0, <1>1 DEF ProbeInv, ShapeInv, NoConn, Configs
<1>3. TimeInv'
  BY <1>0, <1>1, DnsNumbers DEF TimeInv
<1>4. ReuseInv'
  BY <1>0, <1>1 DEF ProbeInv, ShapeInv, ReuseInv, NoConn
<1>5. ResultInv'
  BY <1>0, <1>1, FollowIsNat DEF ProbeInv, ResultInv, ResultCoherent
<1> QED
  BY <1>2, <1>3, <1>4, <1>5 DEF ProbeInv

THEOREM ProbeInvariance == ProbeSpec => []ProbeInv
<1>1. ProbeInit => ProbeInv
  <2> SUFFICES ASSUME ProbeInit PROVE ProbeInv
    OBVIOUS
  <2> USE DEF ProbeInit, Init
  <2>1. ShapeInv
    BY DEF ShapeInv, Configs, NoConn
  <2>2. TimeInv
    BY DnsNumbers DEF TimeInv, NoError, Busy
  <2>3. ReuseInv
    BY DEF ReuseInv, Busy, NoConn
  <2>4. cfg.follow \in Nat
    BY <2>1, FollowIsNat
  <2>5. ResultInv
    BY <2>4 DEF ResultInv, ResultCoherent, Busy, InCall
  <2> QED
    BY <2>1, <2>2, <2>3, <2>5 DEF ProbeInv
<1>2. ProbeInv /\ [ProbeNext]_allVars => ProbeInv'
  <2> SUFFICES ASSUME ProbeInv, [ProbeNext]_allVars PROVE ProbeInv'
    OBVIOUS
  <2>a. now \in 0..Deadline /\ spent = now /\ (pc # "resolve" => outcome = "none")
    BY DEF ProbeInv, TimeInv
  <2>1. CASE Resolve
    <3>1. DnsInv /\ Next
      BY <2>1 DEF Resolve, ProbeInv, TimeInv
    <3>2. DnsInv'
      BY <3>1, DnsStep
    <3>3. now' \in 0..Deadline
      BY <3>2, DnsNumbers DEF DnsInv, DnsTypeOK, ClockInv
    <3>4. spent' = now' /\ Busy
      <4>1. spent' = spent + (now' - now) /\ pc = "resolve"
        BY <2>1 DEF Resolve
      <4>2. now \in Int /\ now' \in Int /\ spent = now
        BY <2>a, <3>3, DnsNumbers
      <4>3. ASSUME NEW a \in Int, NEW b \in Int PROVE a + (b - a) = b
        OBVIOUS
      <4>4. spent' = now + (now' - now)
        BY <4>1, <4>2
      <4>5. spent' = now'
        BY <4>2, <4>3, <4>4
      <4> QED
        BY <4>1, <4>5 DEF Busy
    <3> QED
      BY <2>1, <3>2, <3>3, <3>4, Waits DEF Resolve
  <2>2. CASE Resolved
    <3>1. now' = now /\ outcome' = "none" /\ Busy /\ DnsInv
      BY <2>2 DEF Resolved, BeginAt, Busy, ProbeInv, TimeInv
    <3>2. outcome = "timeout" => now = Deadline
      BY <3>1 DEF DnsInv, ClockInv
    <3>3. CASE GoOn("tcp")
      BY <3>1, <3>3, GoesOn
    <3>4. CASE Fail("dns", outcome = "timeout")
      BY <3>1, <3>2, <3>4, Fails DEF None
    <3> QED
      BY <2>2, <3>3, <3>4 DEF Resolved
  <2>3. CASE Lookup \/ Connect \/ TlsHandshake \/ Ready \/ ReceiveHead \/ BodyFails
    <3>1. now' = now /\ outcome' = "none" /\ Busy
      BY <2>3, <2>a DEF Lookup, Connect, TlsHandshake, Ready, ReceiveHead, BodyFails,
                        vars, Busy
    <3>2. \/ \E next \in {"tcp", "tls", "handshake", "request", "download"} : GoOn(next)
          \/ \E phase \in {"dns", "tcp", "tls", "request", "download"} :
                Fail(phase, FALSE)
      BY <2>3 DEF Lookup, Connect, TlsHandshake, Ready, ReceiveHead, BodyFails
    <3>3. ASSUME NEW phase \in {"dns", "tcp", "tls", "request", "download"}
          PROVE phase # None
      BY DEF None
    <3> QED
      BY <3>1, <3>2, <3>3, GoesOn, Fails
  <2>4. CASE HttpHandshake
    BY <2>4, Handshaking
  <2>5. CASE ReceiveBody
    BY <2>5, Receiving
  <2>6. CASE Elapse
    <3>1. now' \in 0..Deadline /\ spent' = now' /\ outcome' = "none" /\ Busy
      BY <2>6, <2>a, DnsNumbers DEF Elapse, Awaiting, Busy
    <3> QED
      BY <2>6, <3>1, Waits DEF Elapse, Awaiting
  <2>7. CASE TimedOut
    <3>1. now' = now /\ outcome' = "none" /\ Busy /\ now = Deadline
      BY <2>7, <2>a, DnsNumbers DEF TimedOut, Awaiting, Busy, vars
    <3>2. ErrorPhase # None
      BY <2>7 DEF TimedOut, Awaiting, ErrorPhase, None
    <3> QED
      BY <2>7, <3>1, <3>2, Fails DEF TimedOut
  <2>8. CASE Report
    BY <2>8, Reporting
  <2>9. CASE Begin
    BY <2>9, Calling
  <2>10. CASE ServerCloses \/ CloseSeen
    <3>1. UNCHANGED vars /\ now' = now /\ outcome' = outcome /\ spent' = spent
      BY <2>10 DEF ServerCloses, CloseSeen, vars
    <3>2. pc = "resolve" => DnsInv'
      BY <3>1 DEF vars, ProbeInv, TimeInv, DnsInv, DnsTypeOK, ClockInv, ShareInv,
                  SilentInv, Resolving, Share, Left
    <3> QED
      BY <2>10, <2>a, <3>1, <3>2, Waits DEF ServerCloses, CloseSeen
  <2>11. CASE UNCHANGED allVars
    <3>1. UNCHANGED vars /\ now' = now /\ outcome' = outcome /\ spent' = spent
      BY <2>11 DEF allVars, vars, probeVars
    <3>2. pc = "resolve" => DnsInv'
      BY <3>1 DEF vars, ProbeInv, TimeInv, DnsInv, DnsTypeOK, ClockInv, ShareInv,
                  SilentInv, Resolving, Share, Left
    <3> QED
      BY <2>11, <2>a, <3>1, <3>2, Waits DEF allVars, probeVars
  <2> QED
    BY <2>1, <2>2, <2>3, <2>4, <2>5, <2>6, <2>7, <2>8, <2>9, <2>10, <2>11
    DEF ProbeNext, Step
<1> QED
  BY <1>1, <1>2, PTL DEF ProbeSpec

-----------------------------------------------------------------------------
(* The properties.                                                         *)

\* dns.rs:286-287: the resolution of a probe only fails once every server was
\* asked with an even share of the time there was, whatever hop it is for.
THEOREM DeadServersDoNotStarve == ProbeSpec => []FairShare
<1>1. ProbeInv => FairShare
  BY DEF ProbeInv, TimeInv, DnsInv, ShareInv, FairShare, Share
<1> QED
  BY <1>1, ProbeInvariance, PTL

\* dns.rs:289-291: a silent family costs the grace, never the deadline.
THEOREM SilenceIsBounded == ProbeSpec => []SilentFamilyCostsGrace
<1>1. ProbeInv => SilentFamilyCostsGrace
  <2> SUFFICES ASSUME DnsInv, outcome = "ok" PROVE SilentFamilyCostsGrace
    BY DEF ProbeInv, TimeInv, SilentFamilyCostsGrace
  <2> QED
    BY DnsNumbers DEF DnsInv, DnsTypeOK, ClockInv, SilentInv,
                      SilentFamilyCostsGrace, Smaller
<1> QED
  BY <1>1, ProbeInvariance, PTL

\* probe.rs:45: the time-out is the budget of the whole probe, every redirect
\* and every resolution in it included.
THEOREM ProbeKeepsItsBudget == ProbeSpec => []WithinTimeout
<1>1. ProbeInv => WithinTimeout
  BY DnsNumbers DEF ProbeInv, TimeInv, WithinTimeout
<1> QED
  BY <1>1, ProbeInvariance, PTL

\* probe.rs:39-43: the hops of a result are a chain, each the answer to the
\* request the one before asked for.
THEOREM ResultIsCoherent == ProbeSpec => []ResultCoherent
<1>1. ProbeInv => ResultCoherent
  BY DEF ProbeInv, ResultInv
<1> QED
  BY <1>1, ProbeInvariance, PTL

\* probe.rs:1120-1135: a connection that failed, or was known to be closed, is
\* never used again, for any number of calls.
THEOREM ReuseIsSound == ProbeSpec => []ReuseSound
<1>1. ProbeInv => ReuseSound
  BY DEF ProbeInv, ReuseInv, ReuseSound, InCall, Reused, Busy
<1> QED
  BY <1>1, ProbeInvariance, PTL
=============================================================================
