----------------------------- MODULE Certificates -----------------------------
(***************************************************************************)
(* What httprove says of the certificates a server presents: the dates     *)
(* (cert.rs), the chain (chain.rs), the grade of the connection            *)
(* (tls_grade.rs).  A chain is a sequence, the leaf first.                 *)
(***************************************************************************)
EXTENDS Integers, SequencesExt

Day == 86400   \* seconds

\* Faulty: rounded towards zero, as TimeDelta::num_days does.
DaysRemaining_Truncated(notAfter, now) ==
    LET d == notAfter - now IN IF d >= 0 THEN d \div Day ELSE -((-d) \div Day)

\* Whole days left at the second now, rounded down: negative from the first
\* second after the end.
DaysRemaining(notAfter, now) == (notAfter - now) \div Day

NoUrl == "no caIssuers url"

\* The entry that keeps the place of a certificate that cannot be parsed.
Unparseable == [subject |-> "<unparseable certificate>", issuer |-> "", days |-> 0,
                ca |-> FALSE, aia |-> NoUrl]

\* What parse_cert_chain makes of the certificates presented at the second 0;
\* ends is the second a certificate is good for at last.
CertInfo(c) ==
    IF ~c.parses THEN Unparseable
    ELSE [subject |-> c.subject, issuer |-> c.issuer, days |-> DaysRemaining(c.ends, 0),
          ca |-> c.ca, aia |-> c.aia]
ParseChain(presented) == [i \in DOMAIN presented |-> CertInfo(presented[i])]

-----------------------------------------------------------------------------
(* chain.rs                                                                *)

\* The first of the certificates with the fewest days.
Weakest(chain) == CHOOSE i \in DOMAIN chain :
                    \A j \in DOMAIN chain : /\ chain[i].days <= chain[j].days
                                            /\ chain[i].days = chain[j].days => i <= j

\* A leaf alone that is neither a CA nor signed by itself.
Incomplete(chain) == /\ Len(chain) = 1 /\ ~chain[1].ca
                     /\ chain[1].issuer # chain[1].subject

\* Neighbours that do not fit; an empty name fits everything.
Mismatches(chain) == {i \in 1..(Len(chain) - 1) :
                        /\ chain[i].issuer # "" /\ chain[i + 1].subject # ""
                        /\ chain[i].issuer # chain[i + 1].subject}
ExpireBeforeLeaf(chain) == {i \in 2..Len(chain) : chain[i].days < chain[1].days}
Expired(chain) == {i \in DOMAIN chain : chain[i].days < 0}

\* An empty chain counts as "nothing known": zero days, no issue.
Analyze(chain) ==
    IF chain = <<>>
    THEN [incomplete |-> FALSE, repairable |-> "unknown", days |-> 0, subject |-> "",
          issues |-> {}]
    ELSE [incomplete |-> Incomplete(chain), repairable |-> "unknown",
          days |-> chain[Weakest(chain)].days,
          subject |-> chain[Weakest(chain)].subject,
          issues |-> (IF Incomplete(chain) THEN {<<"missing", 1>>} ELSE {})
                     \union {<<"mismatch", i>> : i \in Mismatches(chain)}
                     \union {<<"before leaf", i>> : i \in ExpireBeforeLeaf(chain)}
                     \union {<<"expired", i>> : i \in Expired(chain)}]

\* --check-chain: only for an incomplete chain is the issuer fetched; found
\* says which urls answer with a certificate within the time and size limits.
CheckAia(chain, found) ==
    LET a == Analyze(chain) IN
    IF ~a.incomplete THEN a
    ELSE [a EXCEPT !.repairable = IF chain[1].aia \in found THEN "yes" ELSE "no"]

-----------------------------------------------------------------------------
(* tls_grade.rs                                                            *)

HstsMin == 180   \* days of HSTS_MIN_MAX_AGE

ProtocolPenalty(version) == CASE version = "TLSv1.3" -> 0
                              [] version = "TLSv1.2" -> 10
                              [] OTHER -> 40
CipherPenalty(cipher) == (IF cipher.fs THEN 0 ELSE 30) + (IF cipher.aead THEN 0 ELSE 20)
KxPenalty(kx) == IF kx \in {"strong", "unknown"} THEN 0 ELSE 15

\* hsts is the max-age in days, or one of these.
NoHeader == -2
NoMaxAge == -1
HstsPenalty(hsts) == CASE hsts = NoHeader -> 10
                       [] hsts >= HstsMin -> 0
                       [] OTHER -> 5

ChainPenalty(chain) ==
    LET a == Analyze(chain)
    IN (IF a.incomplete THEN 10 ELSE 0)
       + (IF a.days < 0 THEN 40 ELSE IF a.days < 14 THEN 10 ELSE 0)

Score(tls, chain) ==
    LET s == 100 - ProtocolPenalty(tls.version) - CipherPenalty(tls.cipher)
                 - KxPenalty(tls.kx) - HstsPenalty(tls.hsts) - ChainPenalty(chain)
    IN IF s < 0 THEN 0 ELSE s

Letter(score) == CASE score >= 90 -> "A"
                   [] score \in 80..89 -> "B"
                   [] score \in 70..79 -> "C"
                   [] score \in 60..69 -> "D"
                   [] score \in 50..59 -> "E"
                   [] OTHER -> "F"
=============================================================================
