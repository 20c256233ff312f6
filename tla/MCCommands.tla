------------------------------ MODULE MCCommands ------------------------------
(* Each command on a handful of inputs, chosen for the cases it tells apart. *)
EXTENDS Commands

D == Day
Cert(subject, issuer, ends, ca) ==
    [parses |-> TRUE, subject |-> subject, issuer |-> issuer, ends |-> ends, ca |-> ca,
     aia |-> IF issuer = "I" THEN "http://i" ELSE NoUrl]
MCPresented ==
    {<<Cert("a", "I", 100 * D, FALSE), Cert("I", "R", 900 * D, TRUE)>>,
     <<Cert("a", "I", -1, FALSE), Cert("I", "R", 900 * D, TRUE)>>,
     <<Cert("a", "I", 100 * D, FALSE), Cert("I", "R", -90 * D, TRUE)>>,
     <<Cert("a", "I", 5 * D, FALSE)>>,
     <<[Cert("a", "R", -1, FALSE) EXCEPT !.parses = FALSE], Cert("X", "R", 1, TRUE)>>,
     <<[Cert("a", "R", 100 * D, FALSE) EXCEPT !.parses = FALSE], Cert("X", "R", 1, TRUE)>>}
MCHosts == {1, 2}
H(h) == [kind |-> "host", host |-> h]
MCRequests ==
    [specs : {<<H(1)>>, <<H(2), H(1), H(2)>>, <<H(1), [kind |-> "invalid"], H(2)>>,
              <<[kind |-> "file", lines |-> <<H(2), [kind |-> "comment"], H(1), H(1)>>]>>,
              <<[kind |-> "file", lines |-> <<>>]>>,
              <<H(1), [kind |-> "unreadable file"]>>},
     insecure : BOOLEAN]
MCConnections == [version : {"TLSv1.3", "TLSv1.2"}, kx : {"strong", "weak"}, hsts : {-2, 180},
                  cipher : {[fs |-> TRUE, aead |-> TRUE], [fs |-> FALSE, aead |-> FALSE]}]
MCAnswering == {"http://i"}

MCLookups == {<<>>, <<2, 1, 2>>, <<4, 1, 3, 2>>}
MCIPv6 == {3, 4}
Answer(ok, status, total) == [ok |-> ok, status |-> status, total |-> total]
MCAnswers == {Answer(FALSE, 0, -1), Answer(FALSE, 200, 1), Answer(TRUE, 200, 1),
              Answer(TRUE, 200, 3), Answer(TRUE, 200, 9), Answer(TRUE, 500, 2)}

CONSTANTS r1, r2
MCResolvers == {<<r1>>, <<r1, r2>>}
MCReplies == {NoReply, {}, {1}, {3}}

Capture(status, cert, times, headers) ==
    [status |-> status, tls |-> "1.3", cert |-> cert, redirects |-> <<>>, times |-> times,
     headers |-> headers]
MCCaptures ==
    {Capture("200", "c", [dns |-> 1, total |-> 9], [age |-> "0", server |-> "x"]),
     Capture("200", "d", [dns |-> 1, total |-> 9], [age |-> "1"]),
     Capture("200", NoValue, [total |-> 8], [server |-> "y", via |-> "z"]),
     Capture(NoValue, NoValue, [total |-> 0], <<>>)}
MCSessions == {<<>>, <<"ok">>, <<"ok", "failed">>}
MCRoutes == {<<>>, <<Continued, 1, NoAddr, 2>>, <<NoAddr, Continued, 3, Continued>>}

Name(labels, tail) == [labels |-> labels, tail |-> tail]
Sent(name, type, data) == [name |-> name, type |-> type, data |-> data]
Raw(bytes) == [kind |-> "bytes", bytes |-> bytes]
Segments(segments) == [kind |-> "segments", segments |-> segments]
Naming(name) == [kind |-> "name", name |-> name]
Asked == Name(<<>>, "question")
Message(answers, rest) ==
    [question |-> <<<<97>>, <<98, 99>>>>, answers |-> answers, rest |-> rest]
Alias == Sent(Asked, 5, Naming(Name(<<<<120, 1>>>>, "parent")))
V6 == [i \in 1..16 |-> 192 + i]
MCMessages ==
    {Message(<<>>, <<0>>),
     Message(<<Sent(Asked, QTYPE_A, Raw(<<192, 0, 2, 1>>)), Alias,
               Sent(Name(<<<<120, 1>>>>, "parent"), QTYPE_A, Raw(<<10, 0, 0, 1>>))>>, <<0, 0, 41>>),
     Message(<<Sent(Name(<<<<97>>>>, "root"), QTYPE_A, Raw(<<1, 2, 3>>)),
               Sent(Asked, QTYPE_AAAA, Raw(V6))>>, <<>>),
     Message(<<Sent(Asked, QTYPE_TXT, Segments(<<<<1, 64>>, <<>>, <<3>>>>)),
               Sent(Name(<<>>, "root"), QTYPE_TXT, Segments(<<>>))>>, <<>>),
     Message(<<Alias, Sent(Asked, QTYPE_PTR, Naming(Name(<<<<7>>, <<8>>>>, "parent"))),
               Sent(Asked, QTYPE_PTR, Naming(Asked))>>, <<>>),
     Message(<<Sent(Asked, QTYPE_PTR, Naming(Name(<<>>, "itself")))>>, <<>>)}

Module(prober, timeout, codes) == [prober |-> prober, timeout |-> timeout, codes |-> codes]
MCModules == [plain |-> Module("http", NoTimeout, {}), slow |-> Module("", 4, {200}),
              fast |-> Module("http", 1, {301}), late |-> Module("http", NotADuration, {}),
              negative |-> Module("http", -1, {}), tcp |-> Module("tcp", 1, {})]

Service(answers, key, days) == [answers |-> answers, key |-> key, days |-> days]
MCServices == {Service({{1, 2}}, "k", 90), Service({{1}, {2}}, "k", 7),
               Service({{1}}, "l", NoCert)}
Timing(tcp, total, unmet) == [tcp |-> tcp, total |-> total, unmet |-> unmet]
MCTimings == {Timing(1, 2, 0), Timing(1, 5, 0), Timing(3, 12, 1)}

CONSTANTS u1, u2
Arguments(targets, count, mode, keepAlive, onChange) ==
    [targets |-> targets, count |-> count, mode |-> mode, keepAlive |-> keepAlive,
     onChange |-> onChange]
MCUrls == {u1, u2}
MCLines == {Arguments(<<u1>>, 3, "none", FALSE, FALSE),
            Arguments(<<u1>>, 2, "none", TRUE, FALSE),
            Arguments(<<u1>>, 1, "since-good", FALSE, FALSE),
            Arguments(<<u1, u2>>, 1, "since-good", FALSE, TRUE),
            Arguments(<<u1, u2>>, 1, "annotate", FALSE, TRUE)}
=============================================================================
