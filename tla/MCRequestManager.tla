-------------------------- MODULE MCRequestManager --------------------------
EXTENDS RequestManager

Answer(code, frame, close) == [code |-> code, frame |-> frame, close |-> close]
KeepAlive    == {Answer("200", "len2", FALSE), Answer("200", "chunk", FALSE)}
PlainAnswers == KeepAlive \cup {Answer("200", "eof", TRUE), Answer("204", "none", FALSE)}
Framed       == {Answer("200", "len2", FALSE), Answer("200", "bad", FALSE)}
TunnelAnswers == {Answer("101", "none", FALSE), Answer("200", "len1", FALSE),
                 Answer("200", "eof", FALSE)}

\* One GET for one host; nothing else happens.
Plain ==
  [maxReq |-> 1, maxStray |-> 0, hosts |-> {"a"}, methods |-> {"GET"}, bodies |-> {},
   responses |-> PlainAnswers, interims |-> {}, outFilters |-> {"none"},
   inFilters |-> {"none"}, chains |-> {FALSE}, bodyKill |-> FALSE, sslFilter |-> FALSE,
   useProxy |-> FALSE, pipelining |-> FALSE, earlyAnswer |-> FALSE, mayDrop |-> {},
   mayStall |-> {}, aborts |-> FALSE]

Pipelined ==
  [Plain EXCEPT !.maxReq = 2, !.hosts = {"a", "b"}, !.methods = {"GET", "POST"},
                !.bodies = {"chunk"}, !.responses = Framed, !.pipelining = TRUE]
Continued ==
  [Pipelined EXCEPT !.hosts = {"a"}, !.responses = KeepAlive, !.interims = {"100"},
                    !.pipelining = FALSE]
Drops ==
  [Plain EXCEPT !.hosts = {"a", Local}, !.methods = {"GET", "POST"}, !.bodies = {"chunk", "bad"},
                !.chains = {TRUE, FALSE}, !.bodyKill = TRUE, !.earlyAnswer = TRUE,
                !.mayDrop = {"browser", "website"}]
Aborted ==
  [Drops EXCEPT !.responses = {Answer("200", "chunk", FALSE), Answer("200", "eof", TRUE)},
                !.mayDrop = {"website"}, !.aborts = TRUE]
Unasked ==
  [Plain EXCEPT !.maxStray = 1, !.responses = {Answer("204", "none", FALSE)},
                !.interims = {"103"},
                !.inFilters = {"none", "rdir"}]
Tunnel ==
  [Plain EXCEPT !.maxReq = 3, !.hosts = {"a", Local}, !.methods = {"CONNECT", "GET"},
                !.responses = TunnelAnswers,
                !.outFilters = {"none", "jump", "rdir", "rewrite", "killed"},
                !.sslFilter = TRUE, !.useProxy = TRUE, !.mayDrop = {"website"}]
\* A response read through a remote proxy is redirected, and the proxy asked again.
Reproxied ==
  [Tunnel EXCEPT !.maxReq = 2, !.hosts = {"a"}, !.responses = {Answer("200", "len1", FALSE)},
                 !.outFilters = {"none"}, !.inFilters = {"none", "jump", "rdir"}]
Exchanges == [pipelined |-> Pipelined, continued |-> Continued, drops |-> Drops,
              aborted |-> Aborted, unasked |-> Unasked, tunnel |-> Tunnel,
              reproxied |-> Reproxied]

Intercepted ==
  [Plain EXCEPT !.maxReq = 2, !.hosts = {"a", Local}, !.methods = {"HEAD", "CONNECT"},
                !.responses = {Answer("200", "len2", FALSE)}, !.sslFilter = TRUE,
                !.mayDrop = {"browser"}, !.aborts = TRUE]
Live ==
  [intercepted |-> Intercepted,
   live |-> [Plain EXCEPT !.hosts = {"a", Local}, !.methods = {"GET", "HEAD", "CONNECT"},
                          !.chains = {TRUE, FALSE}, !.mayDrop = {"browser", "website"},
                          !.mayStall = {"browser"}, !.aborts = TRUE]]

KilledUpload ==
  [killed |-> [Plain EXCEPT !.maxReq = 2, !.methods = {"GET", "POST"}, !.bodies = {"chunk"},
                            !.responses = KeepAlive, !.outFilters = {"none", "killed"}]]
DeafBrowser == [deaf |-> [Plain EXCEPT !.mayStall = {"browser"}, !.aborts = TRUE]]
=============================================================================
