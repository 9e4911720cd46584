--------------------------- MODULE RequestManager ---------------------------
(***************************************************************************)
(* One CRequestManager: the thread that serves one browser connection.     *)
(*                                                                         *)
(* Manage() polls two sockets and drives two step machines over four       *)
(* buffers:                                                                *)
(*                                                                         *)
(*    browser --> recvOutBuf --[outStep]--> sendOutBuf --> website         *)
(*    browser <-- sendInBuf  <--[inStep]--- recvInBuf  <-- website         *)
(*                                                                         *)
(* Every line of Manage(), every case of _ProcessOut() and _ProcessIn()    *)
(* and every phase of _ConnectWebsite() is an action; "pc" says which one  *)
(* the thread runs next.  The rest of the world (browser, website, idle    *)
(* clock, the GUI thread that aborts connections) acts between any two of  *)
(* them.  Bytes are abstracted to tokens: a request line, a header block,  *)
(* a piece of a body, a chunk-size line ...                                *)
(***************************************************************************)
EXTENDS Integers, Sequences, FiniteSets

CONSTANTS
  Local,       \* the host the proxy answers itself, "local.ptron"
  Settings     \* by name: browsers, websites, filters and options to look at

VARIABLES
  setting      \* the one of Settings that this connection is in

MaxReq      == Settings[setting].maxReq      \* bound: requests (and pieces for a tunnel) sent
MaxStray    == Settings[setting].maxStray    \* bound: responses the website sends unasked
Hosts       == Settings[setting].hosts       \* requests and redirections name them
Methods     == Settings[setting].methods     \* methods the browser uses
Bodies      == Settings[setting].bodies      \* of its POSTs: "len" (Content-Length), "chunk", "bad"
Responses   == Settings[setting].responses   \* final responses: [code, frame, close]
Interims    == Settings[setting].interims    \* 1xx heads that may precede the final one
OutFilters  == Settings[setting].outFilters  \* what outgoing header filters may ask for
InFilters   == Settings[setting].inFilters   \* what incoming header filters may ask for
Chains      == Settings[setting].chains      \* values m_useChain may take: is the body filtered?
BodyKill    == Settings[setting].bodyKill    \* a text filter may kill the body
SSLFilter   == Settings[setting].sslFilter   \* CSettings::s_SSLFilter
UseProxy    == Settings[setting].useProxy    \* CSettings::s_useRemoteProxy
Pipelining  == Settings[setting].pipelining  \* requests are sent before the last is answered
EarlyAnswer == Settings[setting].earlyAnswer \* answers may come before the request is complete
MayDrop     == Settings[setting].mayDrop     \* peers that may close at any time
MayStall    == Settings[setting].mayStall    \* peers that may stop reading
Aborts      == Settings[setting].aborts      \* the GUI thread may abort the connection

Steps    == {"START", "FIRSTLINE", "HEADERS", "DECODE", "CHUNK", "RAW", "TUNNELING", "FINISH"}
Filters  == {"none", "jump", "rdir", "killed", "rewrite"}
Frames   == {"none", "len1", "len2", "chunk", "eof", "bad"}
Sides    == {"browser", "website"}
HostNames == Hosts \cup {Local}
Contacts == (HostNames \X BOOLEAN) \cup {<<"proxy", FALSE>>, <<"-", FALSE>>}
Unlimited   == 1000    \* numeric_limits<int64_t>::max(), never counted down to 0
MaxCopies   == 2       \* bound: how often ApiWrite gets its response through
MaxPieces   == 2       \* bound: pieces a website puts into a tunnel
MaxRedirect == 3       \* "limited to 3, to prevent infinite loop"

Setting ==
  [maxReq : Nat, maxStray : Nat, hosts : SUBSET STRING,
   methods : SUBSET {"GET", "HEAD", "POST", "CONNECT"}, bodies : SUBSET {"len", "chunk", "bad"},
   responses : SUBSET [code : {"101", "200", "204"}, frame : Frames, close : BOOLEAN],
   interims : SUBSET {"100", "103"},
   outFilters : SUBSET Filters, inFilters : SUBSET (Filters \ {"rewrite"}),
   chains : SUBSET BOOLEAN, bodyKill : BOOLEAN, sslFilter : BOOLEAN, useProxy : BOOLEAN,
   pipelining : BOOLEAN, earlyAnswer : BOOLEAN,
   mayDrop : SUBSET Sides, mayStall : SUBSET Sides, aborts : BOOLEAN]

ASSUME ConstantsOK ==
  /\ Local # "proxy"
  /\ \A s \in DOMAIN Settings :
       /\ Settings[s] \in Setting
       /\ "proxy" \notin Settings[s].hosts
       /\ "none" \in Settings[s].outFilters \cap Settings[s].inFilters

VARIABLES
  reqs,         \* requests the browser has begun to send: [m, h, b]
  browser,      \* the browser's end: [queue, net, open, got]
  website,      \* the website's end of the current connection (see Disconnected)
  strays,       \* unasked responses sent so far
  stalled,      \* peers that do not read what they are sent
  brConn, brSecure, webConn,   \* IsConnected() / IsSecureSocket() of the two sockets
  stop,         \* sockets whose m_writeStop is set
  prevHost,     \* m_previousHost
  prevConnect,  \* m_previousConnectRequest is not empty
  outStep, inStep, recvOutBuf, sendOutBuf, recvInBuf, sendInBuf,
  out,          \* the request in hand: [req, method, size, chunked]
  owner,        \* CFilterOwner: [url, https, contact, rdir, rdirHost]
  in,           \* the response in hand: [resp, code, headers, size, chunked, chain, dumped]
  recvConnectionClose, sendConnectionClose,
  redirectedIn,
  pc, ret,      \* where the thread is; where _ProcessOut / _ProcessIn return to
  bRest, innerRest,   \* the bRest of Manage's outer and of its inner loop
  idle,         \* m_processIdleTime: "off", "on" or (ten seconds later) "expired"
  valid,        \* m_valid
  active,       \* this manager's share of CLog::s_ActiveRequestCount
  connects      \* connections opened since the last request began (history)

socketVars == <<brConn, brSecure, webConn, stop, prevHost, prevConnect>>
stepVars   == <<outStep, inStep>>
outBufs    == <<recvOutBuf, sendOutBuf>>
inBufs     == <<recvInBuf, sendInBuf>>
dataVars   == <<out, owner, in, recvConnectionClose, sendConnectionClose, redirectedIn>>
restVars   == <<bRest, innerRest>>
countVars  == <<active, connects>>
envVars    == <<setting, reqs, strays, stalled>>
vars == <<envVars, browser, website, socketVars, stepVars, outBufs, inBufs, dataVars,
          pc, ret, restVars, idle, valid, countVars>>

Tok(k, r, v) == [k |-> k, r |-> r, v |-> v]
NextIs(buf, kinds) == buf # <<>> /\ Head(buf).k \in kinds
\* The host it is; what it will send and what is on the wire; whether it may
\* still send; requests it has to answer, the last one it hinted at; how many pieces
\* it has put into a tunnel; what it got.
Disconnected == [host |-> <<"-", FALSE>>, queue |-> <<>>, net |-> <<>>, open |-> FALSE,
                 ending |-> FALSE, todo |-> {}, hinted |-> 0, said |-> 0, got |-> <<>>]

Init ==
  /\ setting \in DOMAIN Settings
  /\ reqs = <<>> /\ strays = 0 /\ stalled = {}
  /\ browser = [queue |-> <<>>, net |-> <<>>, open |-> TRUE, got |-> <<>>]
  /\ website = Disconnected
  /\ brConn = TRUE /\ brSecure = FALSE /\ webConn = FALSE /\ stop = {}
  /\ prevHost = <<"-", FALSE>> /\ prevConnect = FALSE
  /\ outStep = "START" /\ inStep = "START"
  /\ recvOutBuf = <<>> /\ sendOutBuf = <<>> /\ recvInBuf = <<>> /\ sendInBuf = <<>>
  /\ out = [req |-> 0, method |-> "GET", size |-> 0, chunked |-> FALSE]
  /\ owner = [url |-> Local, https |-> FALSE, contact |-> <<"-", FALSE>>,
              rdir |-> "none", rdirHost |-> Local]
  /\ in = [resp |-> 0, code |-> "", headers |-> <<>>, size |-> 0,
           chunked |-> FALSE, chain |-> FALSE, dumped |-> FALSE]
  /\ recvConnectionClose = FALSE /\ sendConnectionClose = FALSE /\ redirectedIn = 0
  /\ pc = "outerReceive" /\ ret = "outerSend" /\ bRest = TRUE /\ innerRest = TRUE
  /\ idle = "off" /\ valid = TRUE /\ active = 0 /\ connects = 0

-----------------------------------------------------------------------------
(* Sockets: what _ReceiveOut, _SendIn, _SendOut and _ReceiveIn do, and the *)
(* Close of the website's socket, which loses whatever was still on it.    *)

KeepWebsite(keep) ==
  /\ webConn' = (webConn /\ keep)
  /\ website' = IF webConn /\ keep THEN website ELSE Disconnected

\* Read until the socket would block; a Read of 0 closes it.
ReceiveOutOpen ==    \* mutant: a Read of 0 is not taken for the end
  /\ recvOutBuf' = IF brConn THEN recvOutBuf \o browser.net ELSE recvOutBuf
  /\ browser' = IF brConn THEN [browser EXCEPT !.net = <<>>] ELSE browser
  /\ UNCHANGED brConn
ReceiveOut ==
  /\ recvOutBuf' = IF brConn THEN recvOutBuf \o browser.net ELSE recvOutBuf
  /\ browser' = IF brConn THEN [browser EXCEPT !.net = <<>>] ELSE browser
  /\ brConn' = (brConn /\ browser.open)

ReceivedOut == brConn /\ browser.net # <<>>

ReceiveIn ==
  /\ recvInBuf' = recvInBuf \o website.net
  /\ webConn' = (webConn /\ website.open)
  /\ website' = IF webConn /\ website.open THEN [website EXCEPT !.net = <<>>] ELSE Disconnected

ReceivedIn == webConn /\ website.net # <<>>

\* Write sends everything or fails: when there is room for a part only (and
\* the peer is gone, or slow) it closes the socket.  With no room at all it
\* waits, until m_writeStop is set.  What a closed peer is sent is lost or fails.
WriteFailsDeaf(side, open) ==   \* mutant: m_writeStop is not looked at
  ~open \/ (side \in MayStall /\ side \notin stalled)
WriteFails(side, open) == ~open \/ (side \in MayStall /\ (side \notin stalled \/ side \in stop))

\* _SendIn of buf; what of it is left; keep is FALSE when Close comes next.
SendIn(buf, keep) ==
  \/ /\ buf = <<>> \/ ~brConn
     /\ sendInBuf' = buf /\ brConn' = (brConn /\ keep) /\ UNCHANGED browser
  \/ /\ buf # <<>> /\ brConn /\ browser.open /\ "browser" \notin stalled
     /\ browser' = [browser EXCEPT !.got = @ \o buf]
     /\ sendInBuf' = <<>> /\ brConn' = keep
  \/ /\ buf # <<>> /\ brConn /\ ~browser.open
     /\ sendInBuf' = <<>> /\ brConn' = keep /\ UNCHANGED browser
  \/ /\ buf # <<>> /\ brConn /\ WriteFails("browser", browser.open)
     /\ sendInBuf' = buf /\ brConn' = FALSE /\ UNCHANGED browser

SentIn == sendInBuf # <<>> /\ sendInBuf' = <<>>

\* The website answers the request heads it has read.
HeadsOf(buf) == {buf[i].r : i \in {j \in DOMAIN buf : buf[j].k = "qhead"}}

SendOutPart(buf) ==  \* mutant: what Write leaves is not kept for the next one
  \/ /\ buf = <<>> \/ ~webConn
     /\ sendOutBuf' = buf /\ UNCHANGED <<website, webConn>>
  \/ /\ buf # <<>> /\ webConn /\ website.open /\ "website" \notin stalled
     /\ website' = [website EXCEPT !.got = Append(@, Head(buf)), !.todo = @ \cup HeadsOf(buf)]
     /\ sendOutBuf' = <<>> /\ UNCHANGED webConn
  \/ /\ buf # <<>> /\ webConn /\ ~website.open
     /\ sendOutBuf' = <<>> /\ UNCHANGED <<website, webConn>>
SendOut(buf) ==
  \/ /\ buf = <<>> \/ ~webConn
     /\ sendOutBuf' = buf /\ UNCHANGED <<website, webConn>>
  \/ /\ buf # <<>> /\ webConn /\ website.open /\ "website" \notin stalled
     /\ website' = [website EXCEPT !.got = @ \o buf, !.todo = @ \cup HeadsOf(buf)]
     /\ sendOutBuf' = <<>> /\ UNCHANGED webConn
  \/ /\ buf # <<>> /\ webConn /\ ~website.open
     /\ sendOutBuf' = <<>> /\ UNCHANGED <<website, webConn>>
  \/ /\ buf # <<>> /\ webConn /\ WriteFails("website", website.open)
     /\ sendOutBuf' = buf /\ KeepWebsite(FALSE)

SentOut == sendOutBuf # <<>> /\ sendOutBuf' = <<>>

-----------------------------------------------------------------------------
(* Manage(): the outer loop, and the inner loop of a connected website.    *)

OuterReceive ==
  /\ pc = "outerReceive" /\ brConn
  /\ ReceiveOut
  /\ bRest' = ~ReceivedOut
  /\ pc' = IF ReceivedOut THEN "procOut" ELSE "outerSend"
  /\ ret' = "outerSend"
  /\ UNCHANGED <<envVars, website, brSecure, webConn, stop, prevHost, prevConnect, stepVars,
                 sendOutBuf, inBufs, dataVars, innerRest, idle, valid, countVars>>

OuterSend ==
  /\ pc = "outerSend"
  /\ SendIn(sendInBuf, TRUE)
  /\ bRest' = (bRest /\ ~SentIn)
  /\ pc' = IF webConn THEN "innerSendOut" ELSE "outerEnd"
  /\ innerRest' = TRUE
  /\ UNCHANGED <<envVars, website, brSecure, webConn, stop, prevHost, prevConnect, stepVars,
                 outBufs, recvInBuf, dataVars, ret, idle, valid, countVars>>

InnerSendOut ==
  /\ pc = "innerSendOut"
  /\ SendOut(sendOutBuf)
  /\ innerRest' = ~SentOut
  /\ pc' = "innerReceiveIn"
  /\ UNCHANGED <<envVars, browser, brConn, brSecure, stop, prevHost, prevConnect, stepVars,
                 recvOutBuf, inBufs, dataVars, ret, bRest, idle, valid, countVars>>

InnerReceiveIn ==
  /\ pc = "innerReceiveIn"
  /\ ReceiveIn
  /\ innerRest' = (innerRest /\ ~ReceivedIn)
  /\ pc' = IF ReceivedIn THEN "procIn" ELSE "innerSendIn"
  /\ ret' = "innerSendIn"
  /\ UNCHANGED <<envVars, browser, brConn, brSecure, stop, prevHost, prevConnect, stepVars,
                 outBufs, sendInBuf, dataVars, bRest, idle, valid, countVars>>

InnerSendIn ==
  /\ pc = "innerSendIn"
  /\ SendIn(sendInBuf, TRUE)
  /\ innerRest' = (innerRest /\ ~SentIn)
  /\ pc' = "innerReceiveOut"
  /\ UNCHANGED <<envVars, website, brSecure, webConn, stop, prevHost, prevConnect, stepVars,
                 outBufs, recvInBuf, dataVars, ret, bRest, idle, valid, countVars>>

InnerReceiveOut ==
  /\ pc = "innerReceiveOut"
  /\ ReceiveOut
  /\ innerRest' = (innerRest /\ ~ReceivedOut)
  /\ pc' = IF ReceivedOut THEN "procOut" ELSE "innerEnd"
  /\ ret' = "innerEnd"
  /\ UNCHANGED <<envVars, website, brSecure, webConn, stop, prevHost, prevConnect, stepVars,
                 sendOutBuf, inBufs, dataVars, bRest, idle, valid, countVars>>

(* _JudgeManageContinue: runs only in an iteration that moved no data.     *)
MustDropValid ==     \* mutant: m_valid is not looked at
  \/ brSecure /\ outStep = "START" /\ ~(brConn /\ webConn)
  \/ outStep = "TUNNELING" /\ ~(brConn /\ webConn)
MustDrop ==
  \/ ~valid
  \/ brSecure /\ outStep = "START" /\ ~(brConn /\ webConn)
  \/ outStep = "TUNNELING" /\ ~(brConn /\ webConn)

NeverIdle == outStep = "TUNNELING" \/ (brSecure /\ in.code # "101")

ExpiredAnyStep == idle = "expired"     \* mutant: also during a request
Expired == outStep = "START" /\ idle = "expired"

Judge ==
  \/ /\ MustDrop
     /\ brConn' = FALSE /\ KeepWebsite(FALSE) /\ UNCHANGED idle
  \/ /\ ~MustDrop /\ NeverIdle
     /\ UNCHANGED <<brConn, webConn, website, idle>>
  \/ /\ ~MustDrop /\ ~NeverIdle
     /\ idle' = IF outStep # "START" THEN "off" ELSE IF idle = "off" THEN "on" ELSE idle
     /\ brConn' = (brConn /\ ~Expired)
     /\ UNCHANGED <<webConn, website>>

JudgeIf(rest) == IF rest THEN Judge ELSE UNCHANGED <<brConn, webConn, website, idle>>

InnerEnd ==
  /\ pc = "innerEnd"
  /\ JudgeIf(innerRest)
  /\ innerRest' = TRUE
  /\ pc' = IF brConn' /\ webConn' THEN "innerSendOut" ELSE "trailReceive"
  /\ UNCHANGED <<envVars, browser, brSecure, stop, prevHost, prevConnect, stepVars,
                 outBufs, inBufs, dataVars, ret, bRest, valid, countVars>>

(* After the inner loop: "Terminate feeding browser".                      *)
TrailReceive ==
  /\ pc = "trailReceive"
  /\ ReceiveIn
  /\ pc' = "procIn" /\ ret' = "trailFeed"
  /\ UNCHANGED <<envVars, browser, brConn, brSecure, stop, prevHost, prevConnect, stepVars,
                 outBufs, sendInBuf, dataVars, restVars, idle, valid, countVars>>

\* _EndFeeding: DataDump, then the zero-length chunk.
Ended(buf, r, i) == IF i.chain \/ i.chunked THEN Append(buf, Tok("end", r, "-")) ELSE buf

TrailFeed ==
  /\ pc = "trailFeed"
  /\ IF inStep \in {"RAW", "CHUNK"}
     THEN /\ inStep' = "FINISH"
          /\ sendInBuf' = Ended(sendInBuf, in.resp, in)
          /\ in' = [in EXCEPT !.dumped = TRUE]
          /\ pc' = "procIn" /\ ret' = "trailSend"
     ELSE /\ pc' = "trailSend"
          /\ UNCHANGED <<inStep, sendInBuf, in, ret>>
  /\ UNCHANGED <<envVars, browser, website, socketVars, outStep, outBufs, recvInBuf, out, owner,
                 recvConnectionClose, sendConnectionClose, redirectedIn, restVars, idle, valid,
                 countVars>>

TrailSendSilent ==   \* mutant: the browser is not told that the website left
  /\ pc = "trailSend"
  /\ SendIn(sendInBuf, TRUE)
  /\ pc' = "outerEnd"
  /\ UNCHANGED <<envVars, website, brSecure, webConn, stop, prevHost, prevConnect, stepVars,
                 outBufs, recvInBuf, dataVars, ret, restVars, idle, valid, countVars>>
TrailSend ==
  /\ pc = "trailSend"
  /\ SendIn(sendInBuf, TRUE)
  /\ pc' = IF outStep = "FINISH" THEN "trail503" ELSE "outerEnd"
  /\ UNCHANGED <<envVars, website, brSecure, webConn, stop, prevHost, prevConnect, stepVars,
                 outBufs, recvInBuf, dataVars, ret, restVars, idle, valid, countVars>>

\* "The website aborted connection before sending the body"
Trail503 ==
  /\ pc = "trail503"
  /\ SendIn(<<Tok("fake", out.req, "503")>>, FALSE)
  /\ pc' = "outerEnd"
  /\ UNCHANGED <<envVars, website, brSecure, webConn, stop, prevHost, prevConnect, stepVars,
                 outBufs, recvInBuf, dataVars, ret, restVars, idle, valid, countVars>>

OuterEnd ==
  /\ pc = "outerEnd"
  /\ JudgeIf(bRest)
  /\ pc' = "outerReceive"
  /\ UNCHANGED <<envVars, browser, brSecure, stop, prevHost, prevConnect, stepVars,
                 outBufs, inBufs, dataVars, ret, restVars, valid, countVars>>

\* Manage returns when the browser is gone, or by an exception ("raise");
\* the thread pool then destroys the manager.
Destroy ==
  /\ \/ pc = "outerReceive" /\ ~brConn
     \/ pc = "raise"
  /\ pc' = "gone"
  /\ brConn' = FALSE /\ KeepWebsite(FALSE)
  /\ active' = IF outStep # "START" \/ inStep # "START" THEN active - 1 ELSE active
  /\ UNCHANGED <<envVars, browser, brSecure, stop, prevHost, prevConnect, stepVars,
                 outBufs, inBufs, dataVars, ret, restVars, idle, valid, connects>>

-----------------------------------------------------------------------------
(* _ProcessOut(): browser -> website.  It loops until a step lacks data.   *)

OutBlocked ==
  \/ outStep \in {"START", "RAW"} /\ recvOutBuf = <<>>
  \/ outStep = "FIRSTLINE" /\ ~NextIs(recvOutBuf, {"line"})
  \/ outStep = "HEADERS" /\ ~NextIs(recvOutBuf, {"hdr"})
  \/ outStep = "CHUNK" /\ ~NextIs(recvOutBuf, {"size", "last"})
  \/ outStep = "FINISH" /\ inStep # "FINISH"

OutReturn ==
  /\ pc = "procOut" /\ OutBlocked
  /\ pc' = ret
  /\ UNCHANGED <<envVars, browser, website, socketVars, stepVars, outBufs, inBufs, dataVars,
                 ret, restVars, idle, valid, countVars>>

\* The count rises with the first of the two machines that leaves STEP_START.
NewlyActiveTwice(other) == 1     \* mutant: both machines count
NewlyActiveNever(other) == 0     \* mutant: neither does
NewlyActive(other) == IF other = "START" THEN 1 ELSE 0

\* CFilterOwner::Reset forgets the last exchange, but not its URL.
ResetKeeps(i) == [i EXCEPT !.code = ""]    \* mutant: inHeaders are not cleared
Reset(i) == [i EXCEPT !.code = "", !.headers = <<>>]

OutStart ==
  /\ pc = "procOut" /\ outStep = "START" /\ recvOutBuf # <<>>
  /\ outStep' = "FIRSTLINE"
  /\ active' = active + NewlyActive(inStep)
  /\ owner' = [owner EXCEPT !.contact = <<"-", FALSE>>, !.rdir = "none"]
  /\ in' = Reset(in)
  /\ redirectedIn' = 0 /\ connects' = 0
  /\ recvConnectionClose' = FALSE /\ sendConnectionClose' = FALSE
  /\ UNCHANGED <<envVars, browser, website, socketVars, inStep, outBufs, inBufs, out,
                 pc, ret, restVars, idle, valid>>

OutFirstLine ==
  /\ pc = "procOut" /\ outStep = "FIRSTLINE" /\ NextIs(recvOutBuf, {"line"})
  /\ outStep' = "HEADERS"
  /\ out' = [req |-> Head(recvOutBuf).r, method |-> reqs[Head(recvOutBuf).r].m,
             size |-> 0, chunked |-> FALSE]
  /\ recvOutBuf' = Tail(recvOutBuf)
  /\ UNCHANGED <<envVars, browser, website, socketVars, inStep, sendOutBuf, inBufs, owner, in,
                 recvConnectionClose, sendConnectionClose, redirectedIn, pc, ret, restVars,
                 idle, valid, countVars>>

OutHeaders ==
  /\ pc = "procOut" /\ outStep = "HEADERS" /\ NextIs(recvOutBuf, {"hdr"})
  /\ outStep' = "DECODE"
  /\ recvOutBuf' = Tail(recvOutBuf)
  /\ UNCHANGED <<envVars, browser, website, socketVars, inStep, sendOutBuf, inBufs, dataVars,
                 pc, ret, restVars, idle, valid, countVars>>

\* boost::lexical_cast throws, and Manage catches it outside its loop.
OutDecodeBad ==
  /\ pc = "procOut" /\ outStep = "DECODE" /\ reqs[out.req].b = "bad"
  /\ pc' = "raise"
  /\ UNCHANGED <<envVars, browser, website, socketVars, stepVars, outBufs, inBufs, dataVars,
                 ret, restVars, idle, valid, countVars>>

\* The URL: a request on the secure socket names a path of the host the
\* manager last had in its URL.  The outgoing filters (none for local.ptron)
\* may rewrite the URL, ask for a redirection or kill the request; CONNECT is
\* not redirected.  A secure connection is reused unless the host changed.
OutDecode ==
  /\ pc = "procOut" /\ outStep = "DECODE" /\ reqs[out.req].b # "bad"
  /\ LET host  == IF brSecure THEN owner.url ELSE reqs[out.req].h
         https == brSecure \/ out.method = "CONNECT"
     IN \E f \in (IF host = Local THEN {"none"} ELSE OutFilters) :
       \E h \in (IF f \in {"jump", "rdir", "rewrite"} THEN Hosts ELSE {owner.rdirHost}) :
          LET url  == IF f = "rewrite" THEN h ELSE host
              rdir == IF f = "rewrite" \/ (out.method = "CONNECT" /\ f # "killed") THEN "none" ELSE f
              keep == brSecure /\ f # "killed"
          IN /\ owner' = [url |-> url, https |-> https, contact |-> <<url, https>>,
                          rdir |-> rdir, rdirHost |-> h]
             /\ inStep' = IF keep THEN "START" ELSE inStep
             /\ pc' = IF keep /\ prevHost = <<url, https>> /\ rdir = "none"
                      THEN "outSend" ELSE "connect"
  /\ out' = [out EXCEPT !.chunked = (reqs[out.req].b = "chunk"),
                        !.size = IF reqs[out.req].b = "len" THEN 2 ELSE 0]
  /\ UNCHANGED <<envVars, browser, website, socketVars, outStep, outBufs, inBufs, in,
                 recvConnectionClose, sendConnectionClose, redirectedIn, ret, restVars,
                 idle, valid, countVars>>

\* After _ConnectWebsite: the request goes into sendOutBuf, unless a faked
\* response (or somebody else's response) is under way.
OutSend ==
  /\ pc = "outSend"
  /\ sendOutBuf' = IF inStep = "START" THEN <<Tok("qhead", out.req, out.method)>> ELSE sendOutBuf
  /\ outStep' = IF out.method = "CONNECT" THEN "TUNNELING"
                ELSE IF out.method = "HEAD" THEN "FINISH"
                ELSE IF out.chunked THEN "CHUNK"
                ELSE IF out.size > 0 THEN "RAW" ELSE "FINISH"
  /\ pc' = IF out.method = "CONNECT" /\ brSecure THEN ret ELSE "procOut"
  /\ UNCHANGED <<envVars, browser, website, socketVars, inStep, recvOutBuf, inBufs, dataVars,
                 ret, restVars, idle, valid, countVars>>

\* "We shouldn't send anything to website if it is not expecting data"
Unexpected(buf) == IF inStep = "FINISH" THEN <<>> ELSE buf

OutChunk ==
  /\ pc = "procOut" /\ outStep = "CHUNK" /\ NextIs(recvOutBuf, {"size", "last"})
  /\ recvOutBuf' = Tail(recvOutBuf)
  /\ LET grown == Append(sendOutBuf, Head(recvOutBuf))
     IN IF Head(recvOutBuf).k = "size"
        THEN /\ outStep' = "RAW" /\ out' = [out EXCEPT !.size = 1] /\ sendOutBuf' = grown
        ELSE /\ outStep' = "FINISH" /\ out' = [out EXCEPT !.size = 0]
             /\ sendOutBuf' = Unexpected(grown)
  /\ UNCHANGED <<envVars, browser, website, socketVars, inStep, inBufs, owner, in,
                 recvConnectionClose, sendConnectionClose, redirectedIn, pc, ret, restVars,
                 idle, valid, countVars>>

CopySizeAll(buf, size) == Len(buf)   \* mutant: copySize is not limited
CopySize(buf, size) == IF Len(buf) > size THEN size ELSE Len(buf)

OutRaw ==
  /\ pc = "procOut" /\ outStep = "RAW" /\ recvOutBuf # <<>>
  /\ LET n == CopySize(recvOutBuf, out.size)
         left == out.size - n
     IN /\ sendOutBuf' = Unexpected(sendOutBuf \o SubSeq(recvOutBuf, 1, n))
        /\ recvOutBuf' = SubSeq(recvOutBuf, n + 1, Len(recvOutBuf))
        /\ out' = [out EXCEPT !.size = left]
        /\ outStep' = IF left > 0 THEN "RAW" ELSE IF out.chunked THEN "CHUNK" ELSE "FINISH"
  /\ UNCHANGED <<envVars, browser, website, socketVars, inStep, inBufs, owner, in,
                 recvConnectionClose, sendConnectionClose, redirectedIn, pc, ret, restVars,
                 idle, valid, countVars>>

\* On an intercepted TLS connection the tunnel carries requests: start over.
OutTunneling ==
  /\ pc = "procOut" /\ outStep = "TUNNELING"
  /\ IF brSecure /\ in.code # "101"
     THEN outStep' = "START" /\ UNCHANGED <<outBufs, pc>>
     ELSE /\ sendOutBuf' = sendOutBuf \o recvOutBuf
          /\ recvOutBuf' = <<>>
          /\ pc' = ret /\ UNCHANGED outStep
  /\ UNCHANGED <<envVars, browser, website, socketVars, inStep, inBufs, dataVars,
                 ret, restVars, idle, valid, countVars>>

\* The end of an exchange, reached by whichever machine finishes second.
EndExchange(closeBrowser) ==
  /\ outStep' = "START" /\ inStep' = "START"
  /\ active' = active - 1
  /\ IF closeBrowser THEN SendIn(sendInBuf, FALSE) ELSE UNCHANGED <<sendInBuf, browser, brConn>>
  /\ KeepWebsite(~recvConnectionClose /\ brConn')

OutFinishEarly ==    \* mutant: the response is not waited for
  /\ pc = "procOut" /\ outStep = "FINISH"
  /\ EndExchange(sendConnectionClose)
  /\ UNCHANGED <<envVars, brSecure, stop, prevHost, prevConnect, outBufs, recvInBuf, dataVars,
                 pc, ret, restVars, idle, valid, connects>>
OutFinish ==
  /\ pc = "procOut" /\ outStep = "FINISH" /\ inStep = "FINISH"
  /\ EndExchange(sendConnectionClose)
  /\ UNCHANGED <<envVars, brSecure, stop, prevHost, prevConnect, outBufs, recvInBuf, dataVars,
                 pc, ret, restVars, idle, valid, connects>>

-----------------------------------------------------------------------------
(* _ConnectWebsite(): called by OutDecode (then outStep is DECODE) and, for *)
(* a redirection asked for by an incoming header filter, by InDecode.      *)

ConnectReturn == IF outStep = "DECODE" THEN "outSend" ELSE "inRedirected"

Fake(status) ==
  /\ inStep' = "FINISH"
  /\ sendInBuf' = <<Tok("fake", out.req, status)>>
  /\ sendConnectionClose' = TRUE

\* "If download was on, disconnect"; then drop what both input sides hold.
ConnectFlush ==
  /\ pc = "connect"
  /\ IF inStep = "DECODE"
     THEN KeepWebsite(FALSE) /\ inStep' = "START"
     ELSE /\ webConn' = (webConn /\ website.open)
          /\ website' = IF webConn /\ website.open THEN [website EXCEPT !.net = <<>>] ELSE Disconnected
          /\ UNCHANGED inStep
  /\ recvInBuf' = <<>> /\ sendInBuf' = <<>>
  /\ pc' = "route"
  /\ UNCHANGED <<envVars, browser, brConn, brSecure, stop, prevHost, prevConnect, outStep,
                 outBufs, dataVars, ret, restVars, idle, valid, countVars>>

\* _HandleLocalPtron: http://local.ptron, redirections to it (but for a $JUMP) and
\* to a file (that is what \k asks for) are answered by the proxy itself, at once.
\* A redirection names local.ptron by either scheme; a URL of local.ptron overrides it.
ToLocal  == owner.url # Local /\ owner.rdir \in {"jump", "rdir"} /\ owner.rdirHost = Local
FromFile == IF owner.url = Local THEN ~owner.https
            ELSE owner.rdir = "killed" \/ (owner.rdir = "rdir" /\ ToLocal)
FromTls  == SSLFilter /\ (IF owner.url = Local THEN owner.https ELSE ToLocal)

Page == <<Tok("fake", out.req, "200")>>

LocalAnswer ==
  /\ pc = "route" /\ FromFile
  /\ owner' = [owner EXCEPT !.rdir = "none"]
  /\ inStep' = "FINISH" /\ sendConnectionClose' = TRUE
  /\ SendIn(Page, TRUE)
  /\ pc' = ConnectReturn
  /\ UNCHANGED <<envVars, website, brSecure, webConn, stop, prevHost, prevConnect, outStep,
                 outBufs, recvInBuf, out, in, recvConnectionClose, redirectedIn, ret, restVars,
                 idle, valid, countVars>>

\* The block-list and certificate pages write their response themselves, again
\* and again until a Write fails, then close the browser's socket.  They leave
\* the steps alone.
ApiWrite(r) ==
  /\ brConn' = FALSE
  /\ \/ /\ brConn /\ browser.open /\ "browser" \notin stalled
        /\ \E n \in 1..MaxCopies :
             browser' = [browser EXCEPT !.got = @ \o [i \in 1..n |-> Tok("fake", r, "200")]]
     \/ /\ ~brConn \/ WriteFails("browser", browser.open)
        /\ UNCHANGED browser

ApiAnswer ==
  /\ pc = "route" /\ owner.url = Local /\ ~owner.https
  /\ owner' = [owner EXCEPT !.rdir = "none"]
  /\ ApiWrite(out.req)
  /\ pc' = ConnectReturn
  /\ UNCHANGED <<envVars, website, brSecure, webConn, stop, prevHost, prevConnect, stepVars,
                 outBufs, inBufs, out, in, recvConnectionClose, sendConnectionClose,
                 redirectedIn, ret, restVars, idle, valid, countVars>>

\* https://local.ptron with the SSL filter on.  After a CONNECT the proxy plays the
\* TLS server, waits for a request line and answers it from a file.
LocalTls ==
  /\ pc = "route" /\ FromTls /\ out.method = "CONNECT"
  /\ \/ /\ brConn /\ browser.open /\ "browser" \notin stalled
        /\ browser' = [browser EXCEPT !.got = Append(@, Tok("est", out.req, "200"))]
        /\ brSecure' = TRUE /\ stop' = stop \ {"browser"}
        /\ pc' = "awaitLocal" /\ UNCHANGED brConn
     \/ pc' = "raise" /\ brConn' = FALSE /\ UNCHANGED <<browser, brSecure, stop>>
  /\ UNCHANGED <<envVars, website, webConn, prevHost, prevConnect, stepVars, outBufs, inBufs,
                 dataVars, ret, restVars, idle, valid, countVars>>

AwaitLine ==
  /\ pc = "awaitLocal" /\ brConn /\ ~NextIs(recvOutBuf, {"line"})
  /\ ReceiveOut
  /\ UNCHANGED <<envVars, website, brSecure, webConn, stop, prevHost, prevConnect, stepVars,
                 sendOutBuf, inBufs, dataVars, pc, ret, restVars, idle, valid, countVars>>

SecurePage(r, api) ==
  \/ /\ inStep' = "FINISH" /\ sendConnectionClose' = TRUE
     /\ owner' = [owner EXCEPT !.rdir = "none"]
     /\ SendIn(<<Tok("fake", r, "200")>>, TRUE)
  \/ /\ api /\ ApiWrite(r)
     /\ UNCHANGED <<inStep, sendConnectionClose, owner, sendInBuf>>

AwaitLocal ==
  /\ pc = "awaitLocal" /\ (NextIs(recvOutBuf, {"line"}) \/ ~brConn)
  /\ recvOutBuf' = <<>>
  /\ LET r == IF NextIs(recvOutBuf, {"line"}) THEN Head(recvOutBuf).r ELSE out.req
     IN /\ out' = [out EXCEPT !.req = r, !.method = reqs[r].m]
        /\ SecurePage(r, r # out.req)
  /\ pc' = ConnectReturn
  /\ UNCHANGED <<envVars, website, brSecure, webConn, stop, prevHost, prevConnect, outStep,
                 sendOutBuf, recvInBuf, in, recvConnectionClose, redirectedIn, ret, restVars,
                 idle, valid, countVars>>

\* Other requests are answered if the website's socket is, or before it was closed
\* was, one of TLS (either, for what the model knows); "handshake failed" otherwise.
LocalSecure ==
  /\ pc = "route" /\ FromTls /\ out.method # "CONNECT"
  /\ \/ pc' = "raise" /\ UNCHANGED <<inStep, sendConnectionClose, owner, sendInBuf, browser, brConn>>
     \/ pc' = ConnectReturn /\ SecurePage(out.req, TRUE)
  /\ UNCHANGED <<envVars, website, brSecure, webConn, stop, prevHost, prevConnect, outStep,
                 outBufs, recvInBuf, out, in, recvConnectionClose, redirectedIn, ret, restVars,
                 idle, valid, countVars>>

\* _HandleRedirectToHost, $JUMP: a 302 for the browser.
Jump ==
  /\ pc = "route" /\ owner.rdir = "jump"
  /\ Fake("302")
  /\ owner' = [owner EXCEPT !.rdir = "none"]
  /\ pc' = ConnectReturn
  /\ UNCHANGED <<envVars, browser, website, socketVars, outStep, outBufs, recvInBuf, out, in,
                 recvConnectionClose, redirectedIn, ret, restVars, idle, valid, countVars>>

\* _HandleRedirectToHost, $RDIR: the URL becomes the other host's.
Rdir ==
  /\ pc = "route" /\ owner.rdir = "rdir" /\ owner.url # Local
  /\ \E https \in BOOLEAN :
       /\ owner.rdirHost = Local => https /\ ~SSLFilter
       /\ owner' = [owner EXCEPT !.url = owner.rdirHost, !.https = https,
                                 !.contact = <<owner.rdirHost, https>>, !.rdir = "none"]
  /\ UNCHANGED <<envVars, browser, website, socketVars, stepVars, outBufs, inBufs, out, in,
                 recvConnectionClose, sendConnectionClose, redirectedIn, pc, ret, restVars,
                 idle, valid, countVars>>

\* Reuse the connection to this host, or open one: the name may not resolve,
\* the connection may fail, or be given up because the manager is invalid.
Target == IF UseProxy THEN <<"proxy", FALSE>> ELSE owner.contact
SameHostAny == webConn     \* mutant: m_previousHost is not compared
SameHost  == prevHost = Target /\ webConn
ToWebsite == pc = "route" /\ owner.rdir = "none" /\ ~FromFile /\ ~FromTls

ConnectReuse ==
  /\ ToWebsite /\ SameHost
  /\ owner' = [owner EXCEPT !.contact = Target]
  /\ pc' = "resend"
  /\ UNCHANGED <<envVars, browser, website, socketVars, stepVars, outBufs, inBufs, out, in,
                 recvConnectionClose, sendConnectionClose, redirectedIn, ret, restVars,
                 idle, valid, countVars>>

ConnectFail ==
  /\ ToWebsite /\ ~SameHost
  /\ owner' = [owner EXCEPT !.contact = Target]
  /\ prevHost' = Target
  /\ KeepWebsite(FALSE)
  /\ connects' = connects + 1
  /\ Fake("50x")
  /\ pc' = ConnectReturn
  /\ UNCHANGED <<envVars, browser, brConn, brSecure, stop, prevConnect, outStep, outBufs,
                 recvInBuf, out, in, recvConnectionClose, redirectedIn, ret, restVars,
                 idle, valid, active>>

ConnectOpen ==
  /\ ToWebsite /\ ~SameHost
  /\ owner.url # Local \/ UseProxy     \* local.ptron does not resolve
  /\ owner' = [owner EXCEPT !.contact = Target]
  /\ prevHost' = Target
  /\ webConn' = TRUE /\ website' = [Disconnected EXCEPT !.open = TRUE, !.host = Target]
  /\ stop' = stop \ {"website"} /\ stalled' = stalled \ {"website"}
  /\ connects' = connects + 1
  /\ IF out.method = "CONNECT"
     THEN /\ inStep' = "TUNNELING"
          /\ sendInBuf' = <<Tok("est", out.req, "200")>>
          /\ pc' = "established"
     ELSE pc' = "viaProxy" /\ UNCHANGED <<inStep, sendInBuf>>
  /\ UNCHANGED <<setting, reqs, strays, browser, brConn, brSecure, prevConnect, outStep, outBufs,
                 recvInBuf, out, in, recvConnectionClose, sendConnectionClose, redirectedIn,
                 ret, restVars, idle, valid, active>>

Established ==
  /\ pc = "established"
  /\ SendIn(sendInBuf, TRUE)
  /\ prevConnect' = TRUE
  /\ pc' = "viaProxy"
  /\ UNCHANGED <<envVars, website, brSecure, webConn, stop, prevHost, stepVars, outBufs,
                 recvInBuf, dataVars, ret, restVars, idle, valid, countVars>>

\* _SendConnectRequestToRemoteProxy: send the CONNECT and wait for the answer,
\* for as long as the proxy keeps the connection; anything but 200 throws.  From a
\* proxy that leaves without an answer the code of the last response is still there.
NeedsConnectOnce == owner.contact # <<owner.url, owner.https>> /\ out.method = "CONNECT"
                    \* mutant: m_previousConnectRequest is not sent again
NeedsConnect == /\ owner.contact # <<owner.url, owner.https>>
                /\ out.method = "CONNECT" \/ prevConnect

ViaProxy ==
  /\ pc = "viaProxy"
  /\ IF NeedsConnect
     THEN pc' = "awaitProxy" /\ SendOut(<<Tok("connect", out.req, "-")>>)
     ELSE pc' = "tls" /\ UNCHANGED <<sendOutBuf, website, webConn>>
  /\ UNCHANGED <<envVars, browser, brConn, brSecure, stop, prevHost, prevConnect, stepVars,
                 recvOutBuf, inBufs, dataVars, ret, restVars, idle, valid, countVars>>

AwaitProxy ==
  /\ pc = "awaitProxy"
  /\ recvInBuf' = <<>>
  /\ \E code \in (IF website.got # <<>> THEN {"200", "50x"} ELSE {})
                \cup (IF website.open THEN {} ELSE {in.code}) :
       /\ in' = [in EXCEPT !.code = code]
       /\ pc' = IF code = "200" THEN "tls" ELSE "raise"
  /\ KeepWebsite(website.open)
  /\ UNCHANGED <<envVars, browser, brConn, brSecure, stop, prevHost, prevConnect, stepVars,
                 outBufs, sendInBuf, out, owner, recvConnectionClose, sendConnectionClose,
                 redirectedIn, ret, restVars, idle, valid, countVars>>

\* InitClientSession / InitServerSession: each handshake may fail and then
\* closes its socket; a certificate that is refused closes both.  A bypassed
\* URL (m_bypass) is left encrypted.
Tls ==
  /\ pc = "tls"
  /\ pc' = "resend"
  /\ \/ UNCHANGED <<brConn, brSecure, webConn, website, stop>>    \* not https, or bypassed
     \/ /\ owner.https /\ SSLFilter /\ webConn
        /\ IF out.method = "CONNECT"
           THEN \/ brConn /\ browser.open /\ brSecure' = TRUE /\ stop' = {} /\ UNCHANGED brConn
                \/ brConn' = FALSE /\ stop' = stop \ {"website"} /\ UNCHANGED brSecure
           ELSE stop' = stop \ {"website"} /\ UNCHANGED <<brConn, brSecure>>
        /\ UNCHANGED <<webConn, website>>
     \/ /\ owner.https /\ SSLFilter
        /\ KeepWebsite(FALSE)
        /\ brConn' \in {brConn, FALSE}
        /\ UNCHANGED <<brSecure, stop>>
  /\ UNCHANGED <<envVars, browser, prevHost, prevConnect, stepVars, outBufs, inBufs, dataVars,
                 ret, restVars, idle, valid, countVars>>

\* "Prepare and send a simple request, if we did a transparent redirection"
Resend ==
  /\ pc = "resend"
  /\ IF outStep # "DECODE" /\ inStep = "START"
     THEN SendOut(<<Tok("qhead", out.req, "simple")>>)
     ELSE UNCHANGED <<sendOutBuf, website, webConn>>
  /\ pc' = ConnectReturn
  /\ UNCHANGED <<envVars, browser, brConn, brSecure, stop, prevHost, prevConnect, stepVars,
                 recvOutBuf, inBufs, dataVars, ret, restVars, idle, valid, countVars>>

\* Back in InDecode's caller: "++m_redirectedIn; continue;"
InRedirectedUncounted ==   \* mutant: m_redirectedIn does not grow
  /\ pc = "inRedirected"
  /\ pc' = "procIn"
  /\ UNCHANGED <<envVars, browser, website, socketVars, stepVars, outBufs, inBufs, dataVars,
                 ret, restVars, idle, valid, countVars>>
InRedirected ==
  /\ pc = "inRedirected"
  /\ redirectedIn' = redirectedIn + 1
  /\ pc' = "procIn"
  /\ UNCHANGED <<envVars, browser, website, socketVars, stepVars, outBufs, inBufs, out, owner, in,
                 recvConnectionClose, sendConnectionClose, ret, restVars, idle, valid, countVars>>

-----------------------------------------------------------------------------
(* _ProcessIn(): website -> browser.                                       *)

InBlockedFinish ==   \* mutant: the end is left to _ProcessOut once too often
  \/ inStep \in {"START", "FIRSTLINE", "RAW"} /\ recvInBuf = <<>>
  \/ inStep = "HEADERS" /\ ~NextIs(recvInBuf, {"rhdr", "rhdrClose"})
  \/ inStep = "CHUNK" /\ ~NextIs(recvInBuf, {"size", "last"})
  \/ inStep = "FINISH" /\ outStep # "START"
InBlocked ==
  \/ inStep \in {"START", "FIRSTLINE", "RAW"} /\ recvInBuf = <<>>
  \/ inStep = "HEADERS" /\ ~NextIs(recvInBuf, {"rhdr", "rhdrClose"})
  \/ inStep = "CHUNK" /\ ~NextIs(recvInBuf, {"size", "last"})
  \/ inStep = "FINISH" /\ outStep \notin {"START", "FINISH"}

InReturn ==
  /\ pc = "procIn" /\ InBlocked
  /\ pc' = ret
  /\ UNCHANGED <<envVars, browser, website, socketVars, stepVars, outBufs, inBufs, dataVars,
                 ret, restVars, idle, valid, countVars>>

InStart ==
  /\ pc = "procIn" /\ inStep = "START" /\ recvInBuf # <<>>
  /\ inStep' = "FIRSTLINE"
  /\ active' = active + NewlyActive(outStep)
  /\ UNCHANGED <<envVars, browser, website, socketVars, outStep, outBufs, inBufs, dataVars,
                 pc, ret, restVars, idle, valid, connects>>

InFirstLine ==
  /\ pc = "procIn" /\ inStep = "FIRSTLINE" /\ NextIs(recvInBuf, {"rline"})
  /\ inStep' = "HEADERS"
  /\ in' = [in EXCEPT !.resp = Head(recvInBuf).r, !.code = Head(recvInBuf).v,
                      !.size = 0, !.chunked = FALSE]
  /\ recvInBuf' = Tail(recvInBuf)
  /\ recvConnectionClose' = FALSE /\ sendConnectionClose' = FALSE
  /\ UNCHANGED <<envVars, browser, website, socketVars, outStep, outBufs, sendInBuf, out, owner,
                 redirectedIn, pc, ret, restVars, idle, valid, countVars>>

\* What does not begin with "HTTP" is thrown away, and ends the response.
InGarbage ==
  /\ pc = "procIn" /\ inStep = "FIRSTLINE"
  /\ recvInBuf # <<>> /\ ~NextIs(recvInBuf, {"rline"})
  /\ recvInBuf' = <<>>
  /\ inStep' = "FINISH"
  /\ UNCHANGED <<envVars, browser, website, socketVars, outStep, outBufs, sendInBuf, dataVars,
                 pc, ret, restVars, idle, valid, countVars>>

\* The headers are added to those already there.  After a 100 another head
\* follows.
InHeaders ==
  /\ pc = "procIn" /\ inStep = "HEADERS" /\ NextIs(recvInBuf, {"rhdr", "rhdrClose"})
  /\ recvInBuf' = Tail(recvInBuf)
  /\ inStep' = IF in.code = "100" THEN "FIRSTLINE" ELSE "DECODE"
  /\ in' = [in EXCEPT !.headers = Append(@, Head(recvInBuf)),
                      !.code = IF @ = "100" THEN "" ELSE @]
  /\ UNCHANGED <<envVars, browser, website, socketVars, outStep, outBufs, sendInBuf, out, owner,
                 recvConnectionClose, sendConnectionClose, redirectedIn, pc, ret, restVars,
                 idle, valid, countVars>>

(* What the accumulated headers say; a header given twice counts with its  *)
(* first value.                                                            *)
Says(frames) == \E i \in DOMAIN in.headers : in.headers[i].v \in frames
SaysClose    == \E i \in DOMAIN in.headers : in.headers[i].k = "rhdrClose"
ContentLength ==
  LET given == {i \in DOMAIN in.headers : in.headers[i].v \in {"len1", "len2", "bad"}}
  IN IF given = {} THEN "" ELSE in.headers[CHOOSE i \in given : \A j \in given : i <= j].v
ContentType == Says(Frames \ {"none"})
BodySize ==
  IF out.method = "HEAD" THEN 0
  ELSE CASE ContentLength = "len1" -> 1
         [] ContentLength = "len2" -> 2
         [] OTHER -> IF ContentType THEN Unlimited ELSE 0

\* boost::lexical_cast throws, and Manage catches it outside its loop.
InDecodeBad ==
  /\ pc = "procIn" /\ inStep = "DECODE"
  /\ ContentLength = "bad" /\ out.method # "HEAD"
  /\ pc' = "raise"
  /\ UNCHANGED <<envVars, browser, website, socketVars, stepVars, outBufs, inBufs, dataVars,
                 ret, restVars, idle, valid, countVars>>

\* The head as the browser gets it: how its body is framed.
HeadFor(i) == Tok(IF i.code \in {"100", "103"} THEN "interim" ELSE "rhead", i.resp,
                  IF i.code = "101" THEN "tunnel"
                  ELSE IF out.method = "HEAD" \/ i.code = "204" THEN "none"
                  ELSE IF i.chunked \/ (i.chain /\ i.size > 0) THEN "chunk"
                  ELSE CASE i.size = 0 -> "none" [] i.size = 1 -> "len1"
                         [] i.size = 2 -> "len2" [] OTHER -> "eof")

Relay(i) ==
  /\ in' = i
  /\ sendConnectionClose' = (sendConnectionClose \/ SaysClose)
  /\ sendInBuf' = <<HeadFor(i)>>
  /\ outStep' = IF i.code = "101" THEN "TUNNELING" ELSE outStep
  /\ inStep' = CASE i.code = "101" -> "TUNNELING"
                 [] i.code \in {"204", "100", "103"} -> "FINISH"
                 [] OTHER -> IF i.chunked THEN "CHUNK" ELSE IF i.size > 0 THEN "RAW" ELSE "FINISH"
  /\ UNCHANGED pc

\* The incoming header filters may ask for a redirection; otherwise the head
\* goes to the browser (in place of what sendInBuf held).
InDecode ==
  /\ pc = "procIn" /\ inStep = "DECODE"
  /\ ~(ContentLength = "bad" /\ out.method # "HEAD")
  /\ recvConnectionClose' = (recvConnectionClose \/ SaysClose)
  /\ \E f \in InFilters :
       \E h \in (IF f \in {"jump", "rdir"} THEN Hosts ELSE {owner.rdirHost}), chain \in Chains :
         LET rdir    == IF f = "none" THEN owner.rdir ELSE f
             decoded == [in EXCEPT !.chunked = @ \/ (Says({"chunk"}) /\ out.method # "HEAD"),
                                   !.size = BodySize]
         IN /\ owner' = [owner EXCEPT !.rdir = rdir, !.rdirHost = h]
            /\ IF rdir # "none" /\ redirectedIn < MaxRedirect
               THEN /\ pc' = "connect" /\ in' = decoded
                    /\ UNCHANGED <<stepVars, sendInBuf, sendConnectionClose>>
               ELSE Relay([decoded EXCEPT !.chain = chain /\ ContentType, !.dumped = FALSE])
  /\ UNCHANGED <<envVars, browser, website, socketVars, outBufs, recvInBuf, out, redirectedIn,
                 ret, restVars, idle, valid, countVars>>

InChunkStays ==      \* mutant: STEP_CHUNK is not left after the last chunk
  /\ pc = "procIn" /\ inStep = "CHUNK" /\ NextIs(recvInBuf, {"size", "last"})
  /\ recvInBuf' = Tail(recvInBuf)
  /\ IF Head(recvInBuf).k = "size"
     THEN /\ inStep' = "RAW" /\ in' = [in EXCEPT !.size = 1]
          /\ UNCHANGED sendInBuf
     ELSE /\ in' = [in EXCEPT !.size = 0, !.dumped = TRUE]
          /\ sendInBuf' = Ended(sendInBuf, in.resp, in) /\ UNCHANGED inStep
  /\ UNCHANGED <<envVars, browser, website, socketVars, outStep, outBufs, out, owner,
                 recvConnectionClose, sendConnectionClose, redirectedIn, pc, ret, restVars,
                 idle, valid, countVars>>
InChunk ==
  /\ pc = "procIn" /\ inStep = "CHUNK" /\ NextIs(recvInBuf, {"size", "last"})
  /\ recvInBuf' = Tail(recvInBuf)
  /\ IF Head(recvInBuf).k = "size"
     THEN /\ inStep' = "RAW" /\ in' = [in EXCEPT !.size = 1]
          /\ UNCHANGED sendInBuf
     ELSE /\ inStep' = "FINISH" /\ in' = [in EXCEPT !.size = 0, !.dumped = TRUE]
          /\ sendInBuf' = Ended(sendInBuf, in.resp, in)
  /\ UNCHANGED <<envVars, browser, website, socketVars, outStep, outBufs, out, owner,
                 recvConnectionClose, sendConnectionClose, redirectedIn, pc, ret, restVars,
                 idle, valid, countVars>>

\* DataFeed passes n pieces on, unless the filters already ended the body.  A
\* text filter may end it now: DataDump closes the website's socket.
InRaw ==
  /\ pc = "procIn" /\ inStep = "RAW" /\ recvInBuf # <<>>
  /\ LET n    == CopySize(recvInBuf, in.size)
         left == in.size - n
         fed  == [i \in 1..n |-> Tok("data", in.resp, "-")]
         over == left = 0 /\ ~in.chunked
     IN \E killed \in {FALSE, BodyKill /\ in.chain /\ ~in.dumped} :
          /\ recvInBuf' = SubSeq(recvInBuf, n + 1, Len(recvInBuf))
          /\ in' = [in EXCEPT !.size = IF @ = Unlimited THEN @ ELSE left,
                              !.dumped = @ \/ killed \/ over]
          /\ inStep' = IF left > 0 THEN "RAW" ELSE IF in.chunked THEN "CHUNK" ELSE "FINISH"
          /\ LET body == IF in.dumped THEN sendInBuf ELSE sendInBuf \o fed
             IN sendInBuf' = IF over THEN Ended(body, in.resp, in) ELSE body
          /\ IF killed THEN KeepWebsite(FALSE) ELSE UNCHANGED <<webConn, website>>
  /\ UNCHANGED <<envVars, browser, brConn, brSecure, stop, prevHost, prevConnect, outStep,
                 outBufs, out, owner, recvConnectionClose, sendConnectionClose, redirectedIn,
                 pc, ret, restVars, idle, valid, countVars>>

InTunneling ==
  /\ pc = "procIn" /\ inStep = "TUNNELING"
  /\ IF brSecure /\ in.code # "101"
     THEN inStep' = "START" /\ UNCHANGED <<inBufs, pc>>
     ELSE /\ sendInBuf' = sendInBuf \o recvInBuf
          /\ recvInBuf' = <<>>
          /\ pc' = ret /\ UNCHANGED inStep
  /\ UNCHANGED <<envVars, browser, website, socketVars, outStep, outBufs, dataVars,
                 ret, restVars, idle, valid, countVars>>

InFinish ==
  /\ pc = "procIn" /\ inStep = "FINISH" /\ outStep \in {"START", "FINISH"}
  /\ EndExchange(sendConnectionClose \/ ~valid)
  /\ UNCHANGED <<envVars, brSecure, stop, prevHost, prevConnect, outBufs, recvInBuf, dataVars,
                 pc, ret, restVars, idle, valid, connects>>

-----------------------------------------------------------------------------
(* The browser, the website, the clock and the GUI thread.                 *)

threadVars == <<brConn, brSecure, webConn, prevHost, prevConnect, stepVars, outBufs, inBufs,
                dataVars, pc, ret, restVars, countVars>>

\* Responses the browser has in full, and those it knows it will have in full
\* only when the connection closes.
BodyTokens(i) == {j \in DOMAIN browser.got : j > i /\ browser.got[j].k \in {"data", "end"}}
WholeAt(i) ==
  \/ browser.got[i].k \in {"fake", "est"}
  \/ /\ browser.got[i].k = "rhead"
     /\ CASE browser.got[i].v \in {"none", "tunnel"} -> TRUE
          [] browser.got[i].v = "len1" -> BodyTokens(i) # {}
          [] browser.got[i].v = "len2" -> Cardinality(BodyTokens(i)) > 1
          [] browser.got[i].v = "chunk" -> \E j \in BodyTokens(i) : browser.got[j].k = "end"
          [] OTHER -> FALSE
WholeResponses == Cardinality({i \in DOMAIN browser.got : WholeAt(i)})
BrowserTunnels == \E r \in DOMAIN reqs : reqs[r].m = "CONNECT"
Upgraded == \E i \in DOMAIN browser.got : browser.got[i].k = "rhead" /\ browser.got[i].v = "tunnel"

RequestTokens(r, body) ==
  <<Tok("line", r, "-"), Tok("hdr", r, "-")>> \o
  CASE body = "len"   -> <<Tok("byte", r, "-"), Tok("byte", r, "-")>>
    [] body = "chunk" -> <<Tok("size", r, "-"), Tok("byte", r, "-"), Tok("last", r, "-")>>
    [] OTHER          -> <<>>

\* Inside an intercepted CONNECT the browser asks for the host it connected to.
BrowserRequest ==
  /\ browser.open /\ brConn /\ Len(reqs) < MaxReq
  /\ browser.queue = <<>>
  /\ Pipelining \/ WholeResponses = Len(reqs)
  /\ ~Upgraded /\ (BrowserTunnels => brSecure)
  /\ \E m \in Methods, h \in Hosts :
       \E b \in (IF m = "POST" THEN Bodies ELSE {"none"}) :
         /\ BrowserTunnels => m # "CONNECT" /\ \E r \in DOMAIN reqs : reqs[r].m = "CONNECT" /\ reqs[r].h = h
         /\ m = "CONNECT" => WholeResponses = Len(reqs)
         /\ reqs' = Append(reqs, [m |-> m, h |-> h, b |-> b])
         /\ browser' = [browser EXCEPT !.queue = RequestTokens(Len(reqs) + 1, b)]
  /\ UNCHANGED <<threadVars, setting, website, strays, stalled, stop, idle, valid>>

\* An opaque piece of a tunnel (TLS handshakes of the proxy are part of Tls); others
\* may still be on their way.
Requests == {r \in DOMAIN reqs : reqs[r].m # "tun"}
BrowserTunnel ==
  /\ browser.open /\ brConn /\ Len(reqs) < MaxReq
  /\ WholeResponses = Cardinality(Requests)
  /\ Upgraded \/ (BrowserTunnels /\ ~brSecure /\ outStep = "TUNNELING")
  /\ reqs' = Append(reqs, [m |-> "tun", h |-> reqs[Len(reqs)].h, b |-> "none"])
  /\ browser' = [browser EXCEPT !.queue = Append(@, Tok("tun", Len(reqs) + 1, "-"))]
  /\ UNCHANGED <<threadVars, setting, website, strays, stalled, stop, idle, valid>>

BrowserSend ==
  /\ browser.open /\ brConn /\ browser.queue # <<>>
  /\ browser' = [browser EXCEPT !.net = Append(@, Head(browser.queue)), !.queue = Tail(@)]
  /\ UNCHANGED <<threadVars, envVars, website, stop, idle, valid>>

BrowserClose ==
  /\ "browser" \in MayDrop /\ browser.open /\ brConn
  /\ browser' = [browser EXCEPT !.open = FALSE, !.queue = <<>>]
  /\ UNCHANGED <<threadVars, envVars, website, stop, idle, valid>>

\* The website answers in order, each request once, and may end the connection
\* with an answer.
Pending == {r \in website.todo : \A s \in website.todo : r <= s}
BodyArrived(got, r) ==
  LET of(k) == {i \in DOMAIN got : got[i].r = r /\ got[i].k = k}
  IN \/ \E i \in of("qhead") : got[i].v = "simple"
     \/ CASE reqs[r].b = "len" -> Cardinality(of("byte")) = 2
          [] reqs[r].b = "chunk" -> of("last") # {}
          [] OTHER -> TRUE
Idle == website.open /\ website.queue = <<>> /\ ~website.ending

BodyOf(r, frame) ==
  LET d == Tok("data", r, "-")
  IN CASE frame = "len1" -> <<d>> [] frame = "len2" -> <<d, d>>
       [] frame = "chunk" -> <<Tok("size", r, "-"), d, Tok("last", r, "-")>>
       [] frame = "eof" -> <<d>> [] OTHER -> <<>>

\* The first n pieces a website puts into a tunnel; some may follow a 101 at once.
PiecesFrom(said, n) == [i \in 1..n |-> Tok("tun", said + i, "-")]

WebsiteAnswer ==
  /\ Idle
  /\ \E r \in Pending, a \in Responses :
       \E n \in (IF a.code = "101" THEN 0..MaxPieces ELSE {0}) :
         /\ EarlyAnswer \/ BodyArrived(website.got, r)
         /\ website' = [website EXCEPT
              !.todo = @ \ {r}, !.ending = a.close \/ a.frame = "eof", !.said = @ + n,
              !.queue = <<Tok("rline", r, a.code),
                          Tok(IF a.close THEN "rhdrClose" ELSE "rhdr", r, a.frame)>>
                        \o (IF reqs[r].m = "HEAD" THEN <<>> ELSE BodyOf(r, a.frame))
                        \o PiecesFrom(website.said, n)]
  /\ UNCHANGED <<threadVars, envVars, browser, stop, idle, valid>>

\* A piece for the tunnel, asked for or not, once the connection is made and the
\* request that opens the tunnel is answered; others may still be on their way.
WebsiteTunnel ==
  /\ website.open /\ ~website.ending /\ website.said < MaxPieces
  /\ website.todo = {} /\ HeadsOf(sendOutBuf) = {}
  /\ outStep = "TUNNELING" /\ (~brSecure \/ in.code = "101")
  /\ pc \notin {"established", "viaProxy", "awaitProxy", "tls"}
  /\ website' = [website EXCEPT !.said = @ + 1, !.queue = @ \o PiecesFrom(website.said, 1)]
  /\ UNCHANGED <<threadVars, envVars, browser, stop, idle, valid>>

WebsiteInterim ==
  /\ Idle
  /\ \E r \in Pending, c \in Interims :
       /\ website.hinted < r
       /\ website' = [website EXCEPT !.hinted = r,
                        !.queue = <<Tok("rline", r, c), Tok("rhdr", r, "none")>>]
  /\ UNCHANGED <<threadVars, envVars, browser, stop, idle, valid>>

\* What nobody asked for: the response servers send before they close an idle
\* connection, or more of a body than its head promised.
WebsiteStray ==
  /\ Idle /\ website.todo = {} /\ strays < MaxStray
  /\ strays' = strays + 1
  /\ \E q \in {<<Tok("rline", 0, "408"), Tok("rhdrClose", 0, "none")>>,
               <<Tok("data", 0, "-")>>} :
       website' = [website EXCEPT !.ending = TRUE, !.queue = q]
  /\ UNCHANGED <<threadVars, setting, reqs, stalled, browser, stop, idle, valid>>

WebsiteSend ==
  /\ website.open /\ website.queue # <<>>
  /\ website' = [website EXCEPT !.net = Append(@, Head(website.queue)), !.queue = Tail(@)]
  /\ UNCHANGED <<threadVars, envVars, browser, stop, idle, valid>>

WebsiteClose ==
  /\ website.open
  /\ "website" \in MayDrop \/ (website.ending /\ website.queue = <<>>)
  /\ website' = [website EXCEPT !.open = FALSE, !.queue = <<>>]
  /\ UNCHANGED <<threadVars, envVars, browser, stop, idle, valid>>

\* A peer stops reading, and its buffers are full.
Stall ==
  /\ \E side \in MayStall \ stalled :
       /\ (IF side = "browser" THEN browser.got ELSE website.got) # <<>>
       /\ stalled' = stalled \cup {side}
  /\ UNCHANGED <<threadVars, setting, reqs, strays, browser, website, stop, idle, valid>>

\* More than ten seconds pass.
IdleExpire ==
  /\ idle = "on" /\ idle' = "expired"
  /\ UNCHANGED <<threadVars, envVars, browser, website, stop, valid>>

\* Called by the GUI thread: "Abort", a kill from the monitor, a port change.
SwitchToInvalid ==
  /\ Aborts
  /\ valid' = FALSE
  /\ stop' = IF outStep # "START" THEN Sides ELSE stop
  /\ UNCHANGED <<threadVars, envVars, browser, website, idle>>

Environment ==
  /\ pc # "gone"
  /\ \/ BrowserRequest \/ BrowserTunnel \/ BrowserSend \/ BrowserClose
     \/ WebsiteAnswer \/ WebsiteTunnel \/ WebsiteInterim \/ WebsiteStray \/ WebsiteSend
     \/ WebsiteClose
     \/ Stall \/ IdleExpire \/ SwitchToInvalid

ManageLoop ==
  \/ OuterReceive \/ OuterSend \/ InnerSendOut \/ InnerReceiveIn \/ InnerSendIn
  \/ InnerReceiveOut \/ InnerEnd \/ TrailReceive \/ TrailFeed \/ TrailSend \/ Trail503
  \/ OuterEnd \/ Destroy
ProcessOut ==
  \/ OutReturn \/ OutStart \/ OutFirstLine \/ OutHeaders \/ OutDecodeBad \/ OutDecode \/ OutSend
  \/ OutChunk \/ OutRaw \/ OutTunneling \/ OutFinish
ConnectWebsite ==
  \/ ConnectFlush \/ LocalAnswer \/ ApiAnswer \/ LocalTls \/ AwaitLine \/ AwaitLocal
  \/ LocalSecure
  \/ Jump \/ Rdir \/ ConnectReuse \/ ConnectFail \/ ConnectOpen \/ Established
  \/ ViaProxy \/ AwaitProxy \/ Tls \/ Resend \/ InRedirected
ProcessIn ==
  \/ InReturn \/ InStart \/ InFirstLine \/ InGarbage \/ InHeaders \/ InDecodeBad \/ InDecode
  \/ InChunk \/ InRaw \/ InTunneling \/ InFinish

Thread == ManageLoop \/ ProcessOut \/ ConnectWebsite \/ ProcessIn
Terminated == pc = "gone" /\ UNCHANGED vars

Next == Thread \/ Environment \/ Terminated
Spec == Init /\ [][Next]_vars

\* The thread is scheduled, bytes on their way arrive, time passes, and a
\* website answers the requests it reads and closes what it ended.
FairSpec ==
  /\ Spec
  /\ WF_vars(Thread) /\ WF_vars(BrowserSend) /\ WF_vars(IdleExpire)
  /\ WF_vars(WebsiteAnswer) /\ WF_vars(WebsiteSend)
  /\ WF_vars(website.ending /\ WebsiteClose)

-----------------------------------------------------------------------------
Pcs == {"outerReceive", "outerSend", "innerSendOut", "innerReceiveIn", "innerSendIn",
        "innerReceiveOut", "innerEnd", "trailReceive", "trailFeed", "trailSend", "trail503",
        "outerEnd", "procOut", "procIn", "outSend", "connect", "route", "awaitLocal",
        "established", "viaProxy", "awaitProxy", "tls", "resend", "inRedirected", "raise", "gone"}
Returns == {"outerSend", "innerSendIn", "innerEnd", "trailFeed", "trailSend"}
\* A token is of a kind; of a request; and, where it matters, of a method, a
\* status or a way to frame the body.
Kinds   == {"line", "hdr", "size", "byte", "last", "tun", "qhead", "connect", "rline", "rhdr",
            "rhdrClose", "data", "rhead", "interim", "fake", "est", "end"}
Verbs   == {"GET", "HEAD", "POST", "CONNECT", "tun"}
Codes   == {"", "100", "101", "103", "200", "204", "302", "408", "503", "50x"}
Values  == {"-", "simple", "tunnel"} \cup Verbs \cup Codes \cup Frames
Tokens  == Seq([k : Kinds, r : Nat, v : Values])

\* Every variable has the values its comment says.
TypeOK ==
  /\ setting \in DOMAIN Settings
  /\ reqs \in Seq([m : Methods \cup {"tun"}, h : HostNames, b : Bodies \cup {"none"}])
  /\ browser \in [queue : Tokens, net : Tokens, open : BOOLEAN, got : Tokens]
  /\ website \in [host : Contacts, queue : Tokens, net : Tokens, open : BOOLEAN,
                  ending : BOOLEAN, todo : SUBSET Nat, hinted : Nat, said : Nat,
                  got : Tokens]
  /\ strays \in Nat /\ stalled \subseteq Sides /\ stop \subseteq Sides
  /\ {brConn, brSecure, webConn, prevConnect, bRest, innerRest, valid} \subseteq BOOLEAN
  /\ {recvConnectionClose, sendConnectionClose} \subseteq BOOLEAN
  /\ prevHost \in Contacts
  /\ outStep \in Steps /\ inStep \in Steps
  /\ recvOutBuf \in Tokens /\ sendOutBuf \in Tokens
  /\ recvInBuf \in Tokens /\ sendInBuf \in Tokens
  /\ out \in [req : Nat, method : Verbs, size : Nat, chunked : BOOLEAN]
  /\ owner \in [url : HostNames, https : BOOLEAN, contact : Contacts,
                rdir : Filters, rdirHost : HostNames]
  /\ in \in [resp : Nat, code : Values, headers : Tokens, size : Nat,
             chunked : BOOLEAN, chain : BOOLEAN, dumped : BOOLEAN]
  /\ redirectedIn \in 0..MaxRedirect
  /\ pc \in Pcs /\ ret \in Returns
  /\ idle \in {"off", "on", "expired"}
  /\ active \in Nat /\ connects \in Nat

-----------------------------------------------------------------------------
(* Safety.                                                                 *)

\* Between exchanges this manager counts for nothing among the active
\* requests, during one it counts for one: the increments of both STEP_STARTs
\* and the decrements of both STEP_FINISHes and of the destructor match (unless
\* an incoming filter redirects a response nobody asked for).
ActiveCount ==
  InFilters = {"none"} =>
    active = IF pc # "gone" /\ (outStep # "START" \/ inStep # "START") THEN 1 ELSE 0

\* Whatever happens, the count does not drop below what is under way, so the
\* monitor never shows "idle" (nor a negative count) during an exchange.
NeverUndercount ==
  active >= IF pc # "gone" /\ (outStep # "START" \/ inStep # "START") THEN 1 ELSE 0

\* An incoming filter that redirects every response cannot make the manager
\* open connections for ever: one for the request, MaxRedirect for responses.
RedirectBound == connects <= 1 + MaxRedirect

\* The thread never rests with both machines in STEP_FINISH, each having left
\* the end of the exchange to the other.
ExchangeClosed ==
  pc \in {"outerReceive", "outerSend", "innerSendOut", "innerReceiveIn", "innerSendIn",
          "innerReceiveOut", "innerEnd", "outerEnd"}
    => ~(outStep = "FINISH" /\ inStep = "FINISH")

IsHead(t) == t.k \in {"rhead", "fake", "est"}

\* The n-th final response the browser gets is for the n-th request it sent:
\* nothing of an earlier exchange, or of an earlier website, is left in a
\* buffer to be taken for it.
PairedResponses ==
  LET heads == SelectSeq(browser.got, IsHead)
  IN (MaxStray = 0 /\ Local \notin Hosts) => \A n \in DOMAIN heads : heads[n].r = n

\* The piece at j of what the browser gets is of a body that the head at i, the
\* last one before it, announced; or it passed through a tunnel.
OpensTunnel(t) == t.k = "est" \/ (t.k = "rhead" /\ t.v = "tunnel")
Announced(s, i, j) ==
  CASE s[i].v = "len1"  -> s[j].k = "data" /\ \A l \in i+1..j-1 : s[l].k # "data"
    [] s[i].v = "len2"  -> /\ s[j].k = "data"
                           /\ \A l, m \in i+1..j-1 : s[l].k = "data" /\ s[m].k = "data" => l = m
    [] s[i].v = "chunk" -> \A l \in i+1..j-1 : s[l].k # "end"
    [] s[i].v = "eof"   -> s[j].k = "data"
    [] OTHER -> FALSE
FramedAt(s, j) ==
  \E i \in 1..j-1 :
    /\ IsHead(s[i]) /\ \A l \in i+1..j : ~IsHead(s[l])
    /\ \/ OpensTunnel(s[i])
       \/ s[i].k = "rhead" /\ s[i].r = s[j].r /\ Announced(s, i, j)
WellFramed(s) == \A j \in DOMAIN s : s[j].k \in {"data", "end"} => FramedAt(s, j)

\* The browser can parse what it gets: a body piece belongs to the response
\* whose head came last, there is no more of it than the head announced, and
\* a chunked body ends once.
ResponseFramed == WellFramed(browser.got)

\* The website can parse what it gets: bodies follow their heads, and a head
\* comes only after the whole of the request before it ("We shouldn't send
\* anything to website if it is not expecting data").
WebsiteStream ==
  ~EarlyAnswer => \A i \in DOMAIN website.got :
    LET t == website.got[i] IN
    /\ t.k \notin {"line", "hdr"}
    /\ t.k = "qhead" =>
         \A j \in 1..i-1 : BodyArrived(SubSeq(website.got, 1, i - 1), website.got[j].r)
    /\ t.k \in {"size", "byte", "last"} =>
         \E j \in 1..i-1 : /\ website.got[j].k = "qhead"
                          /\ \A l \in j..i : website.got[l].r = t.r

\* What a website gets is for it: m_previousHost, the socket and the buffer of
\* the request always agree (when no filter rewrites URLs and no proxy is used).
SentToItsHost ==
  (OutFilters = {"none"} /\ InFilters = {"none"} /\ ~UseProxy) =>
    \A i \in DOMAIN website.got : reqs[website.got[i].r].h = website.host[1]

\* A body is read the way the head it came with says.
OwnFraming ==
  (InFilters = {"none"} /\ inStep \in {"CHUNK", "RAW"}) =>
    LET own == in.headers[Len(in.headers)].v
    IN in.chunked = (own = "chunk")
       /\ (~in.chunked => (in.size = Unlimited) = (own = "eof"))

\* A tunnel passes on everything, once and in order: what an end has got is the
\* beginning of what the other end has sent and, while both connections stand, the
\* rest is on its way, in order too: on the wire, in the buffers, before _ProcessOut
\* or _ProcessIn or after them.
Tunnelled(s) == SelectSeq(s, LAMBDA t : t.k = "tun")
Numbered(s, first) == \A i \in DOMAIN s : s[i].r = first + i
TunnelInOrder ==
  LET up   == Tunnelled(website.got)
      down == Tunnelled(browser.got)
      allUp   == up \o Tunnelled(sendOutBuf \o recvOutBuf \o browser.net \o browser.queue)
      allDown == down \o Tunnelled(sendInBuf \o recvInBuf \o website.net \o website.queue)
  IN /\ Numbered(up, Cardinality(Requests)) /\ Numbered(down, 0)
     /\ (brConn /\ browser.open /\ webConn /\ website.open) =>
          /\ Numbered(allUp, Cardinality(Requests)) /\ Len(allUp) = Len(reqs) - Cardinality(Requests)
          /\ Numbered(allDown, 0) /\ Len(allDown) = website.said

\* Through a remote proxy, what comes from a tunnelled browser goes into a
\* tunnel: a connection opened again after the website left it begins with the
\* CONNECT too.
ProxyTunnels ==
  (website.host = <<"proxy", FALSE>> /\ prevConnect /\ website.got # <<>>)
    => website.got[1].k = "connect"

(* What a step may never do.                                               *)

\* The idle clock closes a connection only between exchanges, with nothing
\* left to send.  (A 103, or what nobody asked for, leaves both steps at START with
\* a response under way.)
IdleCloseBetween ==
  [][(/\ MaxStray = 0 /\ "103" \notin Interims /\ pc \in {"innerEnd", "outerEnd"}
      /\ brConn /\ ~brConn' /\ valid /\ ~brSecure)
       => \/ outStep = "START" /\ inStep = "START" /\ sendInBuf = <<>>
          \/ outStep = "TUNNELING"]_vars

(* Liveness.                                                               *)

\* When the browser has left, the thread ends and gives its sockets back.
BrowserLeaves == ~browser.open ~> pc = "gone"

\* A request is answered, or its connection is closed: a browser that reads is
\* never left waiting.
Answered ==
  \A n \in UNION {1..Settings[s].maxReq : s \in DOMAIN Settings} :
    (Len(reqs) = n /\ reqs[n].m # "tun" /\ browser.queue = <<>>)
      ~> (WholeResponses >= n \/ ~brConn \/ ~browser.open \/ "browser" \in stalled)

\* An aborted connection ends ("Abort Button"): if the browser reads or, when it does
\* not, a write that waits for it was told to give up (WriteStop).  Only the wait of
\* _HandleLocalPtron for a request line never looks at m_valid, and may last.
Unwritable   == "browser" \in stalled /\ "browser" \notin stop
WaitsForLine == pc = "awaitLocal"
AbortEnds == ~valid ~> (pc = "gone" \/ Unwritable \/ []WaitsForLine)

\* "It will close all connections, thus stopping downloads.  Use it if you want
\* to interrupt a frozen download" (monitor.html:74): also when the browser does
\* not read.
AbortCloses == ~valid ~> pc = "gone"

=============================================================================
