---------------------- MODULE RequestManagerData_proofs ----------------------
(***************************************************************************)
(* What holds of RequestManager for every value of its constants: how      *)
(* requests and connections are counted, how an exchange ends, what the    *)
(* variables hold; and that what a tunnelled browser sends through a       *)
(* remote proxy goes into a tunnel.                                        *)
(***************************************************************************)
EXTENDS RequestManager, SequenceTheorems, TLAPS

\* What the browser, the website, the clock and the GUI thread cannot change.
LEMMA EnvironmentLeavesThread == Environment => UNCHANGED threadVars
<1>1. CASE BrowserRequest \/ BrowserTunnel \/ BrowserSend \/ BrowserClose
  BY <1>1 DEF BrowserRequest, BrowserTunnel, BrowserSend, BrowserClose
<1>2. CASE WebsiteAnswer \/ WebsiteTunnel \/ WebsiteInterim \/ WebsiteStray \/ WebsiteSend \/ WebsiteClose
  BY <1>2 DEF WebsiteAnswer, WebsiteTunnel, WebsiteInterim, WebsiteStray, WebsiteSend, WebsiteClose
<1>3. CASE Stall \/ IdleExpire \/ SwitchToInvalid
  BY <1>3 DEF Stall, IdleExpire, SwitchToInvalid
<1> QED BY <1>1, <1>2, <1>3 DEF Environment

-----------------------------------------------------------------------------
(* The count of active requests.                                           *)

\* Where _ConnectWebsite runs, or has just returned to _ProcessOut.
Connecting == {"connect", "route", "awaitLocal", "established", "viaProxy", "awaitProxy",
               "tls", "resend", "inRedirected", "outSend"}

\* NeverUndercount is not inductive: _ConnectWebsite takes inStep back to
\* STEP_START and then to STEP_FINISH without looking at the count, so it has
\* to be positive all the while; and a decrement needs a natural number.
CountInv ==
  /\ ret \in Returns
  /\ active \in Nat
  /\ pc # "gone" /\ (outStep # "START" \/ inStep # "START") => active >= 1
  /\ pc \in Connecting => active >= 1

LEMMA CountInit == Init => CountInv
<1> SUFFICES ASSUME Init PROVE CountInv
  OBVIOUS
<1>1. active = 0 /\ ret = "outerSend" /\ pc = "outerReceive" /\ outStep = "START" /\ inStep = "START"
  BY DEF Init
<1> QED BY <1>1 DEF CountInv, Connecting, Returns

LEMMA CountStep == CountInv /\ [Next]_vars => CountInv'
<1> USE DEF CountInv, Connecting, Returns, countVars, stepVars
<1> SUFFICES ASSUME CountInv, [Next]_vars PROVE CountInv'
  OBVIOUS
<1>1. CASE UNCHANGED vars
  BY <1>1 DEF vars
<1>2. CASE Terminated
  BY <1>2 DEF Terminated, vars
<1>3. CASE Environment
  <2>1. UNCHANGED threadVars
    BY <1>3, EnvironmentLeavesThread
  <2> QED BY <2>1 DEF threadVars
<1>4. CASE ManageLoop
  <2>1. CASE Destroy
    BY <2>1 DEF Destroy
  <2>2. CASE TrailFeed
    BY <2>2 DEF TrailFeed
  <2>3. CASE \/ OuterReceive \/ OuterSend \/ InnerSendOut \/ InnerReceiveIn \/ InnerSendIn
             \/ InnerReceiveOut \/ InnerEnd \/ TrailReceive \/ TrailSend \/ Trail503 \/ OuterEnd
    BY <2>3 DEF OuterReceive, OuterSend, InnerSendOut, InnerReceiveIn, InnerSendIn,
        InnerReceiveOut, InnerEnd, TrailReceive, TrailSend, Trail503, OuterEnd
  <2> QED BY <1>4, <2>1, <2>2, <2>3 DEF ManageLoop
<1>5. CASE ProcessOut
  <2>1. CASE OutStart
    BY <2>1 DEF OutStart, NewlyActive
  <2>2. CASE OutFinish
    BY <2>2 DEF OutFinish, EndExchange
  <2>3. CASE OutDecode
    BY <2>3 DEF OutDecode
  <2>4. CASE OutSend
    BY <2>4 DEF OutSend
  <2>5. CASE \/ OutReturn \/ OutFirstLine \/ OutHeaders \/ OutDecodeBad \/ OutChunk \/ OutRaw
             \/ OutTunneling
    BY <2>5 DEF OutReturn, OutFirstLine, OutHeaders, OutDecodeBad, OutChunk, OutRaw, OutTunneling
  <2> QED BY <1>5, <2>1, <2>2, <2>3, <2>4, <2>5 DEF ProcessOut
<1>6. CASE ConnectWebsite
  <2> SUFFICES active' = active /\ ret' = ret /\ pc \in Connecting
    OBVIOUS
  <2>1. CASE ConnectFlush \/ LocalAnswer \/ ApiAnswer \/ LocalTls
    BY <2>1 DEF ConnectFlush, LocalAnswer, ApiAnswer, LocalTls
  <2>2. CASE AwaitLine \/ AwaitLocal \/ LocalSecure \/ Jump \/ Rdir
    BY <2>2 DEF AwaitLine, AwaitLocal, LocalSecure, SecurePage, Jump, Rdir
  <2>3. CASE ConnectReuse \/ ConnectFail \/ ConnectOpen
    BY <2>3 DEF ConnectReuse, ConnectFail, ConnectOpen, ToWebsite
  <2>4. CASE Established \/ ViaProxy \/ AwaitProxy \/ Tls \/ Resend \/ InRedirected
    BY <2>4 DEF Established, ViaProxy, AwaitProxy, Tls, Resend, InRedirected
  <2> QED BY <1>6, <2>1, <2>2, <2>3, <2>4 DEF ConnectWebsite
<1>7. CASE ProcessIn
  <2>1. CASE InStart
    BY <2>1 DEF InStart, NewlyActive
  <2>2. CASE InFinish
    BY <2>2 DEF InFinish, EndExchange
  <2>3. CASE InDecode
    BY <2>3 DEF InDecode, Relay
  <2>4. CASE InReturn \/ InFirstLine \/ InGarbage \/ InHeaders \/ InDecodeBad \/ InChunk
             \/ InRaw \/ InTunneling
    BY <2>4 DEF InReturn, InFirstLine, InGarbage, InHeaders, InDecodeBad, InChunk, InRaw,
        InTunneling
  <2> QED BY <1>7, <2>1, <2>2, <2>3, <2>4 DEF ProcessIn
<1> QED BY <1>1, <1>2, <1>3, <1>4, <1>5, <1>6, <1>7 DEF Next, Thread

\* For any browser, website and filters: the count of active requests stays at
\* or above what is under way, and is never negative.
THEOREM NeverUndercountHolds == Spec => []NeverUndercount
<1>1. CountInv => NeverUndercount
  BY DEF CountInv, NeverUndercount
<1> QED BY CountInit, CountStep, <1>1, PTL DEF Spec

-----------------------------------------------------------------------------
(* The number of connections opened for one request.                       *)

Opening == {"connect", "route", "awaitLocal"}        \* before the connection
Opened  == {"established", "viaProxy", "awaitProxy", "tls", "resend", "inRedirected", "outSend"}

\* The request has not been connected for yet; only redirections of responses
\* nobody asked for have.
Early   == {"FIRSTLINE", "HEADERS", "DECODE"}
Allowed == IF outStep \in Early THEN redirectedIn ELSE redirectedIn + 1

\* _ConnectWebsite may open one connection more than is allowed between calls,
\* on account of the redirection that is counted when it returns.
ConnectsInv ==
  /\ ret \in Returns /\ connects \in Nat /\ redirectedIn \in 0..MaxRedirect
  /\ connects <= 1 + MaxRedirect
  /\ pc \notin Opened \cup {"raise", "gone"} => connects <= Allowed
  /\ pc \in Opened => connects <= Allowed + 1
  /\ pc \in Opening \cup Opened /\ outStep # "DECODE" => redirectedIn < MaxRedirect
  /\ outStep = "DECODE" => pc \in {"procOut", "raise", "gone"} \cup Opening \cup Opened
  /\ pc = "outSend" => outStep = "DECODE"
  /\ pc = "inRedirected" => outStep # "DECODE"

LEMMA ConnectsInit == Init => ConnectsInv
<1> SUFFICES ASSUME Init PROVE ConnectsInv
  OBVIOUS
<1>1. /\ pc = "outerReceive" /\ ret = "outerSend" /\ outStep = "START"
      /\ connects = 0 /\ redirectedIn = 0
  BY DEF Init
<1> QED BY <1>1 DEF ConnectsInv, Opening, Opened, Early, Allowed, Returns, MaxRedirect

LEMMA ConnectsStep == ConnectsInv /\ [Next]_vars => ConnectsInv'
<1> USE DEF ConnectsInv, Opening, Opened, Early, Allowed, Returns, MaxRedirect, countVars,
            stepVars, dataVars
<1> SUFFICES ASSUME ConnectsInv, [Next]_vars PROVE ConnectsInv'
  OBVIOUS
<1>1. CASE UNCHANGED vars
  BY <1>1 DEF vars
<1>2. CASE Terminated
  BY <1>2 DEF Terminated, vars
<1>3. CASE Environment
  <2>1. UNCHANGED threadVars
    BY <1>3, EnvironmentLeavesThread
  <2> QED BY <2>1 DEF threadVars
<1>4. CASE ManageLoop
  <2>1. CASE Destroy
    BY <2>1 DEF Destroy
  <2>2. CASE TrailFeed
    BY <2>2 DEF TrailFeed
  <2>3. CASE \/ OuterReceive \/ OuterSend \/ InnerSendOut \/ InnerReceiveIn \/ InnerSendIn
             \/ InnerReceiveOut \/ InnerEnd \/ TrailReceive \/ TrailSend \/ Trail503 \/ OuterEnd
    BY <2>3 DEF OuterReceive, OuterSend, InnerSendOut, InnerReceiveIn, InnerSendIn,
        InnerReceiveOut, InnerEnd, TrailReceive, TrailSend, Trail503, OuterEnd
  <2> QED BY <1>4, <2>1, <2>2, <2>3 DEF ManageLoop
<1>5. CASE ProcessOut
  <2>1. CASE OutStart
    BY <2>1 DEF OutStart
  <2>2. CASE OutFinish
    BY <2>2 DEF OutFinish, EndExchange
  <2>3. CASE OutDecode
    BY <2>3 DEF OutDecode
  <2>4. CASE OutSend
    BY <2>4 DEF OutSend
  <2>5. CASE OutReturn
    BY <2>5 DEF OutReturn, OutBlocked
  <2>6. CASE \/ OutFirstLine \/ OutHeaders \/ OutDecodeBad \/ OutChunk \/ OutRaw
             \/ OutTunneling
    BY <2>6 DEF OutFirstLine, OutHeaders, OutDecodeBad, OutChunk, OutRaw, OutTunneling
  <2> QED BY <1>5, <2>1, <2>2, <2>3, <2>4, <2>5, <2>6 DEF ProcessOut
<1>6. CASE ConnectWebsite
  <2>1. CASE ConnectFlush \/ LocalTls \/ AwaitLine \/ Rdir \/ (LocalSecure /\ pc' = "raise")
    <3>1. pc \in Opening /\ pc' \in Opening \cup {"raise"}
      BY <2>1 DEF ConnectFlush, LocalTls, AwaitLine, Rdir, LocalSecure
    <3>2. UNCHANGED <<connects, redirectedIn, outStep, ret>>
      BY <2>1 DEF ConnectFlush, LocalTls, AwaitLine, Rdir, LocalSecure
    <3> QED BY <3>1, <3>2
  <2>2. CASE \/ LocalAnswer \/ ApiAnswer \/ AwaitLocal \/ Jump
             \/ (LocalSecure /\ pc' = ConnectReturn)
    <3>1. pc \in Opening /\ pc' = ConnectReturn
      BY <2>2 DEF LocalAnswer, ApiAnswer, AwaitLocal, LocalSecure, SecurePage, Jump
    <3>2. UNCHANGED <<connects, redirectedIn, outStep, ret>>
      BY <2>2 DEF LocalAnswer, ApiAnswer, AwaitLocal, LocalSecure, SecurePage, Jump
    <3> QED BY <3>1, <3>2 DEF ConnectReturn
  <2>3. CASE ConnectReuse
    BY <2>3 DEF ConnectReuse, ToWebsite
  <2>4. CASE ConnectFail
    BY <2>4 DEF ConnectFail, ToWebsite, ConnectReturn
  <2>5. CASE ConnectOpen
    BY <2>5 DEF ConnectOpen, ToWebsite
  <2>6. CASE Established \/ ViaProxy \/ AwaitProxy \/ Tls \/ Resend
    BY <2>6 DEF Established, ViaProxy, AwaitProxy, Tls, Resend, ConnectReturn
  <2>7. CASE InRedirected
    BY <2>7 DEF InRedirected
  <2>8. LocalSecure => pc' = "raise" \/ pc' = ConnectReturn
    BY DEF LocalSecure
  <2> QED BY <1>6, <2>1, <2>2, <2>3, <2>4, <2>5, <2>6, <2>7, <2>8 DEF ConnectWebsite
<1>7. CASE ProcessIn
  <2>1. CASE InStart \/ InFinish
    BY <2>1 DEF InStart, InFinish, EndExchange
  <2>2. CASE InDecode
    BY <2>2 DEF InDecode, Relay
  <2>3. CASE InReturn \/ InFirstLine \/ InGarbage \/ InHeaders \/ InDecodeBad \/ InChunk
             \/ InRaw \/ InTunneling
    BY <2>3 DEF InReturn, InFirstLine, InGarbage, InHeaders, InDecodeBad, InChunk, InRaw,
        InTunneling
  <2> QED BY <1>7, <2>1, <2>2, <2>3 DEF ProcessIn
<1> QED BY <1>1, <1>2, <1>3, <1>4, <1>5, <1>6, <1>7 DEF Next, Thread

\* Whatever the header filters ask for, also of responses nobody asked for: one
\* connection for the request and MaxRedirect for responses.
THEOREM RedirectBoundHolds == Spec => []RedirectBound
<1>1. ConnectsInv => RedirectBound
  BY DEF ConnectsInv, RedirectBound
<1> QED BY ConnectsInit, ConnectsStep, <1>1, PTL DEF Spec

-----------------------------------------------------------------------------
(* The end of an exchange.                                                 *)

\* Manage() itself: everywhere but inside _ProcessOut and _ProcessIn.
Resting == {"outerReceive", "outerSend", "innerSendOut", "innerReceiveIn", "innerSendIn",
            "innerReceiveOut", "innerEnd", "trailReceive", "trailFeed", "trailSend", "trail503",
            "outerEnd"}

\* ExchangeClosed says nothing of the steps after the inner loop, but the
\* thread passes through them on its way back to the outer one.
ClosedInv ==
  /\ ret \in Returns
  /\ pc \in Resting => ~(outStep = "FINISH" /\ inStep = "FINISH")

LEMMA ClosedInit == Init => ClosedInv
<1> SUFFICES ASSUME Init PROVE ClosedInv
  OBVIOUS
<1>1. ret = "outerSend" /\ outStep = "START"
  BY DEF Init
<1> QED BY <1>1 DEF ClosedInv, Returns

\* Either function leaves its loop only where the other one's end is not
\* waited for.
LEMMA ClosedStep == ClosedInv /\ [Next]_vars => ClosedInv'
<1> USE DEF ClosedInv, Returns, Resting, stepVars
<1> SUFFICES ASSUME ClosedInv, [Next]_vars PROVE ClosedInv'
  OBVIOUS
<1>1. CASE UNCHANGED vars
  BY <1>1 DEF vars
<1>2. CASE Terminated
  BY <1>2 DEF Terminated, vars
<1>3. CASE Environment
  <2>1. UNCHANGED threadVars
    BY <1>3, EnvironmentLeavesThread
  <2> QED BY <2>1 DEF threadVars
<1>4. CASE ManageLoop
  <2>1. CASE TrailReceive \/ TrailFeed \/ Destroy
    BY <2>1 DEF TrailReceive, TrailFeed, Destroy
  <2>2. CASE \/ OuterReceive \/ OuterSend \/ InnerSendOut \/ InnerReceiveIn \/ InnerSendIn
             \/ InnerReceiveOut \/ InnerEnd \/ TrailSend \/ Trail503 \/ OuterEnd
    <3>1. UNCHANGED stepVars /\ pc \in Resting /\ ret' \in Returns
      BY <2>2 DEF OuterReceive, OuterSend, InnerSendOut, InnerReceiveIn, InnerSendIn,
          InnerReceiveOut, InnerEnd, TrailSend, Trail503, OuterEnd
    <3> QED BY <3>1
  <2> QED BY <1>4, <2>1, <2>2 DEF ManageLoop
<1>5. CASE ProcessOut
  <2>1. CASE OutReturn
    BY <2>1 DEF OutReturn, OutBlocked
  <2>2. CASE OutSend \/ OutTunneling
    BY <2>2 DEF OutSend, OutTunneling
  <2>3. CASE OutDecodeBad \/ OutDecode
    BY <2>3 DEF OutDecodeBad, OutDecode
  <2>4. CASE OutStart \/ OutFirstLine \/ OutHeaders \/ OutChunk \/ OutRaw \/ OutFinish
    <3>1. pc' = "procOut" /\ ret' = ret
      BY <2>4 DEF OutStart, OutFirstLine, OutHeaders, OutChunk, OutRaw, OutFinish
    <3> QED BY <3>1
  <2> QED BY <1>5, <2>1, <2>2, <2>3, <2>4 DEF ProcessOut
<1>6. CASE ConnectWebsite
  <2> SUFFICES ret' = ret /\ pc' \notin Resting
    OBVIOUS
  <2> USE DEF ConnectReturn
  <2>1. CASE ConnectFlush \/ LocalAnswer \/ ApiAnswer \/ LocalTls
    BY <2>1 DEF ConnectFlush, LocalAnswer, ApiAnswer, LocalTls
  <2>2. CASE AwaitLine \/ AwaitLocal \/ LocalSecure \/ Jump \/ Rdir
    BY <2>2 DEF AwaitLine, AwaitLocal, LocalSecure, SecurePage, Jump, Rdir
  <2>3. CASE ConnectReuse \/ ConnectFail \/ ConnectOpen
    BY <2>3 DEF ConnectReuse, ConnectFail, ConnectOpen, ToWebsite
  <2>4. CASE Established \/ ViaProxy \/ AwaitProxy \/ Tls \/ Resend \/ InRedirected
    BY <2>4 DEF Established, ViaProxy, AwaitProxy, Tls, Resend, InRedirected
  <2> QED BY <1>6, <2>1, <2>2, <2>3, <2>4 DEF ConnectWebsite
<1>7. CASE ProcessIn
  <2>1. CASE InReturn
    BY <2>1 DEF InReturn, InBlocked
  <2>2. CASE InTunneling
    BY <2>2 DEF InTunneling
  <2>3. CASE InDecode
    BY <2>3 DEF InDecode, Relay
  <2>4. CASE InStart \/ InFirstLine \/ InGarbage \/ InHeaders \/ InDecodeBad \/ InChunk
             \/ InRaw \/ InFinish
    <3>1. pc' \in {"procIn", "raise"} /\ ret' = ret
      BY <2>4 DEF InStart, InFirstLine, InGarbage, InHeaders, InDecodeBad, InChunk, InRaw, InFinish
    <3> QED BY <3>1
  <2> QED BY <1>7, <2>1, <2>2, <2>3, <2>4 DEF ProcessIn
<1> QED BY <1>1, <1>2, <1>3, <1>4, <1>5, <1>6, <1>7 DEF Next, Thread

\* However the two machines alternate, neither leaves the end of the exchange to
\* the other.
THEOREM ExchangeClosedHolds == Spec => []ExchangeClosed
<1>1. ClosedInv => ExchangeClosed
  BY DEF ClosedInv, ExchangeClosed, Resting
<1> QED BY ClosedInit, ClosedStep, <1>1, PTL DEF Spec

-----------------------------------------------------------------------------
(* The invariant, in parts that change together.                           *)

Request    == [m : Methods \cup {"tun"}, h : HostNames, b : Bodies \cup {"none"}]
Token      == [k : Kinds, r : Nat, v : Values]
Piece(n)   == [k : Kinds, r : 1..n, v : Values]     \* of one of the first n requests
BrowserEnd(n) == [queue : Seq(Piece(n)), net : Seq(Piece(n)), open : BOOLEAN, got : Tokens]
WebsiteEnd == [host : Contacts, queue : Tokens, net : Tokens, open : BOOLEAN,
               ending : BOOLEAN, todo : SUBSET Nat, hinted : Nat, said : Nat,
               got : Tokens]
Out(n)     == [req : 0..n, method : Verbs, size : Nat, chunked : BOOLEAN]
Owner      == [url : HostNames, https : BOOLEAN, contact : Contacts,
               rdir : Filters, rdirHost : HostNames]
In         == [resp : Nat, code : Values, headers : Tokens, size : Nat,
               chunked : BOOLEAN, chain : BOOLEAN, dumped : BOOLEAN]

FlagInv ==
  /\ brConn \in BOOLEAN /\ brSecure \in BOOLEAN /\ webConn \in BOOLEAN
  /\ prevConnect \in BOOLEAN /\ bRest \in BOOLEAN /\ innerRest \in BOOLEAN /\ valid \in BOOLEAN
  /\ recvConnectionClose \in BOOLEAN /\ sendConnectionClose \in BOOLEAN

StepInv ==
  /\ outStep \in Steps /\ inStep \in Steps /\ pc \in Pcs
  /\ idle \in {"off", "on", "expired"}

PeerInv ==
  /\ setting \in DOMAIN Settings
  /\ strays \in Nat /\ stalled \subseteq Sides /\ stop \subseteq Sides

\* Whatever is on its way from the browser is of a request it has begun.
RequestInv ==
  /\ reqs \in Seq(Request)
  /\ browser \in BrowserEnd(Len(reqs))
  /\ recvOutBuf \in Seq(Piece(Len(reqs)))
  /\ out \in Out(Len(reqs))

\* Nothing happens before the first request.
QuietInv ==
  reqs = <<>> =>
    /\ pc \in {"outerReceive", "outerSend", "outerEnd", "gone"}
    /\ browser.queue = <<>> /\ browser.net = <<>> /\ browser.got = <<>>
    /\ recvOutBuf = <<>> /\ sendInBuf = <<>> /\ webConn = FALSE

\* Until it has read a first line the manager has no connection to lose and no
\* response to redirect.
FirstInv ==
  out.req = 0 =>
    /\ pc \in {"outerReceive", "outerSend", "outerEnd", "procOut", "gone"} /\ ret = "outerSend"
    /\ outStep \in {"START", "FIRSTLINE"} /\ webConn = FALSE

OwnerInv == owner \in Owner /\ prevHost \in Contacts

WebsiteInv  == website \in WebsiteEnd /\ sendOutBuf \in Tokens
ResponseInv == recvInBuf \in Tokens /\ sendInBuf \in Tokens /\ in \in In

DataInv ==
  /\ CountInv /\ ConnectsInv /\ FlagInv /\ StepInv /\ PeerInv
  /\ RequestInv /\ QuietInv /\ FirstInv /\ OwnerInv /\ WebsiteInv /\ ResponseInv

LEMMA SettingOK ==
  ASSUME setting \in DOMAIN Settings
  PROVE  /\ "proxy" \notin HostNames /\ Local \in HostNames /\ Hosts \subseteq HostNames
         /\ Methods \subseteq Verbs /\ Interims \subseteq Codes
         /\ OutFilters \subseteq Filters /\ InFilters \subseteq Filters
         /\ \A a \in Responses : a.code \in Codes /\ a.frame \in Frames /\ a.close \in BOOLEAN
         /\ BodyKill \in BOOLEAN /\ Chains \subseteq BOOLEAN /\ SSLFilter \in BOOLEAN
<1>1. Settings[setting] \in Setting /\ "proxy" \notin Settings[setting].hosts /\ Local # "proxy"
  BY ConstantsOK
<1>2. "proxy" \notin HostNames /\ Local \in HostNames /\ Hosts \subseteq HostNames
  BY <1>1 DEF Hosts, HostNames
<1>3. Methods \subseteq Verbs /\ Interims \subseteq Codes
  BY <1>1 DEF Setting, Methods, Interims, Verbs, Codes
<1>4. OutFilters \subseteq Filters /\ InFilters \subseteq Filters
  BY <1>1 DEF Setting, OutFilters, InFilters
<1>5. \A a \in Responses : a.code \in Codes /\ a.frame \in Frames /\ a.close \in BOOLEAN
  BY <1>1 DEF Setting, Responses, Codes
<1>6. BodyKill \in BOOLEAN /\ Chains \subseteq BOOLEAN /\ SSLFilter \in BOOLEAN
  BY <1>1 DEF Setting, BodyKill, Chains, SSLFilter
<1> QED BY <1>2, <1>3, <1>4, <1>5, <1>6

\* A connection stays in its setting, so the sets that depend on it stay.
LEMMA SettingStays ==
  [Next]_vars =>
    /\ setting' = setting
    /\ HostNames' = HostNames /\ Contacts' = Contacts /\ Request' = Request
    /\ WebsiteEnd' = WebsiteEnd /\ Owner' = Owner
<1> SUFFICES ASSUME [Next]_vars PROVE setting' = setting
  BY DEF HostNames, Hosts, Contacts, Request, Methods, Bodies, WebsiteEnd, Owner
<1> USE DEF envVars
<1>1. CASE UNCHANGED vars \/ Terminated
  BY <1>1 DEF vars, Terminated
<1>2. CASE Environment
  BY <1>2 DEF Environment, BrowserRequest, BrowserTunnel, BrowserSend, BrowserClose,
      WebsiteAnswer, WebsiteTunnel, WebsiteInterim, WebsiteStray, WebsiteSend, WebsiteClose, Stall,
      IdleExpire, SwitchToInvalid
<1>3. CASE ManageLoop
  BY <1>3 DEF ManageLoop, OuterReceive, OuterSend, InnerSendOut, InnerReceiveIn, InnerSendIn,
      InnerReceiveOut, InnerEnd, TrailReceive, TrailFeed, TrailSend, Trail503, OuterEnd, Destroy
<1>4. CASE ProcessOut
  BY <1>4 DEF ProcessOut, OutReturn, OutStart, OutFirstLine, OutHeaders, OutDecodeBad, OutDecode, OutSend,
      OutChunk, OutRaw, OutTunneling, OutFinish
<1>5. CASE ConnectWebsite
  BY <1>5 DEF ConnectWebsite, ConnectFlush, LocalAnswer, ApiAnswer, LocalTls, AwaitLine,
      AwaitLocal, LocalSecure, SecurePage, Jump, Rdir, ConnectReuse, ConnectFail, ConnectOpen, Established, ViaProxy,
      AwaitProxy, Tls, Resend, InRedirected
<1>6. CASE ProcessIn
  BY <1>6 DEF ProcessIn, InReturn, InStart, InFirstLine, InGarbage, InHeaders, InDecodeBad,
      InDecode, InChunk, InRaw, InTunneling, InFinish
<1> QED BY <1>1, <1>2, <1>3, <1>4, <1>5, <1>6 DEF Next, Thread

-----------------------------------------------------------------------------
(* Flags, steps and clocks.                                                *)

LEMMA StepStep == StepInv /\ ret \in Returns /\ [Next]_vars => StepInv'
<1> SUFFICES ASSUME StepInv, ret \in Returns, [Next]_vars PROVE StepInv'
  OBVIOUS
<1> USE DEF StepInv, stepVars
<1>1. CASE UNCHANGED vars \/ Terminated
  BY <1>1 DEF vars, Terminated
<1>2. CASE Environment
  <2>1. UNCHANGED threadVars
    BY <1>2, EnvironmentLeavesThread
  <2>2. idle' \in {"off", "on", "expired"}
    BY <1>2 DEF Environment, BrowserRequest, BrowserTunnel, BrowserSend, BrowserClose,
        WebsiteAnswer, WebsiteTunnel, WebsiteInterim, WebsiteStray, WebsiteSend, WebsiteClose, Stall,
        IdleExpire, SwitchToInvalid
  <2> QED BY <2>1, <2>2 DEF threadVars
<1>3. CASE ManageLoop
  <2>1. CASE InnerEnd \/ OuterEnd
    <3>1. idle' \in {"off", "on", "expired"}
      BY <2>1 DEF InnerEnd, OuterEnd, JudgeIf, Judge
    <3>2. pc' \in Pcs /\ UNCHANGED stepVars
      BY <2>1 DEF InnerEnd, OuterEnd, Pcs
    <3> QED BY <3>1, <3>2
  <2>2. CASE TrailFeed
    BY <2>2 DEF TrailFeed, Steps, Pcs
  <2>3. CASE \/ OuterReceive \/ OuterSend \/ InnerSendOut \/ InnerReceiveIn \/ InnerSendIn
             \/ InnerReceiveOut \/ TrailReceive \/ TrailSend \/ Trail503 \/ Destroy
    BY <2>3 DEF OuterReceive, OuterSend, InnerSendOut, InnerReceiveIn, InnerSendIn,
        InnerReceiveOut, TrailReceive, TrailSend, Trail503, Destroy, Pcs
  <2> QED BY <1>3, <2>1, <2>2, <2>3 DEF ManageLoop
<1>4. CASE ProcessOut
  <2> USE DEF Steps, Pcs, Returns
  <2>1. CASE OutReturn \/ OutStart \/ OutFirstLine \/ OutHeaders
    BY <2>1 DEF OutReturn, OutStart, OutFirstLine, OutHeaders
  <2>2. CASE OutDecodeBad \/ OutDecode
    BY <2>2 DEF OutDecodeBad, OutDecode
  <2>3. CASE OutSend \/ OutChunk \/ OutRaw \/ OutTunneling
    BY <2>3 DEF OutSend, OutChunk, OutRaw, OutTunneling
  <2>4. CASE OutFinish
    BY <2>4 DEF OutFinish, EndExchange
  <2> QED BY <1>4, <2>1, <2>2, <2>3, <2>4 DEF ProcessOut
<1>5. CASE ConnectWebsite
  <2> USE DEF Steps, Pcs, ConnectReturn
  <2>1. CASE ConnectFlush \/ LocalAnswer \/ ApiAnswer \/ LocalTls
    BY <2>1 DEF ConnectFlush, LocalAnswer, ApiAnswer, LocalTls
  <2>2. CASE AwaitLine \/ AwaitLocal \/ LocalSecure \/ Jump \/ Rdir
    BY <2>2 DEF AwaitLine, AwaitLocal, LocalSecure, SecurePage, Jump, Rdir, Fake
  <2>3. CASE ConnectReuse \/ ConnectFail
    BY <2>3 DEF ConnectReuse, ConnectFail, Fake
  <2>4. CASE ConnectOpen
    BY <2>4 DEF ConnectOpen
  <2>5. CASE Established \/ ViaProxy \/ AwaitProxy
    BY <2>5 DEF Established, ViaProxy, AwaitProxy
  <2>6. CASE Tls \/ Resend \/ InRedirected
    BY <2>6 DEF Tls, Resend, InRedirected
  <2> QED BY <1>5, <2>1, <2>2, <2>3, <2>4, <2>5, <2>6 DEF ConnectWebsite
<1>6. CASE ProcessIn
  <2> USE DEF Steps, Pcs, Returns
  <2>1. CASE InReturn \/ InStart \/ InFirstLine \/ InGarbage \/ InHeaders \/ InDecodeBad
    BY <2>1 DEF InReturn, InStart, InFirstLine, InGarbage, InHeaders, InDecodeBad
  <2>2. CASE InDecode
    <3>1. idle' = idle
      BY <2>2 DEF InDecode
    <3>2. outStep' \in Steps /\ inStep' \in Steps /\ pc' \in Pcs
      BY <2>2 DEF InDecode, Relay
    <3> QED BY <3>1, <3>2
  <2>3. CASE InChunk \/ InRaw \/ InTunneling \/ InFinish
    BY <2>3 DEF InChunk, InRaw, InTunneling, InFinish, EndExchange
  <2> QED BY <1>6, <2>1, <2>2, <2>3 DEF ProcessIn
<1> QED BY <1>1, <1>2, <1>3, <1>4, <1>5, <1>6 DEF Next, Thread

LEMMA PeerStep == PeerInv /\ [Next]_vars => PeerInv'
<1> SUFFICES ASSUME PeerInv, [Next]_vars PROVE PeerInv'
  OBVIOUS
<1>s. setting' = setting
  BY SettingStays
<1> SUFFICES /\ strays' \in {strays, strays + 1}
             /\ stalled' \subseteq Sides /\ stop' \subseteq Sides
  BY <1>s DEF PeerInv
<1> USE DEF PeerInv, envVars, socketVars
<1>1. CASE UNCHANGED vars \/ Terminated
  BY <1>1 DEF vars, Terminated
<1>2. CASE Environment
  <2>1. CASE Stall
    <3>1. MayStall \subseteq Sides
      <4>1. Settings[setting] \in Setting
        BY ConstantsOK
      <4> QED BY <4>1 DEF Setting, MayStall
    <3> QED BY <2>1, <3>1 DEF Stall
  <2>2. CASE \/ BrowserRequest \/ BrowserTunnel \/ BrowserSend \/ BrowserClose
             \/ WebsiteAnswer \/ WebsiteTunnel \/ WebsiteInterim \/ WebsiteStray \/ WebsiteSend \/ WebsiteClose
             \/ IdleExpire \/ SwitchToInvalid
    BY <2>2 DEF BrowserRequest, BrowserTunnel, BrowserSend, BrowserClose,
        WebsiteAnswer, WebsiteTunnel, WebsiteInterim, WebsiteStray, WebsiteSend, WebsiteClose,
        IdleExpire, SwitchToInvalid
  <2> QED BY <1>2, <2>1, <2>2 DEF Environment
<1>3. CASE ManageLoop
  BY <1>3 DEF ManageLoop, OuterReceive, OuterSend, InnerSendOut, InnerReceiveIn, InnerSendIn,
      InnerReceiveOut, InnerEnd, TrailReceive, TrailFeed, TrailSend, Trail503, OuterEnd, Destroy
<1>4. CASE ProcessOut
  BY <1>4 DEF ProcessOut, OutReturn, OutStart, OutFirstLine, OutHeaders, OutDecodeBad, OutDecode, OutSend,
      OutChunk, OutRaw, OutTunneling, OutFinish
<1>5. CASE ConnectWebsite
  BY <1>5 DEF ConnectWebsite, ConnectFlush, LocalAnswer, ApiAnswer, LocalTls, AwaitLine,
      AwaitLocal, LocalSecure, SecurePage, Jump, Rdir, ConnectReuse, ConnectFail, ConnectOpen, Established, ViaProxy,
      AwaitProxy, Tls, Resend, InRedirected
<1>6. CASE ProcessIn
  BY <1>6 DEF ProcessIn, InReturn, InStart, InFirstLine, InGarbage, InHeaders, InDecodeBad,
      InDecode, InChunk, InRaw, InTunneling, InFinish
<1> QED BY <1>1, <1>2, <1>3, <1>4, <1>5, <1>6 DEF Next, Thread

\* A flag is set, cleared, kept, or becomes the value of a condition.
LEMMA BrConnStep == brConn \in BOOLEAN /\ [Next]_vars => brConn' \in BOOLEAN
<1> SUFFICES ASSUME brConn \in BOOLEAN, [Next]_vars PROVE brConn' \in BOOLEAN
  OBVIOUS
<1> USE DEF socketVars
<1>s. ASSUME NEW buf, NEW keep \in BOOLEAN, SendIn(buf, keep) PROVE brConn' \in BOOLEAN
  BY <1>s DEF SendIn
<1>1. CASE UNCHANGED vars \/ Terminated
  BY <1>1 DEF vars, Terminated
<1>2. CASE Environment
  BY <1>2, EnvironmentLeavesThread DEF threadVars
<1>3. CASE ManageLoop
  <2>1. CASE OuterSend \/ InnerSendIn \/ TrailSend \/ Trail503
    BY <2>1, <1>s DEF OuterSend, InnerSendIn, TrailSend, Trail503
  <2>2. CASE OuterReceive \/ InnerReceiveOut
    BY <2>2 DEF OuterReceive, InnerReceiveOut, ReceiveOut
  <2>3. CASE InnerEnd \/ OuterEnd
    BY <2>3 DEF InnerEnd, OuterEnd, JudgeIf, Judge
  <2>4. CASE InnerSendOut \/ InnerReceiveIn \/ TrailReceive \/ TrailFeed \/ Destroy
    BY <2>4 DEF InnerSendOut, InnerReceiveIn, TrailReceive, TrailFeed, Destroy
  <2> QED BY <1>3, <2>1, <2>2, <2>3, <2>4 DEF ManageLoop
<1>4. CASE ProcessOut
  <2>1. CASE OutFinish
    BY <2>1, <1>s DEF OutFinish, EndExchange
  <2>2. CASE \/ OutReturn \/ OutStart \/ OutFirstLine \/ OutHeaders \/ OutDecodeBad \/ OutDecode \/ OutSend
             \/ OutChunk \/ OutRaw \/ OutTunneling
    BY <2>2 DEF OutReturn, OutStart, OutFirstLine, OutHeaders, OutDecodeBad, OutDecode, OutSend,
        OutChunk, OutRaw, OutTunneling
  <2> QED BY <1>4, <2>1, <2>2 DEF ProcessOut
<1>5. CASE ConnectWebsite
  <2>1. CASE LocalAnswer \/ Established
    BY <2>1, <1>s DEF LocalAnswer, Established
  <2>2. CASE AwaitLocal \/ LocalSecure
    BY <2>2, <1>s DEF AwaitLocal, LocalSecure, SecurePage, ApiWrite
  <2>3. CASE ApiAnswer \/ LocalTls \/ AwaitLine \/ Tls
    BY <2>3 DEF ApiAnswer, ApiWrite, LocalTls, AwaitLine, ReceiveOut, Tls
  <2>4. CASE \/ ConnectFlush \/ Jump \/ Rdir \/ ConnectReuse \/ ConnectFail \/ ConnectOpen
             \/ ViaProxy \/ AwaitProxy \/ Resend \/ InRedirected
    BY <2>4 DEF ConnectFlush, Jump, Rdir, ConnectReuse, ConnectFail, ConnectOpen, ViaProxy,
        AwaitProxy, Resend, InRedirected
  <2> QED BY <1>5, <2>1, <2>2, <2>3, <2>4 DEF ConnectWebsite
<1>6. CASE ProcessIn
  <2>1. CASE InFinish
    BY <2>1, <1>s DEF InFinish, EndExchange
  <2>2. CASE \/ InReturn \/ InStart \/ InFirstLine \/ InGarbage \/ InHeaders \/ InDecodeBad
             \/ InDecode \/ InChunk \/ InRaw \/ InTunneling
    BY <2>2 DEF InReturn, InStart, InFirstLine, InGarbage, InHeaders, InDecodeBad, InDecode,
        InChunk, InRaw, InTunneling
  <2> QED BY <1>6, <2>1, <2>2 DEF ProcessIn
<1> QED BY <1>1, <1>2, <1>3, <1>4, <1>5, <1>6 DEF Next, Thread

LEMMA WebConnStep == webConn \in BOOLEAN /\ [Next]_vars => webConn' \in BOOLEAN
<1> SUFFICES ASSUME webConn \in BOOLEAN, [Next]_vars PROVE webConn' \in BOOLEAN
  OBVIOUS
<1> USE DEF socketVars, KeepWebsite
<1>1. CASE UNCHANGED vars \/ Terminated
  BY <1>1 DEF vars, Terminated
<1>2. CASE Environment
  BY <1>2, EnvironmentLeavesThread DEF threadVars
<1>3. CASE ManageLoop
  <2>1. CASE InnerSendOut
    BY <2>1 DEF InnerSendOut, SendOut
  <2>2. CASE InnerReceiveIn \/ TrailReceive
    BY <2>2 DEF InnerReceiveIn, TrailReceive, ReceiveIn
  <2>3. CASE InnerEnd \/ OuterEnd
    BY <2>3 DEF InnerEnd, OuterEnd, JudgeIf, Judge
  <2>4. CASE \/ OuterReceive \/ OuterSend \/ InnerSendIn \/ InnerReceiveOut \/ TrailFeed
             \/ TrailSend \/ Trail503 \/ Destroy
    BY <2>4 DEF OuterReceive, OuterSend, InnerSendIn, InnerReceiveOut, TrailFeed,
        TrailSend, Trail503, Destroy
  <2> QED BY <1>3, <2>1, <2>2, <2>3, <2>4 DEF ManageLoop
<1>4. CASE ProcessOut
  BY <1>4 DEF ProcessOut, OutReturn, OutStart, OutFirstLine, OutHeaders, OutDecodeBad, OutDecode, OutSend,
      OutChunk, OutRaw, OutTunneling, OutFinish, EndExchange
<1>5. CASE ConnectWebsite
  <2>1. CASE ConnectFlush \/ ConnectFail \/ ConnectOpen
    BY <2>1 DEF ConnectFlush, ConnectFail, ConnectOpen
  <2>2. CASE ViaProxy \/ Resend
    BY <2>2 DEF ViaProxy, Resend, SendOut
  <2>3. CASE AwaitProxy \/ Tls
    BY <2>3 DEF AwaitProxy, Tls
  <2>4. CASE \/ LocalAnswer \/ ApiAnswer \/ LocalTls \/ AwaitLine \/ AwaitLocal \/ LocalSecure \/ Jump \/ Rdir
             \/ ConnectReuse \/ Established \/ InRedirected
    BY <2>4 DEF LocalAnswer, ApiAnswer, LocalTls, AwaitLine, AwaitLocal, LocalSecure, SecurePage, Jump, Rdir,
        ConnectReuse, Established, InRedirected
  <2> QED BY <1>5, <2>1, <2>2, <2>3, <2>4 DEF ConnectWebsite
<1>6. CASE ProcessIn
  <2>1. CASE InRaw \/ InFinish
    BY <2>1 DEF InRaw, InFinish, EndExchange
  <2>2. CASE \/ InReturn \/ InStart \/ InFirstLine \/ InGarbage \/ InHeaders \/ InDecodeBad
             \/ InDecode \/ InChunk \/ InTunneling
    BY <2>2 DEF InReturn, InStart, InFirstLine, InGarbage, InHeaders, InDecodeBad, InDecode,
        InChunk, InTunneling
  <2> QED BY <1>6, <2>1, <2>2 DEF ProcessIn
<1> QED BY <1>1, <1>2, <1>3, <1>4, <1>5, <1>6 DEF Next, Thread

LEMMA FlagStep == FlagInv /\ [Next]_vars => FlagInv'
<1> SUFFICES ASSUME FlagInv, [Next]_vars PROVE FlagInv'
  OBVIOUS
<1>b. brConn' \in BOOLEAN /\ webConn' \in BOOLEAN
  BY BrConnStep, WebConnStep DEF FlagInv
<1> SUFFICES
      /\ brSecure' \in BOOLEAN /\ prevConnect' \in BOOLEAN /\ valid' \in BOOLEAN
      /\ bRest' \in BOOLEAN /\ innerRest' \in BOOLEAN
      /\ recvConnectionClose' \in BOOLEAN /\ sendConnectionClose' \in BOOLEAN
  BY <1>b DEF FlagInv
<1> USE DEF FlagInv, socketVars, restVars, dataVars
<1>1. CASE UNCHANGED vars \/ Terminated
  BY <1>1 DEF vars, Terminated
<1>2. CASE Environment
  <2>1. valid' \in BOOLEAN
    BY <1>2 DEF Environment, BrowserRequest, BrowserTunnel, BrowserSend, BrowserClose,
        WebsiteAnswer, WebsiteTunnel, WebsiteInterim, WebsiteStray, WebsiteSend, WebsiteClose, Stall,
        IdleExpire, SwitchToInvalid
  <2> QED BY <2>1, <1>2, EnvironmentLeavesThread DEF threadVars
<1>3. CASE ManageLoop
  <2>1. CASE OuterReceive \/ OuterSend \/ InnerSendOut \/ InnerReceiveIn \/ InnerSendIn \/ InnerReceiveOut
    <3>1. bRest' \in BOOLEAN
      BY <2>1 DEF OuterReceive, OuterSend, InnerSendOut, InnerReceiveIn, InnerSendIn, InnerReceiveOut
    <3>2. innerRest' \in BOOLEAN
      BY <2>1 DEF OuterReceive, OuterSend, InnerSendOut, InnerReceiveIn, InnerSendIn, InnerReceiveOut
    <3>3. CASE OuterReceive \/ OuterSend \/ InnerSendOut
      BY <3>1, <3>2, <3>3 DEF OuterReceive, OuterSend, InnerSendOut
    <3>4. CASE InnerReceiveIn \/ InnerSendIn \/ InnerReceiveOut
      BY <3>1, <3>2, <3>4 DEF InnerReceiveIn, InnerSendIn, InnerReceiveOut
    <3> QED BY <2>1, <3>3, <3>4
  <2>2. CASE InnerEnd \/ TrailReceive \/ TrailFeed \/ TrailSend
    BY <2>2 DEF InnerEnd, TrailReceive, TrailFeed, TrailSend
  <2>3. CASE Trail503 \/ OuterEnd \/ Destroy
    BY <2>3 DEF Trail503, OuterEnd, Destroy
  <2> QED BY <1>3, <2>1, <2>2, <2>3 DEF ManageLoop
<1>4. CASE ProcessOut
  <2>1. CASE OutReturn \/ OutStart \/ OutFirstLine \/ OutHeaders
    BY <2>1 DEF OutReturn, OutStart, OutFirstLine, OutHeaders
  <2>2. CASE OutSend \/ OutTunneling \/ OutFinish
    BY <2>2 DEF OutSend, OutTunneling, OutFinish
  <2>3. CASE OutChunk
    BY <2>3 DEF OutChunk
  <2>4. CASE OutRaw
    BY <2>4 DEF OutRaw
  <2>5. CASE OutDecodeBad \/ OutDecode
    <3>1. UNCHANGED <<brSecure, prevConnect, valid, bRest, innerRest, recvConnectionClose,
                      sendConnectionClose>>
      BY <2>5 DEF OutDecodeBad, OutDecode
    <3> QED BY <3>1
  <2> QED BY <1>4, <2>1, <2>2, <2>3, <2>4, <2>5 DEF ProcessOut
<1>5. CASE ConnectWebsite
  <2>1. UNCHANGED <<valid, bRest, innerRest, recvConnectionClose>>
    BY <1>5 DEF ConnectWebsite, ConnectFlush, LocalAnswer, ApiAnswer, LocalTls, AwaitLine,
        AwaitLocal, LocalSecure, SecurePage, Jump, Rdir, ConnectReuse, ConnectFail, ConnectOpen, Established, ViaProxy,
        AwaitProxy, Tls, Resend, InRedirected
  <2>2. sendConnectionClose' \in BOOLEAN
    BY <1>5 DEF ConnectWebsite, ConnectFlush, LocalAnswer, ApiAnswer, LocalTls, AwaitLine,
        AwaitLocal, LocalSecure, SecurePage, Jump, Rdir, ConnectReuse, ConnectFail, ConnectOpen, Established, ViaProxy,
        AwaitProxy, Tls, Resend, InRedirected, Fake
  <2>3. brSecure' \in BOOLEAN /\ prevConnect' \in BOOLEAN
    BY <1>5 DEF ConnectWebsite, ConnectFlush, LocalAnswer, ApiAnswer, LocalTls, AwaitLine,
        AwaitLocal, LocalSecure, SecurePage, Jump, Rdir, ConnectReuse, ConnectFail, ConnectOpen, Established, ViaProxy,
        AwaitProxy, Tls, Resend, InRedirected
  <2> QED BY <2>1, <2>2, <2>3
<1>6. CASE ProcessIn
  <2>1. UNCHANGED <<brSecure, prevConnect, valid, bRest, innerRest>>
    BY <1>6 DEF ProcessIn, InReturn, InStart, InFirstLine, InGarbage, InHeaders, InDecodeBad,
        InDecode, InChunk, InRaw, InTunneling, InFinish
  <2>2. recvConnectionClose' \in BOOLEAN
    BY <1>6 DEF ProcessIn, InReturn, InStart, InFirstLine, InGarbage, InHeaders, InDecodeBad,
        InDecode, InChunk, InRaw, InTunneling, InFinish
  <2>3. sendConnectionClose' \in BOOLEAN
    BY <1>6 DEF ProcessIn, InReturn, InStart, InFirstLine, InGarbage, InHeaders, InDecodeBad,
        InDecode, InChunk, InRaw, InTunneling, InFinish, Relay
  <2> QED BY <2>1, <2>2, <2>3
<1> QED BY <1>1, <1>2, <1>3, <1>4, <1>5, <1>6 DEF Next, Thread

-----------------------------------------------------------------------------
(* The browser's side.                                                     *)

LEMMA CutType ==
  ASSUME NEW S, NEW s \in Seq(S), NEW k \in 0..Len(s)
  PROVE  SubSeq(s, 1, k) \in Seq(S) /\ SubSeq(s, k + 1, Len(s)) \in Seq(S)
<1>1. Len(s) \in Nat /\ \A i \in 1..Len(s) : s[i] \in S
  BY LenProperties, ElementOfSeq
<1>2. SubSeq(s, 1, k) \in Seq(S)
  BY <1>1, SubSeqProperties
<1>3. SubSeq(s, k + 1, Len(s)) \in Seq(S)
  BY <1>1, SubSeqProperties
<1> QED BY <1>2, <1>3

LEMMA PiecesAreTokens ==
  ASSUME NEW n \in Nat, NEW s \in Seq(Piece(n)) PROVE s \in Tokens
<1>1. Piece(n) \subseteq Token
  BY DEF Piece, Token
<1> QED BY <1>1, SeqMonotonic DEF Tokens, Token

LEMMA MorePieces ==
  ASSUME NEW n \in Nat, NEW s \in Seq(Piece(n)) PROVE s \in Seq(Piece(n + 1))
<1>1. Piece(n) \subseteq Piece(n + 1)
  BY DEF Piece
<1> QED BY <1>1, SeqMonotonic

LEMMA GotMore ==
  ASSUME NEW n \in Nat, NEW b \in BrowserEnd(n), NEW buf \in Tokens
  PROVE  [b EXCEPT !.got = @ \o buf] \in BrowserEnd(n)
<1>1. b.got \o buf \in Tokens
  <2>1. b.got \in Tokens
    BY DEF BrowserEnd
  <2> QED BY <2>1, ConcatProperties DEF Tokens
<1> QED BY <1>1 DEF BrowserEnd

LEMMA SendInKeeps ==
  ASSUME NEW n \in Nat, browser \in BrowserEnd(n), NEW buf \in Tokens, NEW keep, SendIn(buf, keep)
  PROVE  browser' \in BrowserEnd(n) /\ sendInBuf' \in Tokens
<1>1. <<>> \in Tokens
  BY DEF Tokens
<1>2. browser' = browser \/ browser' = [browser EXCEPT !.got = @ \o buf]
  BY DEF SendIn
<1>3. browser' \in BrowserEnd(n)
  BY <1>2, GotMore
<1>4. sendInBuf' = buf \/ sendInBuf' = <<>>
  BY DEF SendIn
<1> QED BY <1>1, <1>3, <1>4

LEMMA ReceiveOutKeeps ==
  ASSUME NEW n \in Nat, browser \in BrowserEnd(n), recvOutBuf \in Seq(Piece(n)), ReceiveOut
  PROVE  browser' \in BrowserEnd(n) /\ recvOutBuf' \in Seq(Piece(n))
<1>1. browser.net \in Seq(Piece(n)) /\ <<>> \in Seq(Piece(n))
  BY DEF BrowserEnd
<1>2. recvOutBuf \o browser.net \in Seq(Piece(n))
  BY <1>1, ConcatProperties
<1>3. recvOutBuf' \in Seq(Piece(n))
  BY <1>2 DEF ReceiveOut
<1>4. [browser EXCEPT !.net = <<>>] \in BrowserEnd(n)
  BY <1>1 DEF BrowserEnd
<1>5. browser' \in BrowserEnd(n)
  BY <1>4 DEF ReceiveOut
<1> QED BY <1>3, <1>5

LEMMA ApiWriteKeeps ==
  ASSUME NEW n \in Nat, browser \in BrowserEnd(n), NEW r \in Nat, ApiWrite(r)
  PROVE  browser' \in BrowserEnd(n)
<1>1. ASSUME NEW k \in 1..MaxCopies PROVE [i \in 1..k |-> Tok("fake", r, "200")] \in Tokens
  <2>1. Tok("fake", r, "200") \in [k : Kinds, r : Nat, v : Values]
    BY DEF Tok, Kinds, Values, Codes
  <2> QED BY <2>1, SeqDef DEF Tokens, MaxCopies
<1>2. \/ browser' = browser
      \/ \E k \in 1..MaxCopies :
           browser' = [browser EXCEPT !.got = @ \o [i \in 1..k |-> Tok("fake", r, "200")]]
  BY DEF ApiWrite
<1> QED BY <1>1, <1>2, GotMore

LEMMA OutChanged ==
  ASSUME NEW n \in Nat, NEW o \in Out(n), NEW c \in BOOLEAN, NEW z \in Nat
  PROVE  [o EXCEPT !.chunked = c, !.size = z] \in Out(n)
BY DEF Out

LEMMA OutRenamed ==
  ASSUME NEW n \in Nat, NEW o \in Out(n), NEW r \in 0..n, NEW m \in Verbs
  PROVE  [o EXCEPT !.req = r, !.method = m] \in Out(n)
BY DEF Out

LEMMA RequestPieces ==
  ASSUME NEW n \in Nat, NEW r \in 1..n, NEW body
  PROVE  RequestTokens(r, body) \in Seq(Piece(n))
<1> DEFINE t(k) == Tok(k, r, "-")
<1>1. \A k \in {"line", "hdr", "byte", "size", "last"} : t(k) \in Piece(n)
  BY DEF Tok, Piece, Kinds, Values
<1> HIDE DEF t
<1>2. /\ t("line") \in Piece(n) /\ t("hdr") \in Piece(n) /\ t("byte") \in Piece(n)
      /\ t("size") \in Piece(n) /\ t("last") \in Piece(n)
  BY <1>1
<1>3. /\ <<t("line"), t("hdr")>> \in Seq(Piece(n)) /\ <<t("byte"), t("byte")>> \in Seq(Piece(n))
      /\ <<t("size"), t("byte"), t("last")>> \in Seq(Piece(n)) /\ <<>> \in Seq(Piece(n))
  BY <1>2
<1>4. /\ <<t("line"), t("hdr")>> \o <<t("byte"), t("byte")>> \in Seq(Piece(n))
      /\ <<t("line"), t("hdr")>> \o <<t("size"), t("byte"), t("last")>> \in Seq(Piece(n))
      /\ <<t("line"), t("hdr")>> \o <<>> \in Seq(Piece(n))
  BY <1>3, ConcatProperties
<1>5. RequestTokens(r, body) = <<t("line"), t("hdr")>> \o
        CASE body = "len" -> <<t("byte"), t("byte")>>
          [] body = "chunk" -> <<t("size"), t("byte"), t("last")>>
          [] OTHER -> <<>>
  BY DEF RequestTokens, t
<1> QED BY <1>4, <1>5

LEMMA QuietStep == QuietInv /\ FlagInv /\ RequestInv /\ [Next]_vars => QuietInv'
<1> SUFFICES ASSUME QuietInv, FlagInv, RequestInv, [Next]_vars, reqs' = <<>> PROVE QuietInv'
  BY DEF QuietInv
<1>a. \A r : Append(reqs, r) # <<>>
  BY DEF RequestInv
<1>r. reqs = <<>>
  BY <1>a DEF Next, Thread, Environment, Terminated, ManageLoop, ProcessOut, ConnectWebsite,
      ProcessIn, vars, envVars, BrowserRequest, BrowserTunnel, BrowserSend, BrowserClose,
      WebsiteAnswer, WebsiteTunnel, WebsiteInterim, WebsiteStray, WebsiteSend, WebsiteClose, Stall,
      IdleExpire, SwitchToInvalid, OuterReceive, OuterSend, InnerSendOut, InnerReceiveIn,
      InnerSendIn, InnerReceiveOut, InnerEnd, TrailReceive, TrailFeed, TrailSend, Trail503,
      OuterEnd, Destroy, OutReturn, OutStart, OutFirstLine, OutHeaders, OutDecodeBad, OutDecode, OutSend,
      OutChunk, OutRaw, OutTunneling, OutFinish, ConnectFlush, LocalAnswer, ApiAnswer, LocalTls,
      AwaitLine, AwaitLocal, LocalSecure, SecurePage, Jump, Rdir, ConnectReuse, ConnectFail, ConnectOpen, Established,
      ViaProxy, AwaitProxy, Tls, Resend, InRedirected, InReturn, InStart, InFirstLine, InGarbage,
      InHeaders, InDecodeBad, InDecode, InChunk, InRaw, InTunneling, InFinish
<1>q. /\ pc \in {"outerReceive", "outerSend", "outerEnd", "gone"}
      /\ browser.queue = <<>> /\ browser.net = <<>> /\ browser.got = <<>>
      /\ recvOutBuf = <<>> /\ sendInBuf = <<>> /\ webConn = FALSE
  BY <1>r DEF QuietInv
<1> SUFFICES
      /\ pc' \in {"outerReceive", "outerSend", "outerEnd", "gone"}
      /\ browser'.queue = <<>> /\ browser'.net = <<>> /\ browser'.got = <<>>
      /\ recvOutBuf' = <<>> /\ sendInBuf' = <<>> /\ webConn' = FALSE
  BY DEF QuietInv
<1> USE DEF outBufs, inBufs, socketVars
<1>1. CASE UNCHANGED vars \/ Terminated
  BY <1>1, <1>q DEF vars, Terminated
<1>2. CASE Environment
  <2>1. UNCHANGED threadVars
    BY <1>2, EnvironmentLeavesThread
  <2>2. browser'.queue = <<>> /\ browser'.net = <<>> /\ browser'.got = <<>>
    <3>1. CASE BrowserRequest \/ BrowserTunnel
      <4>1. reqs' # <<>>
        BY <3>1, <1>a DEF BrowserRequest, BrowserTunnel
      <4> QED BY <4>1
    <3>2. CASE BrowserClose
      <4>1. browser \in BrowserEnd(Len(reqs)) /\ browser' = [browser EXCEPT !.open = FALSE, !.queue = <<>>]
        BY <3>2 DEF BrowserClose, RequestInv
      <4> QED BY <4>1, <1>q DEF BrowserEnd
    <3>3. CASE \/ BrowserSend \/ WebsiteAnswer \/ WebsiteTunnel \/ WebsiteInterim \/ WebsiteStray \/ WebsiteSend
               \/ WebsiteClose \/ Stall \/ IdleExpire \/ SwitchToInvalid
      BY <3>3, <1>q DEF BrowserSend, WebsiteAnswer, WebsiteTunnel, WebsiteInterim, WebsiteStray, WebsiteSend,
          WebsiteClose, Stall, IdleExpire, SwitchToInvalid
    <3> QED BY <1>2, <3>1, <3>2, <3>3 DEF Environment
  <2> QED BY <2>1, <2>2, <1>q DEF threadVars
<1>3. CASE OuterReceive
  <2>1. recvOutBuf' = <<>> /\ pc' = "outerSend"
    BY <1>3, <1>q DEF OuterReceive, ReceiveOut, ReceivedOut
  <2>2. browser' \in {browser, [browser EXCEPT !.net = <<>>]} /\ sendInBuf' = <<>> /\ webConn' = FALSE
    BY <1>3, <1>q DEF OuterReceive, ReceiveOut
  <2>3. browser \in BrowserEnd(Len(reqs))
    BY DEF RequestInv
  <2> QED BY <2>1, <2>2, <2>3, <1>q DEF BrowserEnd
<1>4. CASE OuterSend
  <2>1. browser' = browser /\ sendInBuf' = <<>>
    BY <1>4, <1>q DEF OuterSend, SendIn
  <2> QED BY <1>4, <1>q, <2>1 DEF OuterSend
<1>5. CASE OuterEnd
  BY <1>5, <1>q DEF OuterEnd, JudgeIf, Judge, KeepWebsite
<1>6. CASE Destroy
  BY <1>6, <1>q DEF Destroy, KeepWebsite
<1>7. ~(InnerSendOut \/ InnerReceiveIn \/ InnerSendIn \/ InnerReceiveOut \/ InnerEnd \/ TrailReceive
        \/ TrailFeed \/ TrailSend \/ Trail503)
  BY <1>q DEF InnerSendOut, InnerReceiveIn, InnerSendIn, InnerReceiveOut, InnerEnd, TrailReceive,
      TrailFeed, TrailSend, Trail503
<1>8. ~ProcessOut
  BY <1>q DEF ProcessOut, OutReturn, OutStart, OutFirstLine, OutHeaders, OutDecodeBad, OutDecode, OutSend,
      OutChunk, OutRaw, OutTunneling, OutFinish
<1>9. ~ConnectWebsite
  BY <1>q DEF ConnectWebsite, ConnectFlush, LocalAnswer, ApiAnswer, LocalTls, AwaitLine,
      AwaitLocal, LocalSecure, SecurePage, Jump, Rdir, ToWebsite, ConnectReuse, ConnectFail, ConnectOpen, Established,
      ViaProxy, AwaitProxy, Tls, Resend, InRedirected
<1>10. ~ProcessIn
  BY <1>q DEF ProcessIn, InReturn, InStart, InFirstLine, InGarbage, InHeaders, InDecodeBad,
      InDecode, InChunk, InRaw, InTunneling, InFinish
<1> QED BY <1>1, <1>2, <1>3, <1>4, <1>5, <1>6, <1>7, <1>8, <1>9, <1>10 DEF Next, Thread, ManageLoop

\* _ProcessOut consumes what the browser sent.
LEMMA RequestStep ==
  RequestInv /\ PeerInv /\ QuietInv /\ FirstInv /\ ResponseInv /\ [Next]_vars => RequestInv'
<1> SUFFICES ASSUME RequestInv, PeerInv, QuietInv, FirstInv, ResponseInv, [Next]_vars PROVE RequestInv'
  OBVIOUS
<1> DEFINE n == Len(reqs)
<1>n. n \in Nat
  BY LenProperties DEF RequestInv
<1>e. /\ browser \in BrowserEnd(n) /\ recvOutBuf \in Seq(Piece(n)) /\ out \in Out(n)
      /\ reqs \in Seq(Request) /\ Request' = Request
  BY SettingStays DEF RequestInv
<1>c. ASSUME UNCHANGED reqs, browser' \in BrowserEnd(n), recvOutBuf' \in Seq(Piece(n)), out' \in Out(n)
      PROVE  RequestInv'
  BY <1>c, <1>e DEF RequestInv
<1>s. sendInBuf \in Tokens
  BY DEF ResponseInv
<1>o. out.req \in Nat
  BY <1>e DEF Out
<1>f. \A v \in Values : \A r \in Nat : \A k \in Kinds : <<Tok(k, r, v)>> \in Tokens
  BY DEF Tok, Tokens
<1>g. \A v \in {"200", "503"} : <<Tok("fake", out.req, v)>> \in Tokens
  BY <1>f, <1>o DEF Kinds, Values, Codes
<1> HIDE DEF n
<1> USE DEF envVars, outBufs, inBufs, dataVars
<1>1. CASE UNCHANGED vars \/ Terminated
  <2>1. UNCHANGED <<reqs, browser, recvOutBuf, out>>
    BY <1>1 DEF vars, Terminated
  <2> QED BY <2>1, <1>c, <1>e
<1>2. CASE Environment
  <2>t. recvOutBuf' = recvOutBuf /\ out' = out
    BY <1>2, EnvironmentLeavesThread DEF threadVars
  <2>1. CASE BrowserRequest
    <3>1. PICK m \in Methods, h \in Hosts, b \in Bodies \cup {"none"} :
            /\ reqs' = Append(reqs, [m |-> m, h |-> h, b |-> b])
            /\ browser' = [browser EXCEPT !.queue = RequestTokens(n + 1, b)]
      BY <2>1 DEF BrowserRequest, n
    <3>2. [m |-> m, h |-> h, b |-> b] \in Request
      BY <3>1, SettingOK DEF Request, PeerInv
    <3>3. reqs' \in Seq(Request) /\ Len(reqs') = n + 1
      BY <3>1, <3>2, <1>e DEF n
    <3>4. RequestTokens(n + 1, b) \in Seq(Piece(n + 1))
      BY <1>n, RequestPieces
    <3>5. browser' \in BrowserEnd(n + 1)
      BY <3>1, <3>4, <1>n, <1>e, MorePieces DEF BrowserEnd
    <3>6. recvOutBuf' \in Seq(Piece(n + 1)) /\ out' \in Out(n + 1)
      BY <2>t, <1>n, <1>e, MorePieces DEF Out
    <3> QED BY <3>3, <3>5, <3>6, <1>e DEF RequestInv
  <2>2. CASE BrowserTunnel
    <3>1. reqs # <<>>
      BY <2>2 DEF BrowserTunnel, Upgraded, BrowserTunnels, QuietInv
    <3>2. reqs[n].h \in HostNames
      <4>1. n \in 1..Len(reqs)
        BY <3>1, <1>e, <1>n, EmptySeq DEF n
      <4>2. reqs[n] \in Request
        BY <4>1, <1>e, ElementOfSeq
      <4> QED BY <4>2 DEF Request
    <3>3. [m |-> "tun", h |-> reqs[n].h, b |-> "none"] \in Request
      BY <3>2 DEF Request
    <3>4. /\ reqs' = Append(reqs, [m |-> "tun", h |-> reqs[n].h, b |-> "none"])
          /\ browser' = [browser EXCEPT !.queue = Append(@, Tok("tun", n + 1, "-"))]
      BY <2>2 DEF BrowserTunnel, n
    <3>5. reqs' \in Seq(Request) /\ Len(reqs') = n + 1
      BY <3>3, <3>4, <1>e DEF n
    <3>6. Tok("tun", n + 1, "-") \in Piece(n + 1)
      BY <1>n DEF Tok, Piece, Kinds, Values
    <3>7. Append(browser.queue, Tok("tun", n + 1, "-")) \in Seq(Piece(n + 1))
      <4>1. browser.queue \in Seq(Piece(n + 1))
        BY <1>n, <1>e, MorePieces DEF BrowserEnd
      <4> QED BY <3>6, <4>1
    <3>8. browser' \in BrowserEnd(n + 1)
      BY <3>4, <3>7, <1>n, <1>e, MorePieces DEF BrowserEnd
    <3>9. recvOutBuf' \in Seq(Piece(n + 1)) /\ out' \in Out(n + 1)
      BY <2>t, <1>n, <1>e, MorePieces DEF Out
    <3> QED BY <3>5, <3>8, <3>9, <1>e DEF RequestInv
  <2>3. CASE BrowserSend
    <3>1. /\ browser.queue # <<>> /\ UNCHANGED reqs
          /\ browser' = [browser EXCEPT !.net = Append(@, Head(browser.queue)), !.queue = Tail(@)]
      BY <2>3 DEF BrowserSend
    <3>2. browser.queue \in Seq(Piece(n)) /\ browser.net \in Seq(Piece(n))
      BY <1>e DEF BrowserEnd
    <3>3. Head(browser.queue) \in Piece(n) /\ Tail(browser.queue) \in Seq(Piece(n))
      BY <3>1, <3>2, HeadTailProperties
    <3>4. Append(browser.net, Head(browser.queue)) \in Seq(Piece(n))
      BY <3>2, <3>3
    <3>5. browser' \in BrowserEnd(n)
      BY <3>1, <3>3, <3>4, <1>e DEF BrowserEnd
    <3> QED BY <3>1, <3>5, <2>t, <1>c, <1>e
  <2>4. CASE BrowserClose
    <3>1. browser' = [browser EXCEPT !.open = FALSE, !.queue = <<>>] /\ UNCHANGED reqs
      BY <2>4 DEF BrowserClose
    <3>2. <<>> \in Seq(Piece(n))
      OBVIOUS
    <3>3. browser' \in BrowserEnd(n)
      BY <3>1, <3>2, <1>e DEF BrowserEnd
    <3> QED BY <3>1, <3>3, <2>t, <1>c, <1>e
  <2>5. CASE \/ WebsiteAnswer \/ WebsiteTunnel \/ WebsiteInterim \/ WebsiteStray \/ WebsiteSend \/ WebsiteClose
             \/ Stall \/ IdleExpire \/ SwitchToInvalid
    <3>1. UNCHANGED <<reqs, browser>>
      BY <2>5 DEF WebsiteAnswer, WebsiteTunnel, WebsiteInterim, WebsiteStray, WebsiteSend, WebsiteClose, Stall,
          IdleExpire, SwitchToInvalid
    <3> QED BY <3>1, <2>t, <1>c, <1>e
  <2> QED BY <1>2, <2>1, <2>2, <2>3, <2>4, <2>5 DEF Environment
<1>3. CASE ManageLoop
  <2>1. CASE OuterReceive \/ InnerReceiveOut
    <3>1. ReceiveOut /\ UNCHANGED <<reqs, out>>
      BY <2>1 DEF OuterReceive, InnerReceiveOut
    <3> QED BY <3>1, <1>n, <1>e, <1>c, ReceiveOutKeeps
  <2>2. CASE OuterSend \/ InnerSendIn \/ TrailSend
    <3>1. SendIn(sendInBuf, TRUE) /\ UNCHANGED <<reqs, out, recvOutBuf>>
      BY <2>2 DEF OuterSend, InnerSendIn, TrailSend
    <3> QED BY <3>1, <1>n, <1>e, <1>c, <1>s, SendInKeeps
  <2>3. CASE Trail503
    <3>1. SendIn(<<Tok("fake", out.req, "503")>>, FALSE) /\ UNCHANGED <<reqs, out, recvOutBuf>>
      BY <2>3 DEF Trail503
    <3> QED BY <3>1, <1>n, <1>e, <1>c, <1>g, SendInKeeps
  <2>4. CASE \/ InnerSendOut \/ InnerReceiveIn \/ InnerEnd \/ TrailReceive \/ TrailFeed \/ OuterEnd
             \/ Destroy
    <3>1. UNCHANGED <<reqs, browser, out, recvOutBuf>>
      BY <2>4 DEF InnerSendOut, InnerReceiveIn, InnerEnd, TrailReceive, TrailFeed, OuterEnd, Destroy
    <3> QED BY <3>1, <1>c, <1>e
  <2> QED BY <1>3, <2>1, <2>2, <2>3, <2>4 DEF ManageLoop
<1>4. CASE ProcessOut
  <2>1. CASE OutReturn \/ OutStart \/ OutSend
    <3>1. UNCHANGED <<reqs, browser, out, recvOutBuf>>
      BY <2>1 DEF OutReturn, OutStart, OutSend
    <3> QED BY <3>1, <1>c, <1>e
  <2>2. CASE OutFirstLine
    <3> DEFINE r == Head(recvOutBuf).r
    <3>1. Head(recvOutBuf) \in Piece(n) /\ recvOutBuf' \in Seq(Piece(n))
      BY <2>2, <1>e, HeadTailProperties DEF OutFirstLine, NextIs
    <3>2. r \in 1..n
      BY <3>1 DEF Piece
    <3>3. reqs[r].m \in Verbs
      <4>1. reqs[r] \in Request
        BY <3>2, <1>e, ElementOfSeq DEF n
      <4> QED BY <4>1, SettingOK DEF Request, PeerInv, Verbs
    <3>4. out' = [req |-> r, method |-> reqs[r].m, size |-> 0, chunked |-> FALSE] /\ UNCHANGED <<reqs, browser>>
      BY <2>2 DEF OutFirstLine
    <3> HIDE DEF r
    <3>5. out' \in Out(n)
      BY <3>2, <3>3, <3>4, <1>n DEF Out
    <3> QED BY <3>1, <3>4, <3>5, <1>c, <1>e
  <2>3. CASE OutHeaders
    <3>1. recvOutBuf' \in Seq(Piece(n)) /\ UNCHANGED <<reqs, browser, out>>
      BY <2>3, <1>e, HeadTailProperties DEF OutHeaders, NextIs
    <3> QED BY <3>1, <1>c, <1>e
  <2>4. CASE OutDecode
    <3> DEFINE c == reqs[out.req].b = "chunk"
               z == IF reqs[out.req].b = "len" THEN 2 ELSE 0
    <3>1. out' = [out EXCEPT !.chunked = c, !.size = z]
      BY <2>4 DEF OutDecode
    <3>b. c \in BOOLEAN /\ z \in Nat
      OBVIOUS
    <3> HIDE DEF c, z
    <3>2. out' \in Out(n)
      BY <3>1, <3>b, <1>n, <1>e, OutChanged
    <3>3. UNCHANGED <<reqs, browser, recvOutBuf>>
      BY <2>4 DEF OutDecode
    <3> QED BY <3>2, <3>3, <1>c, <1>e
  <2>5. CASE OutChunk
    <3>1. recvOutBuf' \in Seq(Piece(n)) /\ UNCHANGED <<reqs, browser>>
      BY <2>5, <1>e, HeadTailProperties DEF OutChunk, NextIs
    <3>2. \E z \in {0, 1} : out' = [out EXCEPT !.size = z]
      BY <2>5 DEF OutChunk
    <3>3. out' \in Out(n)
      BY <3>2, <1>e DEF Out
    <3> QED BY <3>1, <3>3, <1>c, <1>e
  <2>6. CASE OutRaw
    <3> DEFINE z == CopySize(recvOutBuf, out.size)
    <3>1. Len(recvOutBuf) \in Nat /\ out.size \in Nat
      BY <1>e, LenProperties DEF Out
    <3>2. z \in 0..Len(recvOutBuf) /\ out.size - z \in Nat
      BY <3>1 DEF CopySize
    <3>3. /\ recvOutBuf' = SubSeq(recvOutBuf, z + 1, Len(recvOutBuf))
          /\ out' = [out EXCEPT !.size = out.size - z] /\ UNCHANGED <<reqs, browser>>
      BY <2>6 DEF OutRaw
    <3> HIDE DEF z
    <3>4. recvOutBuf' \in Seq(Piece(n))
      BY <3>2, <3>3, <1>e, CutType
    <3>5. out' \in Out(n)
      BY <3>2, <3>3, <1>e DEF Out
    <3> QED BY <3>3, <3>4, <3>5, <1>c, <1>e
  <2>7. CASE OutTunneling
    <3>1. recvOutBuf' \in {recvOutBuf, <<>>} /\ UNCHANGED <<reqs, browser, out>>
      BY <2>7 DEF OutTunneling
    <3>2. recvOutBuf' \in Seq(Piece(n))
      BY <3>1, <1>e, EmptySeq
    <3> QED BY <3>1, <3>2, <1>c, <1>e
  <2>8. CASE OutFinish
    <3>1. SendIn(sendInBuf, FALSE) \/ browser' = browser
      BY <2>8 DEF OutFinish, EndExchange
    <3>2. UNCHANGED <<reqs, out, recvOutBuf>>
      BY <2>8 DEF OutFinish
    <3> QED BY <3>1, <3>2, <1>n, <1>e, <1>c, <1>s, SendInKeeps
  <2>9. CASE OutDecodeBad
    <3>1. UNCHANGED <<reqs, browser, out, recvOutBuf>>
      BY <2>9 DEF OutDecodeBad
    <3> QED BY <3>1, <1>c, <1>e
  <2> QED BY <1>4, <2>1, <2>2, <2>3, <2>4, <2>5, <2>6, <2>7, <2>8, <2>9 DEF ProcessOut
<1>5. CASE ConnectWebsite
  <2>1. CASE LocalAnswer
    <3>1. SendIn(Page, TRUE) /\ UNCHANGED <<reqs, out, recvOutBuf>>
      BY <2>1 DEF LocalAnswer
    <3> QED BY <3>1, <1>n, <1>e, <1>c, <1>g, SendInKeeps DEF Page
  <2>2. CASE ApiAnswer
    <3>1. ApiWrite(out.req) /\ UNCHANGED <<reqs, out, recvOutBuf>>
      BY <2>2 DEF ApiAnswer
    <3> QED BY <3>1, <1>n, <1>o, <1>e, <1>c, ApiWriteKeeps
  <2>3. CASE LocalTls
    <3>1. \/ browser' = browser
          \/ browser' = [browser EXCEPT !.got = @ \o <<Tok("est", out.req, "200")>>]
      <4>1. browser.got \in Tokens
        BY <1>e DEF BrowserEnd
      <4>2. Append(browser.got, Tok("est", out.req, "200")) = browser.got \o <<Tok("est", out.req, "200")>>
        BY <4>1, <1>f DEF Tokens
      <4> QED BY <2>3, <4>2 DEF LocalTls
    <3>2. <<Tok("est", out.req, "200")>> \in Tokens
      BY <1>f, <1>o DEF Kinds, Values, Codes
    <3>3. browser' \in BrowserEnd(n)
      BY <3>1, <3>2, <1>n, <1>e, GotMore
    <3>4. UNCHANGED <<reqs, out, recvOutBuf>>
      BY <2>3 DEF LocalTls
    <3> QED BY <3>3, <3>4, <1>c, <1>e
  <2>4. CASE AwaitLine
    <3>1. ReceiveOut /\ UNCHANGED <<reqs, out>>
      BY <2>4 DEF AwaitLine
    <3> QED BY <3>1, <1>n, <1>e, <1>c, ReceiveOutKeeps
  <2>5. CASE AwaitLocal
    <3> DEFINE r == IF NextIs(recvOutBuf, {"line"}) THEN Head(recvOutBuf).r ELSE out.req
    <3>1. out.req \in 1..n
      BY <2>5, <1>n, <1>e DEF AwaitLocal, FirstInv, Out
    <3>2. r \in 1..n
      <4>1. CASE NextIs(recvOutBuf, {"line"})
        <5>1. Head(recvOutBuf) \in Piece(n)
          BY <4>1, <1>e, HeadTailProperties DEF NextIs
        <5> QED BY <4>1, <5>1 DEF Piece
      <4> QED BY <4>1, <3>1
    <3>3. reqs[r].m \in Verbs
      <4>1. reqs[r] \in Request
        BY <3>2, <1>e, ElementOfSeq DEF n
      <4> QED BY <4>1, SettingOK DEF Request, PeerInv, Verbs
    <3>4. /\ out' = [out EXCEPT !.req = r, !.method = reqs[r].m]
          /\ SendIn(<<Tok("fake", r, "200")>>, TRUE) \/ ApiWrite(r)
          /\ recvOutBuf' = <<>> /\ UNCHANGED reqs
      BY <2>5 DEF AwaitLocal, SecurePage
    <3> HIDE DEF r
    <3>5. <<Tok("fake", r, "200")>> \in Tokens /\ r \in Nat
      <4>1. r \in Nat
        BY <3>2, <1>n
      <4>2. "fake" \in Kinds /\ "200" \in Values
        BY DEF Kinds, Values, Codes
      <4> QED BY <4>1, <4>2, <1>f
    <3>6. browser' \in BrowserEnd(n)
      BY <3>4, <3>5, <1>n, <1>e, SendInKeeps, ApiWriteKeeps
    <3>7. recvOutBuf' \in Seq(Piece(n))
      BY <3>4, EmptySeq
    <3>8. out' \in Out(n)
      <4>1. r \in 0..n
        BY <3>2, <1>n
      <4> QED BY <4>1, <3>3, <3>4, <1>n, <1>e, OutRenamed
    <3> QED BY <3>4, <3>6, <3>7, <3>8, <1>c
  <2>6. CASE Established
    <3>1. SendIn(sendInBuf, TRUE) /\ UNCHANGED <<reqs, out, recvOutBuf>>
      BY <2>6 DEF Established
    <3> QED BY <3>1, <1>n, <1>e, <1>c, <1>s, SendInKeeps
  <2>7. CASE \/ ConnectFlush \/ Jump \/ Rdir \/ ConnectReuse \/ ConnectFail \/ ConnectOpen
             \/ ViaProxy \/ AwaitProxy \/ Tls \/ Resend \/ InRedirected
    <3>1. UNCHANGED <<reqs, browser, out, recvOutBuf>>
      BY <2>7 DEF ConnectFlush, Jump, Rdir, ConnectReuse, ConnectFail, ConnectOpen, ViaProxy,
          AwaitProxy, Tls, Resend, InRedirected
    <3> QED BY <3>1, <1>c, <1>e
  <2>8. CASE LocalSecure
    <3>1. /\ \/ SendIn(<<Tok("fake", out.req, "200")>>, TRUE) \/ ApiWrite(out.req)
             \/ browser' = browser
          /\ UNCHANGED <<reqs, out, recvOutBuf>>
      BY <2>8 DEF LocalSecure, SecurePage
    <3>2. out.req \in Nat
      BY <1>n, <1>o
    <3>3. <<Tok("fake", out.req, "200")>> \in Tokens
      <4>1. "fake" \in Kinds /\ "200" \in Values
        BY DEF Kinds, Values, Codes
      <4> QED BY <4>1, <3>2, <1>f
    <3>4. browser' \in BrowserEnd(n)
      BY <3>1, <3>2, <3>3, <1>n, <1>e, SendInKeeps, ApiWriteKeeps
    <3> QED BY <3>1, <3>4, <1>c, <1>e
  <2> QED BY <1>5, <2>1, <2>2, <2>3, <2>4, <2>5, <2>6, <2>7, <2>8 DEF ConnectWebsite
<1>6. CASE ProcessIn
  <2>1. CASE InFinish
    <3>1. SendIn(sendInBuf, FALSE) \/ browser' = browser
      BY <2>1 DEF InFinish, EndExchange
    <3>2. UNCHANGED <<reqs, out, recvOutBuf>>
      BY <2>1 DEF InFinish
    <3> QED BY <3>1, <3>2, <1>n, <1>e, <1>c, <1>s, SendInKeeps
  <2>2. CASE \/ InReturn \/ InStart \/ InFirstLine \/ InGarbage \/ InHeaders \/ InDecodeBad
             \/ InDecode \/ InChunk \/ InRaw \/ InTunneling
    <3>1. UNCHANGED <<reqs, browser, out, recvOutBuf>>
      BY <2>2 DEF InReturn, InStart, InFirstLine, InGarbage, InHeaders, InDecodeBad, InDecode,
          InChunk, InRaw, InTunneling
    <3> QED BY <3>1, <1>c, <1>e
  <2> QED BY <1>6, <2>1, <2>2 DEF ProcessIn
<1> QED BY <1>1, <1>2, <1>3, <1>4, <1>5, <1>6 DEF Next, Thread

LEMMA FirstStep == FirstInv /\ RequestInv /\ FlagInv /\ [Next]_vars => FirstInv'
<1> SUFFICES ASSUME FirstInv, RequestInv, FlagInv, [Next]_vars, out'.req = 0 PROVE FirstInv'
  BY DEF FirstInv
<1> USE DEF FirstInv, socketVars, stepVars, dataVars
<1>1. CASE UNCHANGED vars \/ Terminated
  BY <1>1 DEF vars, Terminated
<1>2. CASE Environment
  BY <1>2, EnvironmentLeavesThread DEF threadVars
<1>3. CASE out.req = 0 /\ Thread
  <2>1. CASE OuterReceive \/ OuterSend
    BY <1>3, <2>1 DEF OuterReceive, OuterSend
  <2>2. CASE OuterEnd \/ Destroy
    BY <1>3, <2>2 DEF OuterEnd, Destroy, JudgeIf, Judge, KeepWebsite
  <2>3. CASE OutReturn \/ OutStart
    BY <1>3, <2>3 DEF OutReturn, OutStart
  <2>4. CASE OutFirstLine
    <3>1. Head(recvOutBuf) \in Piece(Len(reqs))
      BY <2>4, HeadTailProperties DEF OutFirstLine, NextIs, RequestInv
    <3>2. Head(recvOutBuf).r # 0
      BY <3>1 DEF Piece
    <3> QED BY <2>4, <3>2 DEF OutFirstLine
  <2>5. ~(OutHeaders \/ OutDecodeBad \/ OutDecode \/ OutSend \/ OutChunk \/ OutRaw \/ OutTunneling \/ OutFinish)
    BY <1>3 DEF OutHeaders, OutDecodeBad, OutDecode, OutSend, OutChunk, OutRaw, OutTunneling, OutFinish
  <2>6. ~(InnerSendOut \/ InnerReceiveIn \/ InnerSendIn \/ InnerReceiveOut \/ InnerEnd \/ TrailReceive
          \/ TrailFeed \/ TrailSend \/ Trail503)
    BY <1>3 DEF InnerSendOut, InnerReceiveIn, InnerSendIn, InnerReceiveOut, InnerEnd, TrailReceive,
        TrailFeed, TrailSend, Trail503
  <2>7. ~ConnectWebsite
    BY <1>3 DEF ConnectWebsite, ConnectFlush, LocalAnswer, ApiAnswer, LocalTls, AwaitLine,
        AwaitLocal, LocalSecure, SecurePage, Jump, Rdir, ToWebsite, ConnectReuse, ConnectFail, ConnectOpen, Established,
        ViaProxy, AwaitProxy, Tls, Resend, InRedirected
  <2>8. ~ProcessIn
    BY <1>3 DEF ProcessIn, InReturn, InStart, InFirstLine, InGarbage, InHeaders, InDecodeBad,
        InDecode, InChunk, InRaw, InTunneling, InFinish
  <2> QED BY <1>3, <2>1, <2>2, <2>3, <2>4, <2>5, <2>6, <2>7, <2>8 DEF Thread, ManageLoop, ProcessOut
<1>4. CASE out.req # 0 /\ Thread
  <2> SUFFICES out'.req # 0
    OBVIOUS
  <2>t. out \in Out(Len(reqs))
    BY DEF RequestInv
  <2>p. ASSUME recvOutBuf # <<>> PROVE Head(recvOutBuf).r # 0
    <3>1. Head(recvOutBuf) \in Piece(Len(reqs))
      BY <2>p, HeadTailProperties DEF RequestInv
    <3> QED BY <3>1 DEF Piece
  <2>1. CASE OutFirstLine
    BY <2>1, <2>p DEF OutFirstLine, NextIs
  <2>2. CASE AwaitLocal
    <3> DEFINE r == IF NextIs(recvOutBuf, {"line"}) THEN Head(recvOutBuf).r ELSE out.req
    <3>1. r # 0
      BY <2>p, <1>4 DEF NextIs
    <3>2. out' = [out EXCEPT !.req = r, !.method = reqs[r].m]
      BY <2>2 DEF AwaitLocal, SecurePage
    <3> HIDE DEF r
    <3>3. out'.req = r
      BY <3>2, <2>t DEF Out
    <3> QED BY <3>1, <3>3
  <2>3. CASE OutDecode \/ OutChunk \/ OutRaw
    <3>1. out'.req = out.req
      BY <2>3, <2>t DEF OutDecode, OutChunk, OutRaw, Out
    <3> QED BY <3>1, <1>4
  <2>4. CASE \/ ManageLoop \/ OutReturn \/ OutStart \/ OutHeaders \/ OutDecodeBad \/ OutSend
             \/ OutTunneling \/ OutFinish \/ ProcessIn
    <3>1. out' = out
      BY <2>4 DEF ManageLoop, OuterReceive, OuterSend, InnerSendOut, InnerReceiveIn, InnerSendIn,
          InnerReceiveOut, InnerEnd, TrailReceive, TrailFeed, TrailSend, Trail503, OuterEnd,
          Destroy, OutReturn, OutStart, OutHeaders, OutDecodeBad, OutSend, OutTunneling, OutFinish, ProcessIn,
          InReturn, InStart, InFirstLine, InGarbage, InHeaders, InDecodeBad, InDecode, InChunk,
          InRaw, InTunneling, InFinish
    <3> QED BY <3>1, <1>4
  <2>5. CASE \/ ConnectFlush \/ LocalAnswer \/ ApiAnswer \/ LocalTls \/ AwaitLine \/ LocalSecure
             \/ Jump \/ Rdir \/ ConnectReuse \/ ConnectFail \/ ConnectOpen \/ Established \/ ViaProxy
             \/ AwaitProxy \/ Tls \/ Resend \/ InRedirected
    <3>1. out' = out
      BY <2>5 DEF ConnectFlush, LocalAnswer, ApiAnswer, LocalTls, AwaitLine, LocalSecure, Jump,
          Rdir, ConnectReuse, ConnectFail, ConnectOpen, Established, ViaProxy, AwaitProxy, Tls, Resend,
          InRedirected
    <3> QED BY <3>1, <1>4
  <2> QED BY <1>4, <2>1, <2>2, <2>3, <2>4, <2>5 DEF Thread, ProcessOut, ConnectWebsite
<1> QED BY <1>1, <1>2, <1>3, <1>4 DEF Next

LEMMA OwnerChanged ==
  ASSUME NEW o \in Owner, NEW f \in Filters
  PROVE  /\ [o EXCEPT !.rdir = f] \in Owner
         /\ \A h \in HostNames : [o EXCEPT !.rdir = f, !.rdirHost = h] \in Owner
         /\ \A c \in Contacts : [o EXCEPT !.contact = c] \in Owner
         /\ \A c \in Contacts : [o EXCEPT !.contact = c, !.rdir = f] \in Owner
BY DEF Owner

\* The URL in hand and the host to contact.
LEMMA OwnerStep ==
  OwnerInv /\ FirstInv /\ RequestInv /\ PeerInv /\ [Next]_vars => OwnerInv'
<1> SUFFICES ASSUME OwnerInv, FirstInv, RequestInv, PeerInv, [Next]_vars
             PROVE  owner' \in Owner /\ prevHost' \in Contacts
  BY SettingStays DEF OwnerInv
<1>o. owner \in Owner /\ prevHost \in Contacts
  BY DEF OwnerInv
<1>h. /\ Local \in HostNames /\ Hosts \subseteq HostNames
      /\ OutFilters \subseteq Filters /\ InFilters \subseteq Filters /\ SSLFilter \in BOOLEAN
  BY SettingOK DEF PeerInv
<1>k. /\ <<"-", FALSE>> \in Contacts /\ <<"proxy", FALSE>> \in Contacts
      /\ \A h \in HostNames, b \in BOOLEAN : <<h, b>> \in Contacts
  BY DEF Contacts
<1>n. "none" \in Filters
  BY DEF Filters
<1>t. Target \in Contacts
  BY <1>o, <1>k DEF Target, Owner
<1> USE DEF socketVars, dataVars
<1>1. CASE UNCHANGED vars \/ Terminated
  BY <1>1, <1>o DEF vars, Terminated
<1>2. CASE Environment
  BY <1>2, <1>o, EnvironmentLeavesThread DEF threadVars
<1>3. CASE ManageLoop
  BY <1>3, <1>o DEF ManageLoop, OuterReceive, OuterSend, InnerSendOut, InnerReceiveIn, InnerSendIn,
      InnerReceiveOut, InnerEnd, TrailReceive, TrailFeed, TrailSend, Trail503, OuterEnd, Destroy
<1>4. CASE ProcessOut
  <2>1. CASE OutStart
    <3>1. owner' = [owner EXCEPT !.contact = <<"-", FALSE>>, !.rdir = "none"] /\ prevHost' = prevHost
      BY <2>1 DEF OutStart
    <3>2. [owner EXCEPT !.contact = <<"-", FALSE>>, !.rdir = "none"] \in Owner
      BY <1>o, <1>k, <1>n, OwnerChanged
    <3> QED BY <3>1, <3>2, <1>o
  <2>2. CASE OutDecode
    <3>1. out.req \in 1..Len(reqs)
      <4>1. out.req # 0
        BY <2>2 DEF OutDecode, FirstInv
      <4> QED BY <4>1 DEF RequestInv, Out
    <3>2. reqs[out.req].h \in HostNames
      <4>1. reqs[out.req] \in Request
        BY <3>1, ElementOfSeq DEF RequestInv
      <4> QED BY <4>1 DEF Request
    <3> DEFINE host  == IF brSecure THEN owner.url ELSE reqs[out.req].h
               https == brSecure \/ out.method = "CONNECT"
    <3>3. host \in HostNames /\ https \in BOOLEAN
      BY <3>2, <1>o DEF Owner
    <3>4. PICK f \in Filters, h \in HostNames :
            LET url  == IF f = "rewrite" THEN h ELSE host
                rdir == IF f = "rewrite" \/ (out.method = "CONNECT" /\ f # "killed") THEN "none" ELSE f
            IN owner' = [url |-> url, https |-> https, contact |-> <<url, https>>,
                         rdir |-> rdir, rdirHost |-> h]
      <4> HIDE DEF host, https
      <4>1. PICK f \in (IF host = Local THEN {"none"} ELSE OutFilters) :
              \E h \in (IF f \in {"jump", "rdir", "rewrite"} THEN Hosts ELSE {owner.rdirHost}) :
                owner' = [url |-> IF f = "rewrite" THEN h ELSE host, https |-> https,
                          contact |-> <<IF f = "rewrite" THEN h ELSE host, https>>,
                          rdir |-> IF f = "rewrite" \/ (out.method = "CONNECT" /\ f # "killed")
                                   THEN "none" ELSE f,
                          rdirHost |-> h]
        BY <2>2, ZenonT(40) DEF OutDecode, host, https
      <4>2. f \in Filters
        BY <1>h, <1>n
      <4>3. owner.rdirHost \in HostNames
        BY <1>o DEF Owner
      <4> QED BY <4>1, <4>2, <4>3, <1>h
    <3> DEFINE url  == IF f = "rewrite" THEN h ELSE host
               rdir == IF f = "rewrite" \/ (out.method = "CONNECT" /\ f # "killed") THEN "none" ELSE f
    <3>5. url \in HostNames /\ rdir \in Filters
      BY <3>3, <1>n
    <3>6. owner' = [url |-> url, https |-> https, contact |-> <<url, https>>, rdir |-> rdir, rdirHost |-> h]
      BY <3>4
    <3> HIDE DEF url, rdir, https
    <3>7. <<url, https>> \in Contacts
      BY <3>3, <3>5, <1>k
    <3>8. owner' \in Owner
      BY <3>3, <3>5, <3>6, <3>7 DEF Owner
    <3> QED BY <3>8, <2>2, <1>o DEF OutDecode
  <2>3. CASE \/ OutReturn \/ OutFirstLine \/ OutHeaders \/ OutDecodeBad \/ OutSend \/ OutChunk
             \/ OutRaw \/ OutTunneling \/ OutFinish
    BY <2>3, <1>o DEF OutReturn, OutFirstLine, OutHeaders, OutDecodeBad, OutSend, OutChunk, OutRaw,
        OutTunneling, OutFinish
  <2> QED BY <1>4, <2>1, <2>2, <2>3 DEF ProcessOut
<1>5. CASE ConnectWebsite
  <2>1. CASE LocalAnswer \/ ApiAnswer \/ AwaitLocal \/ LocalSecure \/ Jump
    <3>1. owner' \in {owner, [owner EXCEPT !.rdir = "none"]} /\ prevHost' = prevHost
      BY <2>1 DEF LocalAnswer, ApiAnswer, AwaitLocal, LocalSecure, SecurePage, Jump
    <3>2. [owner EXCEPT !.rdir = "none"] \in Owner
      BY <1>o, <1>n, OwnerChanged
    <3> QED BY <3>1, <3>2, <1>o
  <2>2. CASE Rdir
    <3>1. PICK b \in BOOLEAN :
            owner' = [owner EXCEPT !.url = owner.rdirHost, !.https = b,
                                   !.contact = <<owner.rdirHost, b>>, !.rdir = "none"]
      BY <2>2, <1>h DEF Rdir
    <3>2. owner.rdirHost \in HostNames
      BY <1>o DEF Owner
    <3>3. <<owner.rdirHost, b>> \in Contacts
      BY <3>2, <1>k
    <3>4. owner' \in Owner
      BY <3>1, <3>2, <3>3, <1>o, <1>n DEF Owner
    <3> QED BY <3>4, <2>2, <1>o DEF Rdir
  <2>3. CASE ConnectReuse \/ ConnectFail \/ ConnectOpen
    <3>1. owner' = [owner EXCEPT !.contact = Target] /\ prevHost' \in {prevHost, Target}
      BY <2>3 DEF ConnectReuse, ConnectFail, ConnectOpen
    <3>2. [owner EXCEPT !.contact = Target] \in Owner
      BY <1>o, <1>n, <1>t, OwnerChanged
    <3> QED BY <3>1, <3>2, <1>o, <1>t
  <2>4. CASE \/ ConnectFlush \/ LocalTls \/ AwaitLine \/ Established \/ ViaProxy \/ AwaitProxy
             \/ Tls \/ Resend \/ InRedirected
    BY <2>4, <1>o DEF ConnectFlush, LocalTls, AwaitLine, Established, ViaProxy, AwaitProxy, Tls,
        Resend, InRedirected
  <2> QED BY <1>5, <2>1, <2>2, <2>3, <2>4 DEF ConnectWebsite
<1>6. CASE ProcessIn
  <2>1. CASE InDecode
    <3>1. PICK f \in InFilters :
            \E h \in (IF f \in {"jump", "rdir"} THEN Hosts ELSE {owner.rdirHost}) :
              owner' = [owner EXCEPT !.rdir = IF f = "none" THEN owner.rdir ELSE f, !.rdirHost = h]
      BY <2>1 DEF InDecode
    <3>2. owner.rdirHost \in HostNames /\ owner.rdir \in Filters
      BY <1>o DEF Owner
    <3>3. owner' \in Owner
      <4>1. PICK h \in HostNames : owner' = [owner EXCEPT !.rdir = IF f = "none" THEN owner.rdir ELSE f, !.rdirHost = h]
        BY <3>1, <3>2, <1>h
      <4>2. (IF f = "none" THEN owner.rdir ELSE f) \in Filters
        BY <3>2, <1>h
      <4> QED BY <4>1, <4>2, <1>o, OwnerChanged
    <3> QED BY <3>3, <2>1, <1>o DEF InDecode
  <2>2. CASE \/ InReturn \/ InStart \/ InFirstLine \/ InGarbage \/ InHeaders \/ InDecodeBad
             \/ InChunk \/ InRaw \/ InTunneling \/ InFinish
    BY <2>2, <1>o DEF InReturn, InStart, InFirstLine, InGarbage, InHeaders, InDecodeBad, InChunk,
        InRaw, InTunneling, InFinish
  <2> QED BY <1>6, <2>1, <2>2 DEF ProcessIn
<1> QED BY <1>1, <1>2, <1>3, <1>4, <1>5, <1>6 DEF Next, Thread

-----------------------------------------------------------------------------
(* The website's side.                                                     *)

LEMMA TokenOK ==
  ASSUME NEW k \in Kinds, NEW r \in Nat, NEW v \in Values
  PROVE  Tok(k, r, v) \in Token /\ <<Tok(k, r, v)>> \in Tokens
BY DEF Tok, Token, Tokens

LEMMA TokensDef == Tokens = Seq(Token) /\ <<>> \in Tokens
BY DEF Tokens, Token

LEMMA DisconnectedOK == Disconnected \in WebsiteEnd
<1>1. <<"-", FALSE>> \in Contacts
  BY DEF Contacts
<1> QED BY <1>1, TokensDef DEF Disconnected, WebsiteEnd

LEMMA SendOutKeeps ==
  ASSUME website \in WebsiteEnd, NEW buf \in Tokens, SendOut(buf)
  PROVE  website' \in WebsiteEnd /\ sendOutBuf' \in Tokens
<1>1. HeadsOf(buf) \subseteq Nat
  <2>1. \A i \in DOMAIN buf : buf[i] \in Token
    BY TokensDef, ElementOfSeq, LenProperties
  <2> QED BY <2>1 DEF HeadsOf, Token
<1>2. website.got \o buf \in Tokens
  <2>1. website.got \in Tokens
    BY DEF WebsiteEnd
  <2> QED BY <2>1, TokensDef, ConcatProperties
<1>3. [website EXCEPT !.got = @ \o buf, !.todo = @ \cup HeadsOf(buf)] \in WebsiteEnd
  <2> DEFINE g == website.got \o buf
             t == website.todo \cup HeadsOf(buf)
  <2>1. g \in Tokens /\ t \subseteq Nat
    BY <1>1, <1>2 DEF WebsiteEnd
  <2> HIDE DEF g, t
  <2>2. [website EXCEPT !.got = g, !.todo = t] \in WebsiteEnd
    BY <2>1 DEF WebsiteEnd
  <2> QED BY <2>2 DEF g, t
<1>4. \/ website' \in {website, Disconnected}
      \/ website' = [website EXCEPT !.got = @ \o buf, !.todo = @ \cup HeadsOf(buf)]
  BY DEF SendOut, KeepWebsite
<1>5. sendOutBuf' \in {buf, <<>>}
  BY DEF SendOut
<1> QED BY <1>3, <1>4, <1>5, DisconnectedOK, TokensDef

LEMMA ReceiveInKeeps ==
  ASSUME website \in WebsiteEnd, recvInBuf \in Tokens, ReceiveIn
  PROVE  website' \in WebsiteEnd /\ recvInBuf' \in Tokens
<1>1. website.net \in Tokens
  BY DEF WebsiteEnd
<1>2. recvInBuf' \in Tokens
  BY <1>1, TokensDef, ConcatProperties DEF ReceiveIn
<1>3. [website EXCEPT !.net = <<>>] \in WebsiteEnd
  BY TokensDef DEF WebsiteEnd
<1> QED BY <1>2, <1>3, DisconnectedOK DEF ReceiveIn

LEMMA BodyTokensOK ==
  ASSUME NEW r \in Nat, NEW frame PROVE BodyOf(r, frame) \in Tokens
<1> DEFINE d == Tok("data", r, "-")
           z == Tok("size", r, "-")
           e == Tok("last", r, "-")
<1>1. "data" \in Kinds /\ "size" \in Kinds /\ "last" \in Kinds /\ "-" \in Values
  BY DEF Kinds, Values
<1>2. d \in Token /\ z \in Token /\ e \in Token
  BY <1>1, TokenOK
<1>3. BodyOf(r, frame) \in {<<d>>, <<d, d>>, <<z, d, e>>, <<>>}
  BY DEF BodyOf
<1> HIDE DEF d, z, e
<1>4. <<d>> \in Seq(Token) /\ <<d, d>> \in Seq(Token) /\ <<z, d, e>> \in Seq(Token)
  BY <1>2
<1> QED BY <1>3, <1>4, TokensDef

LEMMA PiecesOK ==
  ASSUME NEW said \in Nat, NEW n \in Nat
  PROVE  PiecesFrom(said, n) \in Tokens
<1>1. "tun" \in Kinds /\ "-" \in Values
  BY DEF Kinds, Values
<1>2. ASSUME NEW i \in 1..n PROVE Tok("tun", said + i, "-") \in Token
  <2>1. said + i \in Nat
    OBVIOUS
  <2> QED BY <1>1, <2>1, TokenOK
<1>3. PiecesFrom(said, n) \in Seq(Token)
  BY <1>2 DEF PiecesFrom
<1> QED BY <1>3, TokensDef

LEMMA WebsiteAnswered ==
  ASSUME NEW w \in WebsiteEnd, NEW q \in Tokens, NEW r \in Nat, NEW e \in BOOLEAN, NEW n \in Nat
  PROVE  [w EXCEPT !.todo = @ \ {r}, !.ending = e, !.said = @ + n, !.queue = q] \in WebsiteEnd
<1> DEFINE t == w.todo \ {r}
           s == w.said + n
<1>1. t \in SUBSET Nat /\ s \in Nat
  BY DEF WebsiteEnd
<1> HIDE DEF t, s
<1>2. [w EXCEPT !.todo = t, !.ending = e, !.said = s, !.queue = q] \in WebsiteEnd
  BY <1>1 DEF WebsiteEnd
<1> QED BY <1>2 DEF t, s

LEMMA WebsiteChanged ==
  ASSUME NEW w \in WebsiteEnd, NEW q \in Tokens, NEW r \in Nat, NEW e \in BOOLEAN
  PROVE  /\ [w EXCEPT !.hinted = r, !.queue = q] \in WebsiteEnd
         /\ [w EXCEPT !.ending = e, !.queue = q] \in WebsiteEnd
         /\ [w EXCEPT !.open = e, !.queue = q] \in WebsiteEnd
BY DEF WebsiteEnd

LEMMA WebsiteStep ==
  WebsiteInv /\ RequestInv /\ PeerInv /\ OwnerInv /\ [Next]_vars => WebsiteInv'
<1> SUFFICES ASSUME WebsiteInv, RequestInv, PeerInv, OwnerInv, [Next]_vars
             PROVE  website' \in WebsiteEnd /\ sendOutBuf' \in Tokens
  BY SettingStays, TokensDef DEF WebsiteInv, Tokens
<1>w. website \in WebsiteEnd /\ sendOutBuf \in Tokens
  BY DEF WebsiteInv
<1>k. KeepWebsite(FALSE) => website' \in WebsiteEnd
  BY DisconnectedOK DEF KeepWebsite
<1>o. out \in Out(Len(reqs)) /\ out.req \in Nat /\ out.method \in Verbs /\ out.size \in Nat
  BY LenProperties DEF RequestInv, Out
<1>r. /\ recvOutBuf \in Tokens
      /\ recvOutBuf # <<>> => Head(recvOutBuf) \in Token
  <2>1. Len(reqs) \in Nat /\ recvOutBuf \in Seq(Piece(Len(reqs)))
    BY LenProperties DEF RequestInv
  <2>2. recvOutBuf \in Tokens
    BY <2>1, PiecesAreTokens
  <2> QED BY <2>2, TokensDef, HeadTailProperties
<1>v. Verbs \subseteq Values /\ "simple" \in Values /\ "-" \in Values /\ "qhead" \in Kinds /\ "connect" \in Kinds
  BY DEF Values, Kinds
<1> USE DEF socketVars, outBufs, envVars
<1>1. CASE UNCHANGED vars \/ Terminated
  BY <1>1, <1>w DEF vars, Terminated
<1>2. CASE Environment
  <2>t. sendOutBuf' = sendOutBuf
    BY <1>2, EnvironmentLeavesThread DEF threadVars
  <2>1. CASE WebsiteAnswer
    <3>1. PICK r \in Pending, a \in Responses, n \in 0..MaxPieces :
            website' = [website EXCEPT
              !.todo = @ \ {r}, !.ending = a.close \/ a.frame = "eof", !.said = @ + n,
              !.queue = <<Tok("rline", r, a.code),
                          Tok(IF a.close THEN "rhdrClose" ELSE "rhdr", r, a.frame)>>
                        \o (IF reqs[r].m = "HEAD" THEN <<>> ELSE BodyOf(r, a.frame))
                        \o PiecesFrom(website.said, n)]
      <4>1. PICK r \in Pending, a \in Responses :
              \E n \in (IF a.code = "101" THEN 0..MaxPieces ELSE {0}) :
                website' = [website EXCEPT
                  !.todo = @ \ {r}, !.ending = a.close \/ a.frame = "eof", !.said = @ + n,
                  !.queue = <<Tok("rline", r, a.code),
                              Tok(IF a.close THEN "rhdrClose" ELSE "rhdr", r, a.frame)>>
                            \o (IF reqs[r].m = "HEAD" THEN <<>> ELSE BodyOf(r, a.frame))
                            \o PiecesFrom(website.said, n)]
        BY <2>1 DEF WebsiteAnswer
      <4>2. (IF a.code = "101" THEN 0..MaxPieces ELSE {0}) \subseteq 0..MaxPieces
        BY DEF MaxPieces
      <4> QED BY <4>1, <4>2
    <3>2. r \in Nat /\ n \in Nat /\ website.said \in Nat
      BY <1>w DEF Pending, WebsiteEnd
    <3> DEFINE l == Tok("rline", r, a.code)
               h == Tok(IF a.close THEN "rhdrClose" ELSE "rhdr", r, a.frame)
               b == IF reqs[r].m = "HEAD" THEN <<>> ELSE BodyOf(r, a.frame)
               t == PiecesFrom(website.said, n)
               e == a.close \/ a.frame = "eof"
               q == <<l, h>> \o b \o t
    <3>3. a.code \in Values /\ a.frame \in Values
      BY SettingOK DEF PeerInv, Values
    <3>4. "rline" \in Kinds /\ (IF a.close THEN "rhdrClose" ELSE "rhdr") \in Kinds
      BY DEF Kinds
    <3>5. l \in Token /\ h \in Token
      BY <3>2, <3>3, <3>4, TokenOK
    <3>6. b \in Tokens /\ t \in Tokens
      BY <3>2, BodyTokensOK, PiecesOK, TokensDef
    <3>7. website' = [website EXCEPT !.todo = @ \ {r}, !.ending = e, !.said = @ + n, !.queue = q]
      BY <3>1
    <3>e. e \in BOOLEAN
      OBVIOUS
    <3> HIDE DEF l, h, b, e, t
    <3>8. <<l, h>> \in Seq(Token)
      BY <3>5
    <3>9. q \in Tokens
      BY <3>6, <3>8, TokensDef, ConcatProperties
    <3> HIDE DEF q
    <3>10. website' \in WebsiteEnd
      BY <3>7, <3>e, <3>9, <3>2, <1>w, WebsiteAnswered
    <3> QED BY <3>10, <1>w, <2>t
  <2>9. CASE WebsiteTunnel
    <3> DEFINE q == website.queue \o PiecesFrom(website.said, 1)
    <3>1. website' = [website EXCEPT !.said = @ + 1, !.queue = q]
      BY <2>9 DEF WebsiteTunnel
    <3>2. website.said \in Nat /\ website.queue \in Tokens
      BY <1>w DEF WebsiteEnd
    <3>3. PiecesFrom(website.said, 1) \in Tokens
      BY <3>2, PiecesOK
    <3>4. q \in Tokens
      BY <3>2, <3>3, TokensDef, ConcatProperties
    <3> HIDE DEF q
    <3> DEFINE s == website.said + 1
    <3>5. s \in Nat /\ website' = [website EXCEPT !.said = s, !.queue = q]
      BY <3>1, <3>2
    <3> HIDE DEF s
    <3>6. website' \in WebsiteEnd
      BY <3>4, <3>5, <1>w DEF WebsiteEnd
    <3> QED BY <3>6, <1>w, <2>t
  <2>2. CASE WebsiteInterim
    <3>1. PICK r \in Pending, c \in Interims :
            website' = [website EXCEPT !.hinted = r,
                          !.queue = <<Tok("rline", r, c), Tok("rhdr", r, "none")>>]
      BY <2>2 DEF WebsiteInterim
    <3>2. r \in Nat
      BY <1>w DEF Pending, WebsiteEnd
    <3>3. c \in Values /\ "none" \in Values /\ "rline" \in Kinds /\ "rhdr" \in Kinds
      BY SettingOK DEF PeerInv, Values, Kinds, Frames
    <3> DEFINE l == Tok("rline", r, c)
               h == Tok("rhdr", r, "none")
               q == <<l, h>>
    <3>4. l \in Token /\ h \in Token
      BY <3>2, <3>3, TokenOK
    <3>5. website' = [website EXCEPT !.hinted = r, !.queue = q]
      BY <3>1
    <3> HIDE DEF l, h
    <3>6. q \in Tokens
      BY <3>4, TokensDef
    <3> HIDE DEF q
    <3> QED BY <3>2, <3>5, <3>6, <1>w, <2>t, WebsiteChanged
  <2>3. CASE WebsiteStray
    <3> DEFINE l == Tok("rline", 0, "408")
               h == Tok("rhdrClose", 0, "none")
               d == Tok("data", 0, "-")
    <3>1. \/ website' = [website EXCEPT !.ending = TRUE, !.queue = <<l, h>>]
          \/ website' = [website EXCEPT !.ending = TRUE, !.queue = <<d>>]
      BY <2>3 DEF WebsiteStray
    <3>2. /\ {"rline", "rhdrClose", "data"} \subseteq Kinds /\ {"408", "none"} \subseteq Values
      BY DEF Kinds, Values, Codes, Frames
    <3>3. l \in Token /\ h \in Token /\ d \in Token
      BY <3>2, <1>v, TokenOK
    <3> HIDE DEF l, h, d
    <3>4. <<l, h>> \in Tokens /\ <<d>> \in Tokens
      BY <3>3, TokensDef
    <3> QED BY <3>1, <3>4, <1>w, <2>t, WebsiteChanged
  <2>4. CASE WebsiteSend
    <3>1. /\ website.queue # <<>>
          /\ website' = [website EXCEPT !.net = Append(@, Head(website.queue)), !.queue = Tail(@)]
      BY <2>4 DEF WebsiteSend
    <3>2. website.queue \in Seq(Token) /\ website.net \in Seq(Token)
      BY <1>w, TokensDef DEF WebsiteEnd
    <3>3. Head(website.queue) \in Token /\ Tail(website.queue) \in Tokens
      BY <3>1, <3>2, HeadTailProperties, TokensDef
    <3>4. Append(website.net, Head(website.queue)) \in Tokens
      BY <3>2, <3>3, TokensDef
    <3>5. website' \in WebsiteEnd
      BY <3>1, <3>3, <3>4, <1>w DEF WebsiteEnd
    <3> QED BY <3>5, <2>t, <1>w
  <2>5. CASE WebsiteClose
    <3>1. website' = [website EXCEPT !.open = FALSE, !.queue = <<>>]
      BY <2>5 DEF WebsiteClose
    <3> QED BY <3>1, <1>w, <2>t, TokensDef, WebsiteChanged
  <2>6. CASE \/ BrowserRequest \/ BrowserTunnel \/ BrowserSend \/ BrowserClose
             \/ Stall \/ IdleExpire \/ SwitchToInvalid
    BY <2>6, <2>t, <1>w DEF BrowserRequest, BrowserTunnel, BrowserSend, BrowserClose, Stall,
        IdleExpire, SwitchToInvalid
  <2> QED BY <1>2, <2>1, <2>2, <2>3, <2>4, <2>5, <2>6, <2>9 DEF Environment
<1>3. CASE ManageLoop
  <2>1. CASE InnerSendOut
    <3>1. SendOut(sendOutBuf)
      BY <2>1 DEF InnerSendOut
    <3> QED BY <3>1, <1>w, SendOutKeeps
  <2>2. CASE InnerReceiveIn \/ TrailReceive
    <3>1. website' \in {[website EXCEPT !.net = <<>>], Disconnected} /\ sendOutBuf' = sendOutBuf
      BY <2>2 DEF InnerReceiveIn, TrailReceive, ReceiveIn
    <3>2. [website EXCEPT !.net = <<>>] \in WebsiteEnd
      BY <1>w, TokensDef DEF WebsiteEnd
    <3> QED BY <3>1, <3>2, <1>w, DisconnectedOK
  <2>3. CASE InnerEnd \/ OuterEnd
    BY <2>3, <1>w, <1>k DEF InnerEnd, OuterEnd, JudgeIf, Judge
  <2>4. CASE Destroy
    BY <2>4, <1>w, <1>k DEF Destroy
  <2>5. CASE OuterReceive \/ OuterSend \/ InnerSendIn \/ InnerReceiveOut \/ TrailFeed \/ TrailSend \/ Trail503
    BY <2>5, <1>w DEF OuterReceive, OuterSend, InnerSendIn, InnerReceiveOut, TrailFeed, TrailSend, Trail503
  <2> QED BY <1>3, <2>1, <2>2, <2>3, <2>4, <2>5 DEF ManageLoop
<1>4. CASE ProcessOut
  <2>1. CASE OutSend
    <3>1. <<Tok("qhead", out.req, out.method)>> \in Tokens
      BY <1>o, <1>v, TokenOK
    <3> QED BY <2>1, <3>1, <1>w DEF OutSend
  <2>2. CASE OutChunk
    <3>1. Head(recvOutBuf) \in Token
      BY <2>2, <1>r DEF OutChunk, NextIs
    <3>2. Append(sendOutBuf, Head(recvOutBuf)) \in Tokens
      BY <3>1, <1>w, TokensDef
    <3>3. sendOutBuf' \in {Append(sendOutBuf, Head(recvOutBuf)), <<>>} /\ website' = website
      BY <2>2 DEF OutChunk, Unexpected
    <3> QED BY <3>2, <3>3, <1>w, TokensDef
  <2>3. CASE OutRaw
    <3> DEFINE z == CopySize(recvOutBuf, out.size)
    <3>1. z \in 0..Len(recvOutBuf)
      <4>1. Len(recvOutBuf) \in Nat
        BY <1>r, TokensDef, LenProperties
      <4> QED BY <4>1, <1>o DEF CopySize
    <3>2. sendOutBuf' \in {sendOutBuf \o SubSeq(recvOutBuf, 1, z), <<>>} /\ website' = website
      BY <2>3 DEF OutRaw, Unexpected
    <3> HIDE DEF z
    <3>3. SubSeq(recvOutBuf, 1, z) \in Tokens
      BY <3>1, <1>r, TokensDef, CutType
    <3>4. sendOutBuf \o SubSeq(recvOutBuf, 1, z) \in Tokens
      BY <3>3, <1>w, TokensDef, ConcatProperties
    <3> QED BY <3>2, <3>4, <1>w, TokensDef
  <2>4. CASE OutTunneling
    <3>1. sendOutBuf \o recvOutBuf \in Tokens
      BY <1>w, <1>r, TokensDef, ConcatProperties
    <3> QED BY <2>4, <3>1, <1>w DEF OutTunneling
  <2>5. CASE OutFinish
    BY <2>5, <1>w, DisconnectedOK DEF OutFinish, EndExchange, KeepWebsite
  <2>6. CASE OutReturn \/ OutStart \/ OutFirstLine \/ OutHeaders \/ OutDecodeBad \/ OutDecode
    BY <2>6, <1>w DEF OutReturn, OutStart, OutFirstLine, OutHeaders, OutDecodeBad, OutDecode
  <2> QED BY <1>4, <2>1, <2>2, <2>3, <2>4, <2>5, <2>6 DEF ProcessOut
<1>5. CASE ConnectWebsite
  <2>1. CASE ConnectFlush
    <3>1. website' \in {website, [website EXCEPT !.net = <<>>], Disconnected} /\ sendOutBuf' = sendOutBuf
      BY <2>1 DEF ConnectFlush, KeepWebsite
    <3>2. [website EXCEPT !.net = <<>>] \in WebsiteEnd
      BY <1>w, TokensDef DEF WebsiteEnd
    <3> QED BY <3>1, <3>2, <1>w, DisconnectedOK
  <2>2. CASE ConnectFail
    BY <2>2, <1>w, <1>k DEF ConnectFail
  <2>3. CASE ConnectOpen
    <3>1. Target \in Contacts
      BY DEF Target, Contacts, OwnerInv, Owner
    <3>2. [Disconnected EXCEPT !.open = TRUE, !.host = Target] \in WebsiteEnd
      BY <3>1, DisconnectedOK DEF WebsiteEnd
    <3> QED BY <2>3, <3>2, <1>w DEF ConnectOpen
  <2>4. CASE ViaProxy
    <3>1. <<Tok("connect", out.req, "-")>> \in Tokens
      BY <1>o, <1>v, TokenOK
    <3>2. SendOut(<<Tok("connect", out.req, "-")>>) \/ UNCHANGED <<sendOutBuf, website>>
      BY <2>4 DEF ViaProxy
    <3> QED BY <3>1, <3>2, <1>w, SendOutKeeps
  <2>5. CASE Resend
    <3>1. <<Tok("qhead", out.req, "simple")>> \in Tokens
      BY <1>o, <1>v, TokenOK
    <3>2. SendOut(<<Tok("qhead", out.req, "simple")>>) \/ UNCHANGED <<sendOutBuf, website>>
      BY <2>5 DEF Resend
    <3> QED BY <3>1, <3>2, <1>w, SendOutKeeps
  <2>6. CASE AwaitProxy \/ Tls
    BY <2>6, <1>w, <1>k, DisconnectedOK DEF AwaitProxy, Tls, KeepWebsite
  <2>7. CASE \/ LocalAnswer \/ ApiAnswer \/ LocalTls \/ AwaitLine \/ AwaitLocal \/ LocalSecure \/ Jump \/ Rdir
             \/ ConnectReuse \/ Established \/ InRedirected
    BY <2>7, <1>w DEF LocalAnswer, ApiAnswer, LocalTls, AwaitLine, AwaitLocal, LocalSecure, SecurePage, Jump, Rdir,
        ConnectReuse, Established, InRedirected
  <2> QED BY <1>5, <2>1, <2>2, <2>3, <2>4, <2>5, <2>6, <2>7 DEF ConnectWebsite
<1>6. CASE ProcessIn
  <2>1. CASE InRaw
    BY <2>1, <1>w, <1>k DEF InRaw
  <2>2. CASE InFinish
    BY <2>2, <1>w, DisconnectedOK DEF InFinish, EndExchange, KeepWebsite
  <2>3. CASE \/ InReturn \/ InStart \/ InFirstLine \/ InGarbage \/ InHeaders \/ InDecodeBad
             \/ InDecode \/ InChunk \/ InTunneling
    BY <2>3, <1>w DEF InReturn, InStart, InFirstLine, InGarbage, InHeaders, InDecodeBad, InDecode,
        InChunk, InTunneling
  <2> QED BY <1>6, <2>1, <2>2, <2>3 DEF ProcessIn
<1> QED BY <1>1, <1>2, <1>3, <1>4, <1>5, <1>6 DEF Next, Thread

LEMMA InChanged ==
  ASSUME NEW i \in In
  PROVE  /\ \A r \in Nat, v \in Values :
              [i EXCEPT !.resp = r, !.code = v, !.size = 0, !.chunked = FALSE] \in In
         /\ \A v \in Values, h \in Tokens : [i EXCEPT !.headers = h, !.code = v] \in In
         /\ \A v \in Values, h \in Tokens : [i EXCEPT !.code = v, !.headers = h] \in In
         /\ \A v \in Values : [i EXCEPT !.code = v] \in In
         /\ \A b \in BOOLEAN : [i EXCEPT !.dumped = b] \in In
         /\ \A z \in Nat : [i EXCEPT !.size = z] \in In
         /\ \A z \in Nat, b \in BOOLEAN : [i EXCEPT !.size = z, !.dumped = b] \in In
         /\ \A z \in Nat, b \in BOOLEAN : [i EXCEPT !.chunked = b, !.size = z] \in In
         /\ \A b, c \in BOOLEAN : [i EXCEPT !.chain = b, !.dumped = c] \in In
BY DEF In

LEMMA EndedOK ==
  ASSUME NEW buf \in Tokens, NEW r \in Nat, NEW i PROVE Ended(buf, r, i) \in Tokens
<1>1. "end" \in Kinds /\ "-" \in Values
  BY DEF Kinds, Values
<1>2. Tok("end", r, "-") \in Token
  BY <1>1, TokenOK
<1>3. Append(buf, Tok("end", r, "-")) \in Tokens
  BY <1>2, TokensDef
<1> QED BY <1>3 DEF Ended

LEMMA HeadForOK == ASSUME NEW i \in In PROVE <<HeadFor(i)>> \in Tokens
<1> DEFINE k == IF i.code \in {"100", "103"} THEN "interim" ELSE "rhead"
           v == IF i.code = "101" THEN "tunnel"
                ELSE IF out.method = "HEAD" \/ i.code = "204" THEN "none"
                ELSE IF i.chunked \/ (i.chain /\ i.size > 0) THEN "chunk"
                ELSE CASE i.size = 0 -> "none" [] i.size = 1 -> "len1"
                       [] i.size = 2 -> "len2" [] OTHER -> "eof"
<1>1. k \in Kinds
  BY DEF Kinds
<1>2. v \in Values
  <2>1. {"tunnel", "none", "chunk", "len1", "len2", "eof"} \subseteq Values
    BY DEF Values, Frames
  <2> QED BY <2>1
<1>3. HeadFor(i) = Tok(k, i.resp, v)
  BY DEF HeadFor
<1>4. i.resp \in Nat
  BY DEF In
<1> HIDE DEF k, v
<1> QED BY <1>1, <1>2, <1>3, <1>4, TokenOK

LEMMA BodySizeOK == BodySize \in Nat
BY DEF BodySize, Unlimited

LEMMA PiecesFed ==
  ASSUME NEW m \in Nat, NEW r \in Nat PROVE [i \in 1..m |-> Tok("data", r, "-")] \in Tokens
<1>1. "data" \in Kinds /\ "-" \in Values
  BY DEF Kinds, Values
<1>2. Tok("data", r, "-") \in Token
  BY <1>1, TokenOK
<1> QED BY <1>2, SeqDef, TokensDef

LEMMA ResponseStep ==
  ResponseInv /\ WebsiteInv /\ RequestInv /\ PeerInv /\ FlagInv /\ [Next]_vars => ResponseInv'
<1> SUFFICES ASSUME ResponseInv, WebsiteInv, RequestInv, PeerInv, FlagInv, [Next]_vars
             PROVE  recvInBuf' \in Tokens /\ sendInBuf' \in Tokens /\ in' \in In
  BY TokensDef DEF ResponseInv, Tokens, In
<1>w. website \in WebsiteEnd /\ recvInBuf \in Tokens /\ sendInBuf \in Tokens /\ in \in In
  BY DEF WebsiteInv, ResponseInv
<1>e. <<>> \in Tokens /\ Tokens = Seq(Token)
  BY TokensDef
<1>o. out.req \in Nat
  BY LenProperties DEF RequestInv, Out
<1>i. in.resp \in Nat /\ in.code \in Values /\ in.headers \in Tokens /\ in.size \in Nat
  BY <1>w DEF In
<1>h. recvInBuf # <<>> => Head(recvInBuf) \in Token /\ Tail(recvInBuf) \in Tokens
  BY <1>w, <1>e, HeadTailProperties
<1>f. \A v \in {"200", "302", "503", "50x"} : <<Tok("fake", out.req, v)>> \in Tokens
  <2>1. "fake" \in Kinds /\ {"200", "302", "503", "50x"} \subseteq Values
    BY DEF Kinds, Values, Codes
  <2> QED BY <2>1, <1>o, TokenOK
<1>t. <<Tok("est", out.req, "200")>> \in Tokens
  <2>1. "est" \in Kinds /\ "200" \in Values
    BY DEF Kinds, Values, Codes
  <2> QED BY <2>1, <1>o, TokenOK
<1>v. {"", "200", "50x"} \subseteq Values
  BY DEF Values, Codes
<1>s. ASSUME NEW buf, NEW keep, SendIn(buf, keep) PROVE sendInBuf' \in {buf, <<>>}
  BY <1>s DEF SendIn
<1> USE DEF inBufs, dataVars
<1>1. CASE UNCHANGED vars \/ Terminated
  BY <1>1, <1>w DEF vars, Terminated
<1>2. CASE Environment
  BY <1>2, <1>w, EnvironmentLeavesThread DEF threadVars
<1>3. CASE ManageLoop
  <2>1. CASE OuterSend \/ InnerSendIn \/ TrailSend
    <3>1. SendIn(sendInBuf, TRUE) /\ UNCHANGED <<recvInBuf, in>>
      BY <2>1 DEF OuterSend, InnerSendIn, TrailSend
    <3> QED BY <3>1, <1>s, <1>w, <1>e
  <2>2. CASE Trail503
    <3>1. SendIn(<<Tok("fake", out.req, "503")>>, FALSE) /\ UNCHANGED <<recvInBuf, in>>
      BY <2>2 DEF Trail503
    <3> QED BY <3>1, <1>s, <1>w, <1>e, <1>f
  <2>3. CASE InnerReceiveIn \/ TrailReceive
    <3>1. ReceiveIn /\ UNCHANGED <<sendInBuf, in>>
      BY <2>3 DEF InnerReceiveIn, TrailReceive
    <3> QED BY <3>1, <1>w, ReceiveInKeeps
  <2>4. CASE TrailFeed
    <3>1. Ended(sendInBuf, in.resp, in) \in Tokens
      BY <1>w, <1>i, EndedOK
    <3>2. [in EXCEPT !.dumped = TRUE] \in In
      BY <1>w, InChanged
    <3> QED BY <2>4, <3>1, <3>2, <1>w DEF TrailFeed
  <2>5. CASE OuterReceive \/ InnerSendOut \/ InnerReceiveOut \/ InnerEnd \/ OuterEnd \/ Destroy
    BY <2>5, <1>w DEF OuterReceive, InnerSendOut, InnerReceiveOut, InnerEnd, OuterEnd, Destroy
  <2> QED BY <1>3, <2>1, <2>2, <2>3, <2>4, <2>5 DEF ManageLoop
<1>4. CASE ProcessOut
  <2>1. CASE OutStart
    <3>1. [in EXCEPT !.code = "", !.headers = <<>>] \in In
      BY <1>w, <1>v, <1>e, InChanged
    <3> QED BY <2>1, <3>1, <1>w DEF OutStart, Reset
  <2>2. CASE OutFinish
    <3>1. SendIn(sendInBuf, FALSE) \/ sendInBuf' = sendInBuf
      BY <2>2 DEF OutFinish, EndExchange
    <3>2. UNCHANGED <<recvInBuf, in>>
      BY <2>2 DEF OutFinish
    <3> QED BY <3>1, <3>2, <1>s, <1>w, <1>e
  <2>3. CASE \/ OutReturn \/ OutFirstLine \/ OutHeaders \/ OutDecodeBad \/ OutDecode \/ OutSend \/ OutChunk \/ OutRaw
             \/ OutTunneling
    BY <2>3, <1>w DEF OutReturn, OutFirstLine, OutHeaders, OutDecodeBad, OutDecode, OutSend, OutChunk, OutRaw,
        OutTunneling
  <2> QED BY <1>4, <2>1, <2>2, <2>3 DEF ProcessOut
<1>5. CASE ConnectWebsite
  <2>1. CASE LocalAnswer
    <3>1. SendIn(Page, TRUE) /\ UNCHANGED <<recvInBuf, in>>
      BY <2>1 DEF LocalAnswer
    <3> QED BY <3>1, <1>s, <1>w, <1>e, <1>f DEF Page
  <2>2. CASE AwaitLocal
    <3> DEFINE r == IF NextIs(recvOutBuf, {"line"}) THEN Head(recvOutBuf).r ELSE out.req
    <3>1. r \in Nat
      <4>1. CASE NextIs(recvOutBuf, {"line"})
        <5>1. Head(recvOutBuf) \in Piece(Len(reqs))
          BY <4>1, HeadTailProperties DEF NextIs, RequestInv
        <5> QED BY <4>1, <5>1 DEF Piece
      <4> QED BY <4>1, <1>o
    <3>2. /\ SendIn(<<Tok("fake", r, "200")>>, TRUE) \/ sendInBuf' = sendInBuf
          /\ UNCHANGED <<recvInBuf, in>>
      BY <2>2 DEF AwaitLocal, SecurePage
    <3> HIDE DEF r
    <3>3. <<Tok("fake", r, "200")>> \in Tokens
      <4>1. "fake" \in Kinds
        BY DEF Kinds
      <4> QED BY <3>1, <4>1, <1>v, TokenOK
    <3> QED BY <3>2, <3>3, <1>s, <1>w, <1>e
  <2>3. CASE Established
    <3>1. SendIn(sendInBuf, TRUE) /\ UNCHANGED <<recvInBuf, in>>
      BY <2>3 DEF Established
    <3> QED BY <3>1, <1>s, <1>w, <1>e
  <2>4. CASE Jump \/ ConnectFail
    <3>1. \/ sendInBuf' = <<Tok("fake", out.req, "302")>>
          \/ sendInBuf' = <<Tok("fake", out.req, "50x")>>
      BY <2>4 DEF Jump, ConnectFail, Fake
    <3>2. UNCHANGED <<recvInBuf, in>>
      BY <2>4 DEF Jump, ConnectFail
    <3> QED BY <3>1, <3>2, <1>w, <1>f
  <2>5. CASE ConnectOpen
    BY <2>5, <1>w, <1>t DEF ConnectOpen
  <2>6. CASE ConnectFlush
    BY <2>6, <1>w, <1>e DEF ConnectFlush
  <2>7. CASE AwaitProxy
    <3>1. PICK code : /\ code \in {"200", "50x", in.code}
                      /\ in' = [in EXCEPT !.code = code]
      BY <2>7 DEF AwaitProxy
    <3>2. in' \in In
      BY <3>1, <1>w, <1>i, <1>v, InChanged
    <3> QED BY <2>7, <3>2, <1>w, <1>e DEF AwaitProxy
  <2>8. CASE \/ ApiAnswer \/ LocalTls \/ AwaitLine \/ Rdir \/ ConnectReuse \/ ViaProxy \/ Tls
             \/ Resend \/ InRedirected
    BY <2>8, <1>w DEF ApiAnswer, LocalTls, AwaitLine, Rdir, ConnectReuse, ViaProxy, Tls, Resend,
        InRedirected
  <2>9. CASE LocalSecure
    <3>1. /\ SendIn(<<Tok("fake", out.req, "200")>>, TRUE) \/ sendInBuf' = sendInBuf
          /\ UNCHANGED <<recvInBuf, in>>
      BY <2>9 DEF LocalSecure, SecurePage
    <3> QED BY <3>1, <1>s, <1>w, <1>e, <1>f
  <2> QED BY <1>5, <2>1, <2>2, <2>3, <2>4, <2>5, <2>6, <2>7, <2>8, <2>9 DEF ConnectWebsite
<1>6. CASE ProcessIn
  <2>1. CASE InFirstLine
    <3>1. Head(recvInBuf) \in Token /\ Tail(recvInBuf) \in Tokens
      BY <2>1, <1>h DEF InFirstLine, NextIs
    <3>2. Head(recvInBuf).r \in Nat /\ Head(recvInBuf).v \in Values
      BY <3>1 DEF Token
    <3>3. [in EXCEPT !.resp = Head(recvInBuf).r, !.code = Head(recvInBuf).v,
                     !.size = 0, !.chunked = FALSE] \in In
      BY <3>2, <1>w, InChanged
    <3> QED BY <2>1, <3>1, <3>3, <1>w DEF InFirstLine
  <2>2. CASE InHeaders
    <3>1. Head(recvInBuf) \in Token /\ Tail(recvInBuf) \in Tokens
      BY <2>2, <1>h DEF InHeaders, NextIs
    <3> DEFINE g == Append(in.headers, Head(recvInBuf))
               c == IF in.code = "100" THEN "" ELSE in.code
    <3>2. g \in Tokens
      BY <3>1, <1>i, <1>e
    <3>3. c \in Values
      BY <1>i, <1>v
    <3>4. in' = [in EXCEPT !.headers = g, !.code = c] /\ recvInBuf' = Tail(recvInBuf) /\ sendInBuf' = sendInBuf
      BY <2>2 DEF InHeaders
    <3> HIDE DEF g, c
    <3>5. in' \in In
      BY <3>2, <3>3, <3>4, <1>w, InChanged
    <3> QED BY <3>1, <3>4, <3>5, <1>w
  <2>3. CASE InDecode
    <3> DEFINE k == in.chunked \/ (Says({"chunk"}) /\ out.method # "HEAD")
               z == BodySize
               d == [in EXCEPT !.chunked = k, !.size = z]
    <3>1. k \in BOOLEAN /\ z \in Nat
      BY BodySizeOK
    <3>2. \/ in' = d /\ sendInBuf' = sendInBuf
          \/ \E b \in BOOLEAN : LET i == [d EXCEPT !.chain = b, !.dumped = FALSE]
                              IN in' = i /\ sendInBuf' = <<HeadFor(i)>>
      <4> DEFINE Goes(f, h, chain) ==
                   IF (IF f = "none" THEN owner.rdir ELSE f) # "none" /\ redirectedIn < MaxRedirect
                   THEN in' = d /\ sendInBuf' = sendInBuf
                   ELSE LET i == [d EXCEPT !.chain = chain /\ ContentType, !.dumped = FALSE]
                        IN in' = i /\ sendInBuf' = <<HeadFor(i)>>
      <4>1. \E f \in InFilters :
              \E h \in (IF f \in {"jump", "rdir"} THEN Hosts ELSE {owner.rdirHost}), chain \in Chains :
                Goes(f, h, chain)
        BY <2>3, ZenonT(40) DEF InDecode, Relay
      <4>2. PICK f, h, chain : Goes(f, h, chain)
        BY <4>1
      <4> DEFINE b == chain /\ ContentType
      <4>3. b \in BOOLEAN
        OBVIOUS
      <4> HIDE DEF d
      <4>4. \/ in' = d /\ sendInBuf' = sendInBuf
            \/ LET i == [d EXCEPT !.chain = b, !.dumped = FALSE] IN in' = i /\ sendInBuf' = <<HeadFor(i)>>
        BY <4>2
      <4> HIDE DEF b, Goes
      <4> QED BY <4>3, <4>4
    <3>3. recvInBuf' = recvInBuf
      BY <2>3 DEF InDecode
    <3> HIDE DEF k, z
    <3>4. d \in In
      BY <3>1, <1>w, InChanged
    <3> HIDE DEF d
    <3>5. CASE in' = d /\ sendInBuf' = sendInBuf
      BY <3>3, <3>4, <3>5, <1>w
    <3>6. CASE \E b \in BOOLEAN : LET i == [d EXCEPT !.chain = b, !.dumped = FALSE]
                              IN in' = i /\ sendInBuf' = <<HeadFor(i)>>
      <4>1. PICK b \in BOOLEAN : LET i == [d EXCEPT !.chain = b, !.dumped = FALSE]
                              IN in' = i /\ sendInBuf' = <<HeadFor(i)>>
        BY <3>6
      <4> DEFINE i == [d EXCEPT !.chain = b, !.dumped = FALSE]
      <4>2. i \in In
        BY <3>4, InChanged
      <4>3. in' = i /\ sendInBuf' = <<HeadFor(i)>>
        BY <4>1
      <4> HIDE DEF i
      <4>4. <<HeadFor(i)>> \in Tokens
        BY <4>2, HeadForOK
      <4> QED BY <4>2, <4>3, <4>4, <3>3, <1>w
    <3> QED BY <3>2, <3>5, <3>6
  <2>4. CASE InChunk
    <3>1. Tail(recvInBuf) \in Tokens
      BY <2>4, <1>h DEF InChunk, NextIs
    <3>2. Ended(sendInBuf, in.resp, in) \in Tokens
      BY <1>w, <1>i, EndedOK
    <3>3. [in EXCEPT !.size = 1] \in In /\ [in EXCEPT !.size = 0, !.dumped = TRUE] \in In
      BY <1>w, InChanged
    <3> QED BY <2>4, <3>1, <3>2, <3>3, <1>w DEF InChunk
  <2>5. CASE InRaw
    <3> DEFINE m    == CopySize(recvInBuf, in.size)
               left == in.size - m
               fed  == [j \in 1..m |-> Tok("data", in.resp, "-")]
               over == left = 0 /\ ~in.chunked
               body == IF in.dumped THEN sendInBuf ELSE sendInBuf \o fed
               z    == IF in.size = Unlimited THEN in.size ELSE left
    <3>1. m \in 0..Len(recvInBuf) /\ m \in Nat /\ left \in Nat
      <4>1. Len(recvInBuf) \in Nat
        BY <1>w, <1>e, LenProperties
      <4> QED BY <4>1, <1>i DEF CopySize
    <3>2. PICK killed \in {FALSE, BodyKill /\ in.chain /\ ~in.dumped} :
            /\ recvInBuf' = SubSeq(recvInBuf, m + 1, Len(recvInBuf))
            /\ in' = [in EXCEPT !.size = z, !.dumped = in.dumped \/ killed \/ over]
            /\ sendInBuf' = IF over THEN Ended(body, in.resp, in) ELSE body
      BY <2>5 DEF InRaw
    <3> DEFINE b == in.dumped \/ killed \/ over
    <3>3. b \in BOOLEAN /\ z \in Nat
      BY <3>1, <1>i
    <3>4. in' = [in EXCEPT !.size = z, !.dumped = b]
      BY <3>2
    <3> HIDE DEF m, left, z, b
    <3>5. in' \in In
      BY <3>3, <3>4, <1>w, InChanged
    <3>6. fed \in Tokens
      BY <3>1, <1>i, PiecesFed
    <3> HIDE DEF fed, over
    <3>7. body \in Tokens
      BY <3>6, <1>w, <1>e, ConcatProperties
    <3> HIDE DEF body
    <3>8. sendInBuf' \in Tokens
      BY <3>2, <3>7, <1>i, EndedOK
    <3>9. recvInBuf' \in Tokens
      BY <3>1, <3>2, <1>w, <1>e, CutType
    <3> QED BY <3>5, <3>8, <3>9
  <2>6. CASE InTunneling
    <3>1. sendInBuf \o recvInBuf \in Tokens
      BY <1>w, <1>e, ConcatProperties
    <3> QED BY <2>6, <3>1, <1>w, <1>e DEF InTunneling
  <2>7. CASE InFinish
    <3>1. SendIn(sendInBuf, FALSE) \/ sendInBuf' = sendInBuf
      BY <2>7 DEF InFinish, EndExchange
    <3>2. UNCHANGED <<recvInBuf, in>>
      BY <2>7 DEF InFinish
    <3> QED BY <3>1, <3>2, <1>s, <1>w, <1>e
  <2>8. CASE InReturn \/ InStart \/ InGarbage \/ InDecodeBad
    BY <2>8, <1>w, <1>e DEF InReturn, InStart, InGarbage, InDecodeBad
  <2> QED BY <1>6, <2>1, <2>2, <2>3, <2>4, <2>5, <2>6, <2>7, <2>8 DEF ProcessIn
<1> QED BY <1>1, <1>2, <1>3, <1>4, <1>5, <1>6 DEF Next, Thread

-----------------------------------------------------------------------------
LEMMA DataInit == Init => DataInv
<1> SUFFICES ASSUME Init PROVE DataInv
  OBVIOUS
<1>1. CountInv /\ ConnectsInv
  BY CountInit, ConnectsInit
<1>2. setting \in DOMAIN Settings
  BY DEF Init
<1>3. Local \in HostNames
  BY <1>2, SettingOK
<1>4. FlagInv /\ StepInv /\ PeerInv
  BY DEF Init, FlagInv, StepInv, PeerInv, Steps, Pcs
<1>5. reqs = <<>> /\ Len(reqs) = 0 /\ <<>> \in Tokens
  BY TokensDef DEF Init
<1>6. RequestInv
  <2>1. <<>> \in Seq(Request) /\ <<>> \in Seq(Piece(0))
    OBVIOUS
  <2>2. browser \in BrowserEnd(0) /\ recvOutBuf \in Seq(Piece(0))
    BY <1>5, <2>1 DEF Init, BrowserEnd
  <2>3. out \in Out(0)
    <3>1. 0 \in 0..0 /\ 0 \in Nat /\ "GET" \in Verbs /\ FALSE \in BOOLEAN
      BY DEF Verbs
    <3>2. out = [req |-> 0, method |-> "GET", size |-> 0, chunked |-> FALSE]
      BY DEF Init
    <3> QED BY <3>1, <3>2 DEF Out
  <2> QED BY <1>5, <2>1, <2>2, <2>3 DEF RequestInv
<1>7. QuietInv /\ FirstInv
  BY DEF Init, QuietInv, FirstInv
<1>8. OwnerInv
  <2>1. <<"-", FALSE>> \in Contacts /\ "none" \in Filters
    BY DEF Contacts, Filters
  <2> QED BY <2>1, <1>3 DEF Init, OwnerInv, Owner
<1>9. WebsiteInv
  BY <1>5, DisconnectedOK DEF Init, WebsiteInv
<1>10. ResponseInv
  <2>1. "" \in Values
    BY DEF Values, Codes
  <2> QED BY <2>1, <1>5 DEF Init, ResponseInv, In
<1> QED BY <1>1, <1>4, <1>6, <1>7, <1>8, <1>9, <1>10 DEF DataInv

LEMMA DataStep == DataInv /\ [Next]_vars => DataInv'
<1> SUFFICES ASSUME DataInv, [Next]_vars PROVE DataInv'
  OBVIOUS
<1>1. CountInv' /\ ConnectsInv'
  BY CountStep, ConnectsStep DEF DataInv
<1>2. FlagInv' /\ StepInv' /\ PeerInv'
  BY FlagStep, StepStep, PeerStep DEF DataInv, CountInv
<1>3. RequestInv' /\ QuietInv' /\ FirstInv' /\ OwnerInv'
  BY RequestStep, QuietStep, FirstStep, OwnerStep DEF DataInv
<1>4. WebsiteInv' /\ ResponseInv'
  BY WebsiteStep, ResponseStep DEF DataInv
<1> QED BY <1>1, <1>2, <1>3, <1>4 DEF DataInv

LEMMA DataHolds == Spec => []DataInv
BY DataInit, DataStep, PTL DEF Spec

\* For any hosts, filters, responses and bounds: every buffer holds tokens of
\* requests that were made, every host that is contacted is one of those named,
\* and the code never looks up a request that is not there.
THEOREM TypeCorrect == Spec => []TypeOK
<1>1. DataInv => TypeOK
  <2> SUFFICES ASSUME DataInv PROVE TypeOK
    OBVIOUS
  <2> USE DEF DataInv
  <2>1. Len(reqs) \in Nat
    BY LenProperties DEF RequestInv
  <2>2. reqs \in Seq([m : Methods \cup {"tun"}, h : HostNames, b : Bodies \cup {"none"}])
    BY DEF RequestInv, Request
  <2>3. browser \in [queue : Tokens, net : Tokens, open : BOOLEAN, got : Tokens]
    <3>1. browser \in BrowserEnd(Len(reqs))
      BY DEF RequestInv
    <3>2. browser.queue \in Tokens /\ browser.net \in Tokens
      BY <2>1, <3>1, PiecesAreTokens DEF BrowserEnd
    <3> QED BY <3>1, <3>2 DEF BrowserEnd
  <2>4. recvOutBuf \in Tokens
    BY <2>1, PiecesAreTokens DEF RequestInv
  <2>5. out \in [req : Nat, method : Verbs, size : Nat, chunked : BOOLEAN]
    BY <2>1 DEF RequestInv, Out
  <2>6. /\ website \in [host : Contacts, queue : Tokens, net : Tokens, open : BOOLEAN,
                       ending : BOOLEAN, todo : SUBSET Nat, hinted : Nat, said : Nat,
               got : Tokens]
        /\ sendOutBuf \in Tokens
    BY DEF WebsiteInv, WebsiteEnd
  <2>7. /\ recvInBuf \in Tokens /\ sendInBuf \in Tokens
        /\ in \in [resp : Nat, code : Values, headers : Tokens, size : Nat,
                   chunked : BOOLEAN, chain : BOOLEAN, dumped : BOOLEAN]
    BY DEF ResponseInv, In
  <2>8. /\ prevHost \in Contacts
        /\ owner \in [url : HostNames, https : BOOLEAN, contact : Contacts,
                      rdir : Filters, rdirHost : HostNames]
    BY DEF OwnerInv, Owner
  <2>9. /\ {brConn, brSecure, webConn, prevConnect, bRest, innerRest, valid} \subseteq BOOLEAN
        /\ {recvConnectionClose, sendConnectionClose} \subseteq BOOLEAN
    BY DEF FlagInv
  <2>10. /\ setting \in DOMAIN Settings /\ strays \in Nat /\ stalled \subseteq Sides /\ stop \subseteq Sides
         /\ outStep \in Steps /\ inStep \in Steps /\ pc \in Pcs /\ idle \in {"off", "on", "expired"}
    BY DEF PeerInv, StepInv
  <2>11. ret \in Returns /\ active \in Nat /\ connects \in Nat /\ redirectedIn \in 0..MaxRedirect
    BY DEF CountInv, ConnectsInv
  <2> QED BY <2>2, <2>3, <2>4, <2>5, <2>6, <2>7, <2>8, <2>9, <2>10, <2>11 DEF TypeOK
<1> QED BY DataHolds, <1>1, PTL
-----------------------------------------------------------------------------
(* What a tunnelled browser sends goes into a tunnel.  A connection to the  *)
(* remote proxy either has its CONNECT or is on the way to it: nothing can  *)
(* be sent on it before, because _ConnectWebsite has not returned.          *)

Linking == {"established", "viaProxy", "awaitProxy"}
AtProxy    == website.host = <<"proxy", FALSE>>

TunnelsInv ==
  /\ pc \in {"established", "viaProxy"} => website.got = <<>> /\ owner.contact = website.host
  /\ AtProxy /\ prevConnect =>
       \/ website.got # <<>> /\ website.got[1].k = "connect"
       \/ /\ website.got = <<>>
          /\ \/ pc \in {"established", "viaProxy", "raise", "gone"}
             \/ pc = "awaitProxy" /\ (~webConn \/ ~website.open \/ sendOutBuf # <<>>)

\* What a step leaves of what a website at the proxy has got.
Keeps ==
  AtProxy' => /\ AtProxy
              /\ website.got # <<>> => website'.got # <<>> /\ website'.got[1] = website.got[1]

LEMMA DisconnectedKeeps == website' = Disconnected => Keeps /\ ~AtProxy'
<1> SUFFICES ASSUME website' = Disconnected PROVE ~AtProxy'
  BY DEF Keeps
<1>1. website'.host = <<"-", FALSE>>
  BY DEF Disconnected
<1>2. <<"-", FALSE>>[1] # <<"proxy", FALSE>>[1]
  OBVIOUS
<1> QED BY <1>1, <1>2 DEF AtProxy

LEMMA SameKeeps ==
  website'.host = website.host /\ website'.got = website.got => Keeps
BY DEF Keeps, AtProxy

LEMMA SentKeeps ==
  ASSUME WebsiteInv, NEW buf \in Tokens, SendOut(buf)
  PROVE  Keeps
<1>1. CASE website' = website \/ website' = Disconnected
  BY <1>1, DisconnectedKeeps, SameKeeps
<1>2. CASE website' = [website EXCEPT !.got = @ \o buf, !.todo = @ \cup HeadsOf(buf)]
  <2>1. website.got \in Seq(Token) /\ buf \in Seq(Token)
    BY TokensDef DEF WebsiteInv, WebsiteEnd
  <2>2. website'.host = website.host /\ website'.got = website.got \o buf
    BY <1>2 DEF WebsiteInv, WebsiteEnd
  <2>3. ASSUME website.got # <<>>
        PROVE  website'.got # <<>> /\ website'.got[1] = website.got[1]
    BY <2>1, <2>2, <2>3, ConcatProperties, EmptySeq, LenProperties
  <2> QED BY <2>2, <2>3 DEF Keeps, AtProxy
<1> QED BY <1>1, <1>2 DEF SendOut, KeepWebsite

\* A step of the thread that is not about a new connection.
LEMMA KeptTunnels ==
  ASSUME TunnelsInv, Keeps, prevConnect' = prevConnect,
         pc \notin Linking \cup {"raise", "gone"}, pc' \notin Linking
  PROVE  TunnelsInv'
BY DEF TunnelsInv, Keeps, AtProxy, Linking

LEMMA EnvironmentKeeps ==
  ASSUME WebsiteInv, Environment
  PROVE  website'.host = website.host /\ website'.got = website.got
         /\ (website'.open => website.open)
<1> USE DEF WebsiteInv, WebsiteEnd
<1>1. CASE WebsiteAnswer \/ WebsiteTunnel
  BY <1>1 DEF WebsiteAnswer, WebsiteTunnel
<1>2. CASE WebsiteInterim \/ WebsiteStray
  BY <1>2 DEF WebsiteInterim, WebsiteStray
<1>3. CASE WebsiteSend \/ WebsiteClose
  BY <1>3 DEF WebsiteSend, WebsiteClose
<1>4. CASE BrowserRequest \/ BrowserTunnel \/ BrowserSend \/ BrowserClose
  BY <1>4 DEF BrowserRequest, BrowserTunnel, BrowserSend, BrowserClose
<1>5. CASE Stall \/ IdleExpire \/ SwitchToInvalid
  BY <1>5 DEF Stall, IdleExpire, SwitchToInvalid
<1> QED BY <1>1, <1>2, <1>3, <1>4, <1>5 DEF Environment

LEMMA TunnelsStep == DataInv /\ TunnelsInv /\ [Next]_vars => TunnelsInv'
<1> SUFFICES ASSUME DataInv, TunnelsInv, [Next]_vars PROVE TunnelsInv'
  OBVIOUS
<1>w. WebsiteInv /\ ret \in Returns /\ webConn \in BOOLEAN /\ sendOutBuf \in Tokens
  BY DEF DataInv, CountInv, FlagInv, WebsiteInv
<1>r. ret \notin Linking \cup {"raise", "gone"} /\ ConnectReturn \notin Linking \cup {"raise", "gone"}
  BY <1>w DEF Returns, Linking, ConnectReturn
<1> USE DEF envVars, socketVars, outBufs, inBufs
<1>1. CASE UNCHANGED vars \/ Terminated
  <2>1. UNCHANGED <<pc, website, owner, prevConnect, webConn, sendOutBuf>>
    BY <1>1 DEF vars, Terminated, dataVars
  <2> QED BY <2>1 DEF TunnelsInv, AtProxy
<1>2. CASE Environment
  <2>1. UNCHANGED <<pc, owner, prevConnect, webConn, sendOutBuf>>
    BY <1>2, EnvironmentLeavesThread DEF threadVars, dataVars
  <2>2. website'.host = website.host /\ website'.got = website.got /\ (website'.open => website.open)
    BY <1>2, <1>w, EnvironmentKeeps
  <2> QED BY <2>1, <2>2 DEF TunnelsInv, AtProxy
<1>3. CASE ManageLoop
  <2>1. CASE InnerSendOut
    <3>1. Keeps
      BY <2>1, <1>w, SentKeeps DEF InnerSendOut
    <3> QED BY <2>1, <3>1, KeptTunnels DEF InnerSendOut, Linking
  <2>2. CASE OuterReceive \/ OuterSend \/ InnerSendIn \/ InnerReceiveOut
    <3>1. Keeps
      BY <2>2, SameKeeps DEF OuterReceive, OuterSend, InnerSendIn, InnerReceiveOut
    <3> QED BY <2>2, <3>1, KeptTunnels DEF OuterReceive, OuterSend, InnerSendIn, InnerReceiveOut, Linking
  <2>3. CASE InnerReceiveIn \/ TrailReceive
    <3>1. website' = Disconnected \/ website' = [website EXCEPT !.net = <<>>]
      BY <2>3 DEF InnerReceiveIn, TrailReceive, ReceiveIn
    <3>2. Keeps
      BY <3>1, <1>w, SameKeeps, DisconnectedKeeps DEF WebsiteInv, WebsiteEnd
    <3> QED BY <2>3, <3>2, KeptTunnels DEF InnerReceiveIn, TrailReceive, Linking
  <2>4. CASE InnerEnd \/ OuterEnd
    <3>1. website' = Disconnected \/ website' = website
      BY <2>4 DEF InnerEnd, OuterEnd, JudgeIf, Judge, KeepWebsite
    <3>2. Keeps
      BY <3>1, SameKeeps, DisconnectedKeeps
    <3> QED BY <2>4, <3>2, KeptTunnels DEF InnerEnd, OuterEnd, Linking
  <2>5. CASE TrailFeed \/ TrailSend \/ Trail503
    <3>1. Keeps
      BY <2>5, SameKeeps DEF TrailFeed, TrailSend, Trail503
    <3> QED BY <2>5, <3>1, KeptTunnels DEF TrailFeed, TrailSend, Trail503, Linking
  <2>6. CASE Destroy
    <3>1. website' = Disconnected /\ pc' = "gone"
      BY <2>6 DEF Destroy, KeepWebsite
    <3> QED BY <3>1, DisconnectedKeeps DEF TunnelsInv
  <2> QED BY <1>3, <2>1, <2>2, <2>3, <2>4, <2>5, <2>6 DEF ManageLoop
<1>4. CASE ProcessOut
  <2>1. CASE OutFinish
    <3>1. website' = Disconnected \/ website' = website
      BY <2>1 DEF OutFinish, EndExchange, KeepWebsite
    <3>2. Keeps
      BY <3>1, SameKeeps, DisconnectedKeeps
    <3> QED BY <2>1, <3>2, KeptTunnels DEF OutFinish, Linking
  <2>2. CASE OutDecode
    <3>1. website' = website /\ prevConnect' = prevConnect /\ pc' \in {"outSend", "connect"} /\ pc = "procOut"
      BY <2>2 DEF OutDecode
    <3> QED BY <3>1, SameKeeps, KeptTunnels DEF Linking
  <2>3. CASE OutReturn \/ OutStart \/ OutFirstLine \/ OutHeaders \/ OutDecodeBad
    <3>1. /\ website' = website /\ prevConnect' = prevConnect
          /\ pc' \in {ret, "procOut", "raise"} /\ pc = "procOut"
      BY <2>3 DEF OutReturn, OutStart, OutFirstLine, OutHeaders, OutDecodeBad
    <3> QED BY <3>1, <1>r, SameKeeps, KeptTunnels DEF Linking
  <2>4. CASE OutSend \/ OutChunk \/ OutRaw \/ OutTunneling
    <3>1. /\ website' = website /\ prevConnect' = prevConnect
          /\ pc' \in {ret, "procOut"} /\ pc \in {"procOut", "outSend"}
      BY <2>4 DEF OutSend, OutChunk, OutRaw, OutTunneling
    <3> QED BY <3>1, <1>r, SameKeeps, KeptTunnels DEF Linking
  <2> QED BY <1>4, <2>1, <2>2, <2>3, <2>4 DEF ProcessOut
<1>5. CASE ConnectWebsite
  <2>1. CASE ConnectFlush
    <3>1. website' \in {Disconnected, website, [website EXCEPT !.net = <<>>]}
      BY <2>1 DEF ConnectFlush, KeepWebsite
    <3>2. Keeps
      BY <3>1, <1>w, SameKeeps, DisconnectedKeeps DEF WebsiteInv, WebsiteEnd
    <3> QED BY <2>1, <3>2, KeptTunnels DEF ConnectFlush, Linking
  <2>2. CASE LocalAnswer \/ ApiAnswer \/ LocalTls
    <3>1. /\ website' = website /\ prevConnect' = prevConnect
          /\ pc' \in {ConnectReturn, "awaitLocal", "raise"} /\ pc = "route"
      BY <2>2 DEF LocalAnswer, ApiAnswer, LocalTls
    <3> QED BY <3>1, <1>r, SameKeeps, KeptTunnels DEF Linking
  <2>3. CASE AwaitLine \/ AwaitLocal \/ LocalSecure
    <3>1. /\ website' = website /\ prevConnect' = prevConnect
          /\ pc' \in {ConnectReturn, "awaitLocal", "raise"} /\ pc \in {"awaitLocal", "route"}
      BY <2>3 DEF AwaitLine, AwaitLocal, LocalSecure, SecurePage
    <3> QED BY <3>1, <1>r, SameKeeps, KeptTunnels DEF Linking
  <2>4. CASE Jump \/ Rdir \/ ConnectReuse
    <3>1. /\ website' = website /\ prevConnect' = prevConnect
          /\ pc' \in {ConnectReturn, "route", "resend"} /\ pc = "route"
      BY <2>4 DEF Jump, Rdir, ConnectReuse, ToWebsite
    <3> QED BY <3>1, <1>r, SameKeeps, KeptTunnels DEF Linking
  <2>5. CASE ConnectFail
    <3>1. website' = Disconnected /\ pc' = ConnectReturn
      BY <2>5 DEF ConnectFail, KeepWebsite
    <3> QED BY <3>1, <1>r, DisconnectedKeeps DEF TunnelsInv, Linking
  <2>6. CASE ConnectOpen
    <3>1. website' = [Disconnected EXCEPT !.open = TRUE, !.host = Target] /\ pc' \in {"established", "viaProxy"}
      BY <2>6 DEF ConnectOpen
    <3>2. website'.got = <<>> /\ website'.host = Target
      BY <3>1 DEF Disconnected
    <3>3. owner'.contact = Target
      BY <2>6, <1>w DEF ConnectOpen, DataInv, OwnerInv, Owner
    <3> QED BY <3>1, <3>2, <3>3 DEF TunnelsInv
  <2>7. CASE Established
    <3>1. pc = "established" /\ pc' = "viaProxy" /\ website' = website /\ owner' = owner
      BY <2>7 DEF Established, dataVars
    <3> QED BY <3>1 DEF TunnelsInv, AtProxy
  <2>8. CASE ViaProxy
    <3>1. /\ website.got = <<>> /\ owner.contact = website.host /\ pc = "viaProxy"
          /\ prevConnect' = prevConnect
      BY <2>8 DEF ViaProxy, TunnelsInv
    <3>2. CASE ~NeedsConnect
      <4>1. owner.url # "proxy"
        BY SettingOK DEF DataInv, PeerInv, OwnerInv, Owner
      <4>2. ~(AtProxy /\ prevConnect)
        <5>1. <<"proxy", FALSE>>[1] # <<owner.url, owner.https>>[1]
          BY <4>1
        <5>2. <<"proxy", FALSE>> # <<owner.url, owner.https>>
          BY <5>1
        <5> QED BY <3>1, <3>2, <5>2 DEF NeedsConnect, AtProxy
      <4>3. website' = website /\ pc' = "tls"
        BY <2>8, <3>2 DEF ViaProxy
      <4> QED BY <3>1, <4>2, <4>3 DEF TunnelsInv, AtProxy
    <3>3. CASE NeedsConnect
      <4> DEFINE call == <<Tok("connect", out.req, "-")>>
      <4>1. pc' = "awaitProxy" /\ SendOut(call)
        BY <2>8, <3>3 DEF ViaProxy
      <4>2. call # <<>> /\ call[1].k = "connect" /\ call \o <<>> = call /\ <<>> \o call = call
        BY DEF Tok
      <4> HIDE DEF call
      <4>3. CASE ~webConn \/ ~website.open
        <5>1. \/ website' = Disconnected
              \/ website' = website /\ (~webConn' \/ ~website'.open)
          BY <4>1, <4>2, <4>3 DEF SendOut, KeepWebsite
        <5> QED BY <3>1, <4>1, <5>1, DisconnectedKeeps DEF TunnelsInv
      <4>4. CASE webConn /\ website.open
        <5>1. \/ website' = [website EXCEPT !.got = @ \o call, !.todo = @ \cup HeadsOf(call)]
              \/ website' = Disconnected
          BY <4>1, <4>2, <4>4 DEF SendOut, KeepWebsite
        <5>2. website' # Disconnected => website'.got = call
          BY <3>1, <4>2, <5>1, <1>w DEF WebsiteInv, WebsiteEnd
        <5> QED BY <4>1, <4>2, <5>1, <5>2, DisconnectedKeeps DEF TunnelsInv
      <4> QED BY <4>3, <4>4
    <3> QED BY <3>2, <3>3
  <2>9. CASE AwaitProxy
    <3>1. pc = "awaitProxy" /\ prevConnect' = prevConnect
      BY <2>9 DEF AwaitProxy
    <3>2. CASE website' = website /\ website.open /\ website.got # <<>>
      <4>1. pc' \in {"tls", "raise"}
        BY <2>9, <3>2 DEF AwaitProxy
      <4> QED BY <3>1, <3>2, <4>1 DEF TunnelsInv, AtProxy
    <3>3. CASE website' = Disconnected
      <4>1. pc' \in {"tls", "raise"}
        BY <2>9 DEF AwaitProxy
      <4> QED BY <3>3, <4>1, DisconnectedKeeps DEF TunnelsInv
    <3>4. \/ website' = website /\ website.open /\ website.got # <<>>
          \/ website' = Disconnected
      BY <2>9 DEF AwaitProxy, KeepWebsite
    <3> QED BY <3>2, <3>3, <3>4
  <2>10. CASE Tls
    <3>1. website' \in {website, Disconnected} /\ prevConnect' = prevConnect /\ pc = "tls" /\ pc' = "resend"
      BY <2>10 DEF Tls, KeepWebsite
    <3> QED BY <3>1, SameKeeps, DisconnectedKeeps, KeptTunnels DEF Linking
  <2>11. CASE Resend
    <3>1. pc = "resend" /\ pc' = ConnectReturn /\ prevConnect' = prevConnect
      BY <2>11 DEF Resend
    <3>2. Keeps
      <4>1. CASE website' = website
        BY <4>1, SameKeeps
      <4>2. CASE SendOut(<<Tok("qhead", out.req, "simple")>>)
        <5>1. <<Tok("qhead", out.req, "simple")>> \in Tokens
          <6>1. out.req \in Nat
            BY LenProperties DEF DataInv, RequestInv, Out
          <6>2. Tok("qhead", out.req, "simple") \in Token
            BY <6>1, TokenOK DEF Kinds, Values
          <6> QED BY <6>2, TokensDef
        <5> QED BY <4>2, <5>1, <1>w, SentKeeps
      <4> QED BY <2>11, <4>1, <4>2 DEF Resend
    <3> QED BY <3>1, <3>2, <1>r, KeptTunnels DEF Linking
  <2>12. CASE InRedirected
    <3>1. website' = website /\ prevConnect' = prevConnect /\ pc = "inRedirected" /\ pc' = "procIn"
      BY <2>12 DEF InRedirected
    <3> QED BY <3>1, SameKeeps, KeptTunnels DEF Linking
  <2> QED BY <1>5, <2>1, <2>2, <2>3, <2>4, <2>5, <2>6, <2>7, <2>8, <2>9, <2>10, <2>11, <2>12
        DEF ConnectWebsite
<1>6. CASE ProcessIn
  <2>1. /\ website' \in {website, Disconnected} /\ prevConnect' = prevConnect /\ pc = "procIn"
        /\ pc' \in {ret, "procIn", "connect", "raise"}
    <3>1. CASE InReturn \/ InStart \/ InFirstLine \/ InGarbage \/ InHeaders \/ InDecodeBad
      BY <3>1 DEF InReturn, InStart, InFirstLine, InGarbage, InHeaders, InDecodeBad
    <3>2. CASE InDecode
      BY <3>2 DEF InDecode, Relay
    <3>3. CASE InChunk \/ InTunneling
      BY <3>3 DEF InChunk, InTunneling
    <3>4. CASE InRaw
      BY <3>4 DEF InRaw, KeepWebsite
    <3>5. CASE InFinish
      BY <3>5 DEF InFinish, EndExchange, KeepWebsite
    <3> QED BY <1>6, <3>1, <3>2, <3>3, <3>4, <3>5 DEF ProcessIn
  <2> QED BY <2>1, <1>r, SameKeeps, DisconnectedKeeps, KeptTunnels DEF Linking
<1> QED BY <1>1, <1>2, <1>3, <1>4, <1>5, <1>6 DEF Next, Thread

\* For any hosts, filters, responses and bounds: a connection to a remote proxy
\* that carries what a tunnelled browser sends begins with the CONNECT.
THEOREM ProxyTunnelsHolds == Spec => []ProxyTunnels
<1>1. Init => TunnelsInv
  BY DEF Init, TunnelsInv, AtProxy, Disconnected
<1>2. TunnelsInv => ProxyTunnels
  BY DEF TunnelsInv, ProxyTunnels, AtProxy
<1> QED BY DataInit, DataStep, TunnelsStep, <1>1, <1>2, PTL DEF Spec

-----------------------------------------------------------------------------
(* The count of active requests, exactly.                                  *)

\* The proxy plays the TLS server for the browser.  Only then does a machine go
\* back to STEP_START without ending an exchange (OutTunneling, InTunneling,
\* and OutDecode, which takes inStep there), so only then can the count come to
\* rest above zero.
\* (Or it shows the browser pages of local.ptron in the place of a website's.)
Intercepts ==
  SSLFilter /\ ("CONNECT" \in Methods \/ (Local \in Hosts /\ OutFilters \cap {"jump", "rdir"} # {}))

\* Where owner.rdir may hold a redirection that was not made yet.
Redirecting == {"connect", "route"}

\* _ConnectWebsite sets inStep to STEP_FINISH, which would raise what is under
\* way, and STEP_START, which would lower it: it does so only while the request is
\* being decoded, because without incoming filters nothing else asks for it.
ExactInv ==
  /\ brSecure = FALSE /\ pc # "awaitLocal"
  /\ SSLFilter => out.method # "CONNECT" /\ (owner.https => owner.url # Local)
  /\ owner.rdir \in {"jump", "rdir"} => owner.rdir \in OutFilters /\ owner.rdirHost \in Hosts
  /\ owner.rdir # "none" => pc \in Redirecting
  /\ pc \in Connecting => outStep = "DECODE"
  /\ active = IF pc # "gone" /\ (outStep # "START" \/ inStep # "START") THEN 1 ELSE 0
PlainInv == InFilters = {"none"} /\ ~Intercepts => ExactInv

LEMMA ExactInit == Init => ExactInv
<1> SUFFICES ASSUME Init PROVE ExactInv
  OBVIOUS
<1>1. /\ brSecure = FALSE /\ pc = "outerReceive" /\ out.method = "GET" /\ owner.https = FALSE
      /\ owner.rdir = "none" /\ outStep = "START" /\ inStep = "START" /\ active = 0
  BY DEF Init
<1> QED BY <1>1 DEF ExactInv, Connecting

\* What decoding a request puts into the CFilterOwner.
LEMMA ExactDecode ==
  ASSUME ExactInv, DataInv, OutDecode
  PROVE  /\ owner'.rdir \in {"jump", "rdir"} => owner'.rdir \in OutFilters /\ owner'.rdirHost \in Hosts
         /\ owner'.https = (out.method = "CONNECT")
         /\ inStep' = inStep
         /\ pc' = "connect"
<1>1. brSecure = FALSE
  BY DEF ExactInv
<1> DEFINE host  == IF brSecure THEN owner.url ELSE reqs[out.req].h
           https == brSecure \/ out.method = "CONNECT"
<1>2. PICK f \in (IF host = Local THEN {"none"} ELSE OutFilters) :
        \E h \in (IF f \in {"jump", "rdir", "rewrite"} THEN Hosts ELSE {owner.rdirHost}) :
          LET url  == IF f = "rewrite" THEN h ELSE host
              rdir == IF f = "rewrite" \/ (out.method = "CONNECT" /\ f # "killed") THEN "none" ELSE f
              keep == brSecure /\ f # "killed"
          IN /\ owner' = [url |-> url, https |-> https, contact |-> <<url, https>>,
                          rdir |-> rdir, rdirHost |-> h]
             /\ inStep' = IF keep THEN "START" ELSE inStep
             /\ pc' = IF keep /\ prevHost = <<url, https>> /\ rdir = "none"
                      THEN "outSend" ELSE "connect"
  BY ZenonT(40) DEF OutDecode
<1>3. PICK h \in (IF f \in {"jump", "rdir", "rewrite"} THEN Hosts ELSE {owner.rdirHost}) :
          LET url  == IF f = "rewrite" THEN h ELSE host
              rdir == IF f = "rewrite" \/ (out.method = "CONNECT" /\ f # "killed") THEN "none" ELSE f
              keep == brSecure /\ f # "killed"
          IN /\ owner' = [url |-> url, https |-> https, contact |-> <<url, https>>,
                          rdir |-> rdir, rdirHost |-> h]
             /\ inStep' = IF keep THEN "START" ELSE inStep
             /\ pc' = IF keep /\ prevHost = <<url, https>> /\ rdir = "none"
                      THEN "outSend" ELSE "connect"
  BY <1>2
<1>4. f \in {"jump", "rdir"} => f \in OutFilters /\ h \in Hosts
  BY <1>2, <1>3
<1>5. owner'.rdirHost = h /\ (owner'.rdir \in {"jump", "rdir"} => f = owner'.rdir)
  BY <1>3
<1>6. owner'.https = (brSecure \/ out.method = "CONNECT")
  BY <1>3
<1>7. inStep' = inStep /\ pc' = "connect"
  BY <1>1, <1>3
<1> QED BY <1>1, <1>4, <1>5, <1>6, <1>7

LEMMA ExactConnect ==
  ASSUME ~Intercepts, ExactInv, DataInv, ConnectWebsite
  PROVE  ExactInv'
<1> USE DEF socketVars, stepVars, dataVars, countVars
<1>s. /\ UNCHANGED <<setting, SSLFilter, OutFilters, Hosts>>
      /\ SSLFilter \in BOOLEAN
  <2>1. [Next]_vars
    BY DEF Next, Thread
  <2>2. setting' = setting
    BY <2>1, SettingStays
  <2> QED BY <2>2, SettingOK DEF SSLFilter, OutFilters, Hosts, DataInv, PeerInv
<1>d. /\ pc \in Connecting /\ outStep = "DECODE" /\ active = 1 /\ ConnectReturn = "outSend"
  <2>1. pc \in Connecting
    BY DEF ConnectWebsite, ConnectFlush, LocalAnswer, ApiAnswer, LocalTls, AwaitLine, AwaitLocal, LocalSecure, SecurePage,
        Jump, Rdir, ConnectReuse, ConnectFail, ConnectOpen, Established, ViaProxy, AwaitProxy, Tls,
        Resend, InRedirected, ToWebsite, Connecting
  <2> QED BY <2>1 DEF ExactInv, ConnectReturn, Connecting
<1>o. owner \in Owner /\ ~(SSLFilter /\ owner.https /\ owner.url = Local)
  BY DEF DataInv, OwnerInv, ExactInv
<1>n. ~LocalTls /\ ~LocalSecure /\ ~AwaitLine /\ ~AwaitLocal /\ ~InRedirected
  <2>1. ~FromTls
    BY <1>o DEF FromTls, ToLocal, Intercepts, ExactInv
  <2> QED BY <2>1, <1>d DEF LocalTls, LocalSecure, AwaitLine, AwaitLocal, InRedirected, ExactInv,
          ConnectsInv, DataInv
<1> SUFFICES /\ UNCHANGED <<brSecure, out, outStep, active>>
             /\ pc' \notin {"awaitLocal", "gone", "inRedirected"}
             /\ SSLFilter => (owner'.https => owner'.url # Local)
             /\ owner'.rdir \in {"jump", "rdir"} => owner'.rdir \in OutFilters /\ owner'.rdirHost \in Hosts
             /\ owner'.rdir # "none" => pc' \in Redirecting
  BY <1>d, <1>s DEF ExactInv
<1>1. CASE ConnectFlush
  BY <1>1, <1>o DEF ConnectFlush, ExactInv, Redirecting
<1>2. CASE LocalAnswer \/ ApiAnswer \/ Jump
  <2>1. owner' = [owner EXCEPT !.rdir = "none"] /\ pc' = ConnectReturn
    BY <1>2 DEF LocalAnswer, ApiAnswer, Jump
  <2>2. UNCHANGED <<brSecure, out, outStep, active>>
    BY <1>2 DEF LocalAnswer, ApiAnswer, Jump
  <2> QED BY <2>1, <2>2, <1>d, <1>o DEF Owner
<1>3. CASE Rdir
  <2>1. PICK b \in BOOLEAN :
          (owner.rdirHost = Local => ~SSLFilter) /\ owner' = [owner EXCEPT !.url = owner.rdirHost, !.https = b,
                                 !.contact = <<owner.rdirHost, b>>, !.rdir = "none"]
    BY <1>3 DEF Rdir
  <2>2. owner'.url = owner.rdirHost /\ owner'.rdir = "none" /\ owner.rdir = "rdir"
    BY <2>1, <1>3, <1>o DEF Owner, Rdir
  <2>3. UNCHANGED <<brSecure, out, outStep, active, pc>> /\ pc = "route"
    BY <1>3 DEF Rdir
  <2> QED BY <2>1, <2>2, <2>3 DEF ExactInv
<1>4. CASE ConnectReuse \/ ConnectFail \/ ConnectOpen
  <2>1. owner.rdir = "none" /\ owner' = [owner EXCEPT !.contact = Target]
    BY <1>4 DEF ConnectReuse, ConnectFail, ConnectOpen, ToWebsite
  <2>2. UNCHANGED <<brSecure, out, outStep, active>>
    BY <1>4 DEF ConnectReuse, ConnectFail, ConnectOpen
  <2>3. pc' \in {"resend", "established", "viaProxy", "outSend"}
    BY <1>4, <1>d DEF ConnectReuse, ConnectFail, ConnectOpen
  <2> QED BY <2>1, <2>2, <2>3, <1>o DEF Owner
<1>5. CASE Established \/ ViaProxy \/ AwaitProxy \/ Resend
  <2>1. /\ UNCHANGED <<brSecure, out, outStep, active, owner>>
        /\ pc \in {"established", "viaProxy", "awaitProxy", "resend"}
    BY <1>5 DEF Established, ViaProxy, AwaitProxy, Resend
  <2>2. pc' \in {"viaProxy", "awaitProxy", "tls", "raise", "outSend"}
    BY <1>5, <1>d DEF Established, ViaProxy, AwaitProxy, Resend
  <2> QED BY <2>1, <2>2, <1>o DEF ExactInv, Redirecting
<1>6. CASE Tls
  <2>1. /\ UNCHANGED <<out, outStep, active, owner>>
        /\ pc = "tls" /\ pc' = "resend"
    BY <1>6 DEF Tls
  <2>2. brSecure' = brSecure
    BY <1>6 DEF Tls, ExactInv
  <2> QED BY <2>1, <2>2, <1>o DEF ExactInv, Redirecting
<1> QED BY <1>1, <1>2, <1>3, <1>4, <1>5, <1>6, <1>n DEF ConnectWebsite

LEMMA ExactStep ==
  ASSUME InFilters = {"none"}, ~Intercepts, ExactInv, DataInv, [Next]_vars
  PROVE  ExactInv'
<1> USE DEF stepVars, dataVars, socketVars, countVars
<1>s. UNCHANGED <<setting, SSLFilter, OutFilters, Hosts>>
  BY SettingStays DEF SSLFilter, OutFilters, Hosts
<1>r. ret \in Returns /\ active \in Nat
  BY DEF DataInv, CountInv
<1>c. pc \in {"procOut", "procIn"} \cup Resting => pc \notin Connecting \cup Redirecting
  BY DEF Connecting, Redirecting, Resting
<1>p. Returns \cap (Connecting \cup {"gone", "awaitLocal"}) = {}
  BY DEF Returns, Connecting
\* A step that touches neither the count nor what it counts.
<1>e. ASSUME UNCHANGED <<brSecure, out, owner, outStep, inStep, active>>,
             pc \notin Connecting \cup {"gone"}, pc' \notin Connecting \cup {"gone", "awaitLocal"}
      PROVE  ExactInv'
  <2>1. owner.rdir = "none"
    BY <1>e DEF ExactInv, Connecting, Redirecting
  <2> QED BY <1>e, <1>s, <2>1 DEF ExactInv
\* One that moves a machine on between its first step and its last.
<1>m. ASSUME UNCHANGED <<brSecure, owner, active>>, out'.method = out.method,
             outStep # "START" \/ inStep # "START", outStep' # "START" \/ inStep' # "START",
             pc \notin Connecting \cup {"gone"}, pc' \notin Connecting \cup {"gone", "awaitLocal"}
      PROVE  ExactInv'
  <2>1. owner.rdir = "none"
    BY <1>m DEF ExactInv, Connecting, Redirecting
  <2> QED BY <1>m, <1>s, <2>1 DEF ExactInv
<1>1. CASE UNCHANGED vars
  BY <1>1, <1>s DEF vars, ExactInv
<1>2. CASE Terminated
  BY <1>2, <1>s DEF Terminated, vars, ExactInv
<1>3. CASE Environment
  <2>1. UNCHANGED threadVars
    BY <1>3, EnvironmentLeavesThread
  <2> QED BY <2>1, <1>s DEF threadVars, ExactInv
<1>4. CASE ManageLoop
  <2>1. CASE Destroy
    <3>1. UNCHANGED <<brSecure, out, owner, outStep, inStep>> /\ pc' = "gone"
      BY <2>1 DEF Destroy
    <3>2. pc \in {"outerReceive", "raise"}
      BY <2>1 DEF Destroy
    <3>3. active' = 0
      BY <2>1, <3>2 DEF Destroy, ExactInv
    <3> QED BY <3>1, <3>2, <3>3, <1>s DEF ExactInv, Redirecting, Connecting
  <2>2. CASE TrailFeed
    <3>1. UNCHANGED <<brSecure, out, owner, outStep, active>> /\ pc = "trailFeed"
      BY <2>2 DEF TrailFeed
    <3>2. pc' \notin Connecting \cup {"gone", "awaitLocal"}
      BY <2>2 DEF TrailFeed, Connecting
    <3>3. inStep' = inStep \/ (inStep # "START" /\ inStep' = "FINISH")
      BY <2>2 DEF TrailFeed
    <3> QED BY <3>1, <3>2, <3>3, <1>e, <1>m DEF Connecting
  <2>3. CASE \/ OuterReceive \/ OuterSend \/ InnerSendOut \/ InnerReceiveIn \/ InnerSendIn
             \/ InnerReceiveOut \/ InnerEnd \/ TrailReceive \/ TrailSend \/ Trail503 \/ OuterEnd
    <3>1. UNCHANGED <<brSecure, out, owner, outStep, inStep, active>> /\ pc \in Resting
      BY <2>3 DEF OuterReceive, OuterSend, InnerSendOut, InnerReceiveIn, InnerSendIn,
          InnerReceiveOut, InnerEnd, TrailReceive, TrailSend, Trail503, OuterEnd, Resting
    <3>2. pc' \notin Connecting \cup {"gone", "awaitLocal"}
      BY <2>3 DEF OuterReceive, OuterSend, InnerSendOut, InnerReceiveIn, InnerSendIn,
          InnerReceiveOut, InnerEnd, TrailReceive, TrailSend, Trail503, OuterEnd, Connecting
    <3>3. pc \notin Connecting \cup {"gone"}
      BY <3>1 DEF Resting, Connecting
    <3> QED BY <3>1, <3>2, <3>3, <1>e
  <2> QED BY <1>4, <2>1, <2>2, <2>3 DEF ManageLoop
<1>5. CASE ProcessOut
  <2> USE DEF Connecting, Redirecting
  <2>1. CASE OutReturn \/ OutDecodeBad
    BY <2>1, <1>e, <1>r, <1>p DEF OutReturn, OutDecodeBad
  <2>2. CASE OutStart
    <3>1. /\ pc = "procOut" /\ pc' = pc /\ UNCHANGED <<brSecure, out, inStep>>
          /\ outStep = "START" /\ outStep' = "FIRSTLINE" /\ active' = 1
      BY <2>2 DEF OutStart, NewlyActive, ExactInv
    <3>2. owner' = [owner EXCEPT !.contact = <<"-", FALSE>>, !.rdir = "none"] /\ owner \in Owner
      BY <2>2 DEF OutStart, DataInv, OwnerInv
    <3>3. owner'.rdir = "none" /\ owner'.https = owner.https /\ owner'.url = owner.url
      BY <3>2 DEF Owner
    <3> QED BY <3>1, <3>3, <1>s DEF ExactInv
  <2>3. CASE OutFirstLine
    <3>1. /\ pc = "procOut" /\ pc' = pc /\ UNCHANGED <<brSecure, owner, inStep, active>>
          /\ outStep = "FIRSTLINE" /\ outStep' = "HEADERS"
          /\ out'.method = reqs[Head(recvOutBuf).r].m /\ recvOutBuf # <<>>
      BY <2>3 DEF OutFirstLine, NextIs
    <3>2. Head(recvOutBuf).r \in 1..Len(reqs) /\ reqs \in Seq(Request)
      <4>1. Head(recvOutBuf) \in Piece(Len(reqs))
        BY <3>1, HeadTailProperties DEF DataInv, RequestInv
      <4> QED BY <4>1 DEF DataInv, RequestInv, Piece
    <3>3. reqs[Head(recvOutBuf).r] \in Request
      BY <3>2, ElementOfSeq
    <3>4. out'.method \in Methods \cup {"tun"}
      BY <3>1, <3>3 DEF Request
    <3>5. SSLFilter => out'.method # "CONNECT"
      BY <3>4 DEF Intercepts
    <3> QED BY <3>1, <3>5, <1>s DEF ExactInv
  <2>4. CASE OutDecode
    <3>1. /\ owner'.rdir \in {"jump", "rdir"} => owner'.rdir \in OutFilters /\ owner'.rdirHost \in Hosts
          /\ owner'.https = (out.method = "CONNECT")
          /\ inStep' = inStep /\ pc' = "connect"
      BY <2>4, ExactDecode
    <3>2. /\ UNCHANGED <<brSecure, outStep, active>> /\ outStep = "DECODE" /\ pc = "procOut"
          /\ out'.method = out.method
      <4>1. out' = [out EXCEPT !.chunked = (reqs[out.req].b = "chunk"),
                               !.size = IF reqs[out.req].b = "len" THEN 2 ELSE 0]
        BY <2>4 DEF OutDecode
      <4>2. out \in Out(Len(reqs))
        BY DEF DataInv, RequestInv
      <4>3. out'.method = out.method
        BY <4>1, <4>2 DEF Out
      <4> QED BY <2>4, <4>3 DEF OutDecode
    <3>3. active = 1 /\ brSecure = FALSE /\ (SSLFilter => out.method # "CONNECT")
      BY <3>2 DEF ExactInv
    <3> QED BY <3>1, <3>2, <3>3, <1>s DEF ExactInv
  <2>5. CASE OutSend
    <3>1. /\ UNCHANGED <<brSecure, owner, inStep, active, out>> /\ pc = "outSend"
          /\ outStep' \in {"TUNNELING", "FINISH", "CHUNK", "RAW"}
      BY <2>5 DEF OutSend
    <3>2. pc' \in {ret, "procOut"}
      BY <2>5 DEF OutSend
    <3>3. pc' \notin Connecting \cup {"gone", "awaitLocal"}
      BY <3>2, <1>r, <1>p
    <3> QED BY <3>1, <3>3, <1>s DEF ExactInv
  <2>6. CASE OutHeaders \/ OutChunk \/ OutRaw
    <3>1. /\ UNCHANGED <<brSecure, owner, active, inStep>> /\ pc = "procOut" /\ pc' = pc
          /\ outStep # "START" /\ outStep' # "START"
      BY <2>6 DEF OutHeaders, OutChunk, OutRaw
    <3>2. out'.method = out.method
      <4>1. out \in Out(Len(reqs))
        BY DEF DataInv, RequestInv
      <4>2. out' = out \/ \E n : out' = [out EXCEPT !.size = n]
        BY <2>6 DEF OutHeaders, OutChunk, OutRaw
      <4> QED BY <4>1, <4>2 DEF Out
    <3> QED BY <3>1, <3>2, <1>m
  <2>7. CASE OutTunneling
    <3>1. /\ UNCHANGED <<brSecure, owner, active, inStep, out, outStep>>
          /\ pc = "procOut" /\ pc' = ret
      BY <2>7 DEF OutTunneling, ExactInv
    <3> QED BY <3>1, <1>e, <1>r, <1>p
  <2>8. CASE OutFinish
    <3>1. /\ UNCHANGED <<brSecure, owner, out>> /\ pc = "procOut" /\ pc' = pc
          /\ outStep = "FINISH" /\ outStep' = "START" /\ inStep' = "START" /\ active' = active - 1
      BY <2>8 DEF OutFinish, EndExchange
    <3>2. active = 1
      BY <3>1 DEF ExactInv
    <3> QED BY <3>1, <3>2, <1>s DEF ExactInv
  <2> QED BY <1>5, <2>1, <2>2, <2>3, <2>4, <2>5, <2>6, <2>7, <2>8 DEF ProcessOut
<1>6. CASE ConnectWebsite
  BY <1>6, ExactConnect
<1>7. CASE ProcessIn
  <2> USE DEF Connecting, Redirecting
  <2>1. CASE InReturn \/ InDecodeBad
    <3>1. /\ UNCHANGED <<brSecure, out, owner, outStep, inStep, active>> /\ pc = "procIn"
          /\ pc' \in {ret, "raise"}
      BY <2>1 DEF InReturn, InDecodeBad
    <3> QED BY <3>1, <1>e, <1>r, <1>p
  <2>2. CASE InStart
    <3>1. /\ UNCHANGED <<brSecure, out, owner, outStep>> /\ pc = "procIn" /\ pc' = pc
          /\ inStep = "START" /\ inStep' = "FIRSTLINE" /\ active' = 1
      BY <2>2 DEF InStart, NewlyActive, ExactInv
    <3> QED BY <3>1, <1>s DEF ExactInv
  <2>3. CASE InFirstLine \/ InGarbage \/ InHeaders \/ InChunk \/ InRaw
    <3>1. /\ UNCHANGED <<brSecure, out, owner, outStep, active>> /\ pc = "procIn" /\ pc' = pc
          /\ inStep # "START" /\ inStep' # "START"
      BY <2>3 DEF InFirstLine, InGarbage, InHeaders, InChunk, InRaw
    <3> QED BY <3>1, <1>m
  <2>4. CASE InDecode
    <3>1. owner.rdir = "none" /\ owner \in Owner /\ pc = "procIn" /\ inStep = "DECODE"
      BY <2>4 DEF InDecode, ExactInv, DataInv, OwnerInv
    <3>2. PICK f \in InFilters :
            \E h \in (IF f \in {"jump", "rdir"} THEN Hosts ELSE {owner.rdirHost}), chain \in Chains :
             LET rdir    == IF f = "none" THEN owner.rdir ELSE f
                 decoded == [in EXCEPT !.chunked = @ \/ (Says({"chunk"}) /\ out.method # "HEAD"),
                                       !.size = BodySize]
             IN /\ owner' = [owner EXCEPT !.rdir = rdir, !.rdirHost = h]
                /\ IF rdir # "none" /\ redirectedIn < MaxRedirect
                   THEN /\ pc' = "connect" /\ in' = decoded
                        /\ UNCHANGED <<stepVars, sendInBuf, sendConnectionClose>>
                   ELSE Relay([decoded EXCEPT !.chain = chain /\ ContentType, !.dumped = FALSE])
      BY <2>4, ZenonT(40) DEF InDecode
    <3>3. f = "none"
      BY <3>2
    <3>4. PICK i : owner' = [owner EXCEPT !.rdir = owner.rdir, !.rdirHost = owner.rdirHost] /\ Relay(i)
      BY <3>1, <3>2, <3>3
    <3>5. owner' = owner
      BY <3>1, <3>4 DEF Owner
    <3>6. pc' = pc /\ inStep' # "START"
      BY <3>4 DEF Relay
    <3>7. UNCHANGED <<brSecure, out, active>>
      BY <2>4 DEF InDecode
    <3> QED BY <3>1, <3>5, <3>6, <3>7, <1>m
  <2>5. CASE InTunneling
    <3>1. /\ UNCHANGED <<brSecure, owner, active, inStep, out, outStep>>
          /\ pc = "procIn" /\ pc' = ret
      BY <2>5 DEF InTunneling, ExactInv
    <3> QED BY <3>1, <1>e, <1>r, <1>p
  <2>6. CASE InFinish
    <3>1. /\ UNCHANGED <<brSecure, owner, out>> /\ pc = "procIn" /\ pc' = pc
          /\ inStep = "FINISH" /\ outStep' = "START" /\ inStep' = "START" /\ active' = active - 1
      BY <2>6 DEF InFinish, EndExchange
    <3>2. active = 1
      BY <3>1 DEF ExactInv
    <3> QED BY <3>1, <3>2, <1>s DEF ExactInv
  <2> QED BY <1>7, <2>1, <2>2, <2>3, <2>4, <2>5, <2>6 DEF ProcessIn
<1> QED BY <1>1, <1>2, <1>3, <1>4, <1>5, <1>6, <1>7 DEF Next, Thread

\* For any browser, website and outgoing filters, unless the proxy plays the TLS
\* server or answers in the place of one: increments and decrements match, so the
\* count is exactly 1 during an exchange and 0 otherwise, also after the manager is
\* destroyed in the middle of one.
THEOREM ActiveCountHolds == Spec => [](~Intercepts => ActiveCount)
<1>1. Init => PlainInv
  BY ExactInit DEF PlainInv
<1>2. DataInv /\ PlainInv /\ [Next]_vars => PlainInv'
  <2> SUFFICES ASSUME DataInv, PlainInv, [Next]_vars, InFilters' = {"none"}, ~Intercepts'
               PROVE  ExactInv'
    BY DEF PlainInv
  <2>1. InFilters = {"none"} /\ ~Intercepts
    BY SettingStays DEF InFilters, OutFilters, Intercepts, SSLFilter, Methods, Hosts
  <2> QED BY <2>1, ExactStep DEF PlainInv
<1>3. PlainInv => (~Intercepts => ActiveCount)
  BY DEF PlainInv, ExactInv, ActiveCount
<1> QED BY <1>1, <1>2, <1>3, DataHolds, PTL DEF Spec

=============================================================================
