# A TLA+ model of Proxydomo

Proxydomo is a filtering HTTP proxy for Windows: browsers connect to it, it
connects to the websites, and header and text filters written in the Proxomitron
language rewrite what passes. This directory holds TLA+ modules translated from
its source, TLC configurations that check them on small instances, and proofs
checked by TLAPS. Line numbers below are those of the files of `src/Proxydomo`.

## 1. The system

### Components, their state and how they interact

| component | state | operations | hard behaviour | what makes it correct |
|---|---|---|---|---|
| **RequestManager** (`RequestManager.cpp`, `Socket.cpp`, `FilterOwner.cpp`): one per browser connection, on a pool thread | two sockets, two step machines (`m_outStep`, `m_inStep`), four buffers, the request and the response in hand, `m_previousHost`, flags, idle clock | `Manage` polls; `_ProcessOut`, `_ProcessIn`, `_ConnectWebsite`; `SwitchToInvalid` from the GUI thread | interleaving of two byte streams, peers that leave, drip, pipeline or stop reading; redirections; TLS interception; abort from another thread | every response goes with its request, is framed as its head says, the website gets whole requests meant for it, exchanges end once, counts balance, nothing waits for ever |
| **Proxy + ThreadPool** (`Proxy.cpp`, `ThreadPool.h`) | list of managers, list of thread-pool works, `m_bServerActive` | accept loop, `CloseProxyPort`, `AbortAllConnection`, the pool callback | erase by the callback against iteration by the closer, managers accepted while closing | after closing nothing runs and nothing is used after it was erased; closing ends |
| **ConnectionMonitor** (`ConnectionMonitor.cpp/h`) | list of `ConnectionData` (each with a lock), a list lock, a list of pending UI operations | create/remove, setters called by managers, registering a callback, the UI draining operations, killing a connection from the UI | two locks taken in two orders; coalesced operations applied later by the UI thread; kill of a connection that ends | the window shows the list in the end; no deadlock; a kill never reaches a destroyed manager |
| **Log** (`Log.h/.cpp`) | counters, ring of recent URLs, list of listeners | events from all threads | counted from many threads at once | counts balance, ring of bounded length |
| **Settings** (`Settings.cpp`) | filter tree, lists and their bypass matchers, save state | `SaveFilter` on a detached thread, `LoadList`, `AddListLine`, `EnumActiveFilter` | a save cancelled by a later save; connections that enumerate while the tree is edited; a list reloaded while matched | what is saved is whole and, with no other save about, the last state; connections work with the current tree; a line is added once |
| **Block lists** (`Nodes_.cpp` `CNode_List`, `BlockListDatabase.cpp`, `DirectoryWatcher.h`, `AdblockFilter.cpp`) | hashed patterns behind a shared lock, an SQLite table of hits | match, add a line from a filter (`$ADDLST`), reload on file change | `$ADDLST` while the same list is being matched; hits recorded by a line number that moved | matches see a whole list; hits go to their pattern |
| **TLS** (`ssl.cpp`) | host certificates made on demand, allow/deny maps | handshakes for both sides, certificate pages | temporary permissions that expire; maps written by a dialog | a host is intercepted only with a certificate for it |
| **Text filters** (`TextBuffer.cpp`, `proximodo/textfilter.cpp`, `headerfilter.cpp`, decompressors) | per-filter buffers, a chain ending in the manager | `DataReset`, `DataFeed`, `DataDump` | matches that span pieces; a filter that ends the body | the result does not depend on how the input was cut, nothing is sent too early, it ends |
| **Matcher and nodes** (`Matcher_.cpp`, `Nodes_.cpp`, `proximodo/expander.cpp`) | the compiled pattern | match, expand | alternatives tried through chained calls, no way back over a match once found; first-character tables | what matches is what the pattern means; no possible start is passed over |
| **Main window** (`MainDlg.cpp`, `Proxydomo.cpp`, dialogs) | dialogs, tray icon | start, stop, abort, edit filters | shutdown order | threads stop before what they use |
| Vendored code (`brotli/`, `zstd/`, `sqlite/`, `googletest/`), the unused parts of `proximodo/` | | | | not this project's |

Calls and callbacks: the server thread creates managers and hands them to the
pool; a manager registers itself with ConnectionManager (with a closure that
calls `SwitchToInvalid`) and tells it every step change; the GUI aborts managers
through Proxy (all) or through ConnectionManager (one); managers increment and
decrement the counters of Log; the incoming text-filter chain ends in the
manager's `DataFeed`/`DataDump`.

### Interactions that matter

* Every RequestManager shares with the others only the active count, the lists
  (BlockLists), the connection list (ConnectionMonitor), and the manager list of
  CProxy that holds it. Hence one module per shared structure, with the manager
  abstracted there to the calls it makes.
* Locks held over calls out: `CProxy::m_csRequestManager` over the destructor of
  a manager; the lock of a `ConnectionData` over `UpdateNotify`; `s_csList` over
  the window's callback; the mutex of a list over the rest of the match;
  `g_csListChangeWatcher` over the join of the watcher's thread.

## 2. The modules

In the order in which they were written, the most important behaviour first.

| module | what it is for |
|---|---|
| `RequestManager` (+ `MC`, `Data_proofs`, `Stream_proofs`, `Account_proofs`) | the program's core loop with browser, website, clock and GUI thread |
| `ProxyServer` (+ `MC`, `_proofs`), `ServerContract` | accept loop, thread pool, abort and shutdown; implements `ServerContract` |
| `ConnectionMonitor` (+ `MC`, `_proofs`) | connection list, coalesced operations, the window, two lock orders |
| `BlockLists` (+ `MC`, `_proofs`) | `$LST`, `$ADDLST`, appending threads, the directory watcher |
| `FilterStore` (+ `MC`, `_proofs`) | edits of the filter tree, the threads that save it, the connections that enumerate it |
| `Matcher` | the search tree of a pattern: `match` and `mayMatch` of its nodes |
| `TextFilters` (+ `_proofs`), `MCTextFilters` | one body through the text filters; `MCTextFilters` composes it with `Matcher` and two encodings, and states what filtering means |

`TextFilters` takes the matcher and the converter as operator constants: the
theorem about it is for every matcher, the run uses the search tree. The other
modules are one per shared structure, with the manager abstracted to the calls
it makes.

What would come next: the rows of hits in `BlockListDatabase` (renumbered by a
load between a match and `IncrementHitPatternCount`), the memory of a match
(`\0` to `\9`) with the replacement, and the parser of patterns against
`syntax.html`.

## 3. RequestManager.tla

### State

Every data member that decides control is a variable of the same name without
its `m_` (`outStep`, `inStep`, `recvOutBuf`, ..., `redirectedIn`), members that
travel together are one record (`out`: the request line and body size; `in`:
the response line, `inHeaders`, size, chain and `m_dumped`; `owner`:
`m_filterOwner`'s URL, contact host and pending redirection). `pc` is the point
of `Manage()` or of a function it calls, and `ret` the point `_ProcessOut` and
`_ProcessIn` return to. `browser` and `website` are the peers with what is on
the wire (`net`), what they have yet to send (`queue`) and all they got (`got`,
the history the properties read). Bytes are tokens with a kind, the number of
the request they belong to and a value.

### Actions

* *ManageLoop*: each `if`/call of `Manage()` is an action; `Judge` is
  `_JudgeManageContinue`, run only when the iteration moved nothing; `Destroy`
  is the end of `Manage` with the destructor.
* *ProcessOut*, *ProcessIn*: one action per case of the two switches, taken
  while `pc` is `procOut`/`procIn`; `OutReturn` and `InReturn` are the early
  returns for want of data (`OutBlocked`, `InBlocked`).
* *ConnectWebsite*: the function in the order of its phases (flush, local
  answers, redirections, connection, CONNECT, remote proxy, TLS, the simple
  request of a transparent redirection), because it reads and writes sockets
  between them.
* *Environment*: what browser, website, clock and GUI thread may do between any
  two steps. A website answers requests in order; it may leave where `MayDrop`
  says, hint (`100`, `103`) where `Interims` says, and send what nobody asked
  for `MaxStray` times: a 408, or bytes that are no response.
* *Tunnels*: once a tunnel is asked for, browser and website put pieces into it
  when they like, whether the others have arrived or not (`BrowserTunnel`,
  `WebsiteTunnel`); pieces may come right behind a 101. So several are under way
  in each direction, in four buffers and on two wires. The website says nothing
  before its connection is made and the request that opens the tunnel is
  answered: a piece in the same read as a remote proxy's 200 would be dropped by
  `m_recvInBuf.clear()` (:1229), and a TLS server does not speak first.

Sockets: `ReceiveOut`/`ReceiveIn` read until the socket would block and close it
at the end of the stream; `SendIn`/`SendOut` deliver all, lose all (the peer has
closed but the system does not know yet), or fail and close the socket. A Write
without room waits (no disjunct is enabled) until `m_writeStop`.

Exceptions: `boost::lexical_cast` throws on a malformed length in a response
(`InDecodeBad`) and in a request (`OutDecodeBad`), and a remote proxy that
refuses ends `Manage` the same way; but not one that drops while the code of a
redirected 200 is still in `m_responseLine` (`AwaitProxy`): the code then goes
on to the handshake. A redirection to `local.ptron` is answered by `LocalTls` and
`LocalSecure`; the certificate pages return without clearing the redirection
(:1069), which the next call finds. Through a remote proxy `local.ptron` is
connected to like any host (`ConnectOpen`).

Header filters are nondeterministic: what they may ask for is `OutFilters` and
`InFilters` (nothing, `$JUMP`, `$RDIR`, `\k`, rewriting the URL). Whether the
text chain filters a body is `Chains`, whether a filter ends it `BodyKill`.

### Settings and bounds

`Settings` is a set of named records, one of which is chosen at the start and
kept (`setting`): what browser and website may do, what filters may ask for,
whether TLS is intercepted and whether there is a remote proxy. One run with
several settings is one question asked of several worlds; the world in which
everything may happen at once is out of reach. `ConstantsOK` says what a setting
is; the proofs are for every setting.

`MaxReq` requests per browser connection (two show what one exchange leaves to
the next; three in *tunnel*: CONNECT, request, next request), bodies of one or
two pieces (a body that is over and one that is not), `MaxStray` = 1,
`MaxCopies` = 2, one or two hosts and `local.ptron`. `Unlimited` stands for
`numeric_limits<int64_t>::max()`, which is never counted down to 0. The idle
clock has three values (not started, running, more than ten seconds).

### Fairness

`FairSpec`: the manager's thread is scheduled (`WF` of `Thread`: it polls with
`Sleep(10)` and blocks only in `Write`), bytes on the way arrive, ten seconds
pass, and a website answers what it has read and closes what it said it would.
Nothing is assumed of when peers leave, of the filters or of the GUI.

### Runs

| run | question | states |
|---|---|---|
| `exchange` | seven settings. *pipelined*: two requests, two hosts, chunked uploads, a malformed length. *continued*: two requests one after the other, 100 Continue. *drops*: one request, peers that leave, early answers, killed bodies. *aborted*: the same with an abort and a website that leaves. *unasked*: strays, 103, redirecting filters. *tunnel*: CONNECT and Upgrade through a remote proxy, with outgoing redirections, also to `local.ptron`. *reproxied*: a response read through a remote proxy is redirected. In all of them: `SentToItsHost`, `OwnFraming`, `PairedResponses`, `WebsiteStream`, `ActiveCount`, `ResponseFramed`, `ExchangeClosed`, `NeverUndercount`, `RedirectBound`, `TunnelInOrder`, `ProxyTunnels`, `IdleCloseBetween`, `TypeOK` | 2.6 M |
| `live` | two settings. *live*: a request, `local.ptron` or an opaque CONNECT, with a browser that may stop reading. *intercepted*: two requests, of which one may be a CONNECT whose session the proxy looks into, to a website or to its own pages. `BrowserLeaves`, `Answered`, `AbortEnds` under `FairSpec` (a thread in `Write` may rest: no deadlock check) | 0.3 M |
| `chunk_leak`, `abort_stuck` | findings (section 9) | |

`AbortEnds` says that an aborted connection ends, but for the two ways in which
the code leaves it. One is a browser that does not read and whose `Write` was
not told to give up (`Unwritable`; that this happens although the documentation
promises otherwise is `abort_stuck`). The other is the wait of
`_HandleLocalPtron` for a request line (:1048), which never looks at `m_valid`:
`[]WaitsForLine` excuses a thread that stays there for ever, and nothing before
or after it. `live` goes through that wait in *intercepted*: `BrowserLeaves`
shows that a browser that leaves gets the thread out of it, `AbortEnds` that an
abort ends every thread that gets past it. Without the excuse TLC finds the browser
that keeps its socket and says nothing (section 9). `Answered` excuses a browser
that has stopped reading.

`ActiveCount` (the count is exactly what is under way) is stated where no
incoming filter redirects; `NeverUndercount`, which is proved, everywhere.
`IdleCloseBetween` leaves out *unasked*: after a 103 both steps are back at
`STEP_START` while the response is under way, and the idle clock may close then.
The settings together are as large as TLC checks in a few minutes.

## 4. ProxyServer.tla and ServerContract.tla

The 64-bit build (`Proxy.cpp`, `ThreadPool.h`; the `#else` branch of the 32-bit
build with detached threads is left out). Three kinds of threads: the GUI thread
(`gui`), the server thread (`server`) and one callback per connection
(`conn[c]`). The two `std::list`s are sets, because nothing looks at their
order; an iterator or raw pointer into them is the membership of `c`.

A section under a lock is one action unless it can block inside. The erase of a
manager can: its destructor closes sockets and takes `s_csList`. So
`m_csRequestManager` is the variable `csRequestManager`, held between
`EraseManager` and `Destroyed`, and `m_csThreadDataList` is not a variable.
`CloseAllThread` is three actions: `Deactivate` (its loop under
the lock), `WaitAndClose` for each element of the list it walks *without* the
lock (`toWait`), `ClearLists`. `CreateThreadFails` is the exception of
`CreateThread` that nobody catches on the server thread, which ends the process.

`ServerContract` is what the caller may rely on: connections are taken once and
only while the port is open, and `CloseProxyPort` returns when none is left.
The refinement maps `taken` to the connections that got a manager, `live` to
those whose manager is not destroyed yet, `accepting` to a server thread in its
loop, `closed` to the return of `CloseProxyPort`.

Bounds: three connections on a pool of two threads (one has to wait in the
queue), creation of a work may fail. Fairness: threads are scheduled (`WF` of
the server, of closing and of each callback), the callback that waits for
`m_csRequestManager` gets it (`SF`: a Windows critical section is free again and
again), and a manager that was switched to invalid ends. Managers that are not
aborted need not end.

The last is an assumption, and not one that the code keeps in every case.
`AbortEnds` of RequestManager shows it but for two states of a manager (section
9): blocked in a `Write` to a browser that does not read, of which
`SwitchToInvalid` saw `m_outStep` at `STEP_START` (`abort_stuck`), and waiting at
`RequestManager.cpp`:1048 for a browser that says nothing. With a manager in
either of them `CloseAllThread` waits in its join, and `CloseProxyPort` with it,
until that browser reads, speaks or leaves. So `CloseEnds` and `ServesOn` say
that the pool, the lists and the locks add no wait of their own. The safety
properties and the refinement, which are proved, rest on no fairness.

Run `server` (37 thousand states): `NothingErasedInUse`, `WalkStable`,
`WorkClosedOnce`, `ContractSpec`, `CloseEnds`, `ServesOn`.

## 5. ConnectionMonitor.tla

The threads of the connections (`pc[c]`), the GUI thread (`gui`), the list, one
`ConnectionData` each (`data`), the operations left for the window (`ops`), the
posted `WM_UPDATENOTIFY`s (`messages`) and the window (`window`: rows, the idle
ones, the closing ones, speeds). Sections that take more than one step while
they hold a lock are split: `pc[c] = "traffic"` holds the connection's `cs` and
waits for `s_csList`; `gui = "register"` holds `s_csList` and waits for each
`cs`; `applying` is `OnUpdateNotify` with the lock of the operations.
`m_listActive` is read before the operations are locked, so in `"unregister"` a
callback goes either way. Posted messages are handled before input and timers,
as `GetMessage` does, hence `messages = <<>>` in what those start. `Callback`
coalesces updates and speeds of a connection the way `ConnectionMonitor.cpp`:194
does. `OnUpdateNotify` takes a message and the count it may carry; `ApplyOne`
applies the operations one after another and `ApplyDone` ends the message, so
that the later messages find none.

`SetTraffic` is the first bytes of a second, which are notified with the
connection's lock held; `MoreTraffic` those that follow in the same second, which
change `trafficData` (:89) and notify nobody. A speed that is shown may
therefore be behind the connection's by what came later in its second, and
never by a second.

Bounds: two connections, two changes (of text, step or bytes, `MaxSets` for all)
and one second of traffic for each, the window opened twice, one kill. Two
changes are the least with which an update replaces an earlier one around
another operation, two openings the least with which something may be left over.
The connections are symmetric. Nothing is assumed of fairness in the safety run.

* `monitor` (7.9 M states): `WindowShowsList` (the rows are the connections, in
  order, with their latest texts; no row is left idle or closing that is not;
  the speeds are those of connections that are there, of the latest second that
  was notified), `RowFound` (the
  `ATLASSERT(FALSE)` of `OnUpdateNotify` is not reached), `KillsLiveManager`.
  No deadlock check: the next run shows that there is one.
* `monitor_deadlock`: the finding. Opening the window and a connection's first
  bytes of a second wait for each other.

## 6. BlockLists.tla

The lists behind `$LST` and `$ADDLST`: the file (`file`, `stamp`), the patterns
in memory with their line numbers, the shared mutex of each list (`readers`,
`exclusive`, and `blocked`, boost's `exclusive_waiting_blocked`, which keeps new
readers out while somebody waits to write), the lock of the database of hits
(`db`) and `g_csListChangeWatcher`. Threads:

* *matchers* run filters, which are data: `Filters[m]` are sequences of `lst`
  (matches, and keeps the list locked shared until the match is over), `unless`
  (`(^$LST())`, releases at once), `add` (`$ADDLST`) and `end` (the locks are
  released in one step, then hits are recorded one by one under `db`);
* *adds*: one detached thread per line added; it opens the file, takes
  `g_csListChangeWatcher`, stops and joins the watcher, appends, and watches
  again;
* the *watcher*: told of a change, it probes the file for three seconds (`Probe`
  may go on or give up), locks the database, then the list, and loads: it notes
  the file's time (`StampFirst`) before it opens it, so where the open fails
  (another program has the file, `CannotOpen`) the list stays as it was under
  the new time.

A line is a token; `Invalid` are those that are no pattern, `LogMark` the first
line of a log file. Left out: Adblock lists (another code path with its own
collection), the mutex of white lists, continuation lines, how patterns are
hashed and the rows of the database.

`MemoryIsFile` leaves out the lists whose last load could not open the file
(`unread`, a history variable): for them the code promises nothing until the
file changes again.

Bounds of `lists` (124 thousand states): a list with a file, one without, a
filter that adds to both after a negated match, a filter that holds both, one
added line and two edits, so that a load can come before, during and after the
append. The invariants hold for two added lines too (879 thousand states).
Fairness: a thread that waits for a lock that is free again and again gets
it (`SF`: boost's mutex and critical sections do not starve for ever), blocked
writers say so (`WF`), nobody has to begin a match. `MatchEnds` speaks of
filters that lock each list once and add to lists they do not hold: a filter
that does otherwise waits for its own thread (`Nodes_.cpp`:1358). There is no
deadlock check because `MatchEnds` and `AppendsEnd` ask more precisely.

`lists_forgotten` is the finding on `AddedStays`.

## 7. FilterStore.tla

The tree of filters (`s_vecpFilters`), which only the GUI thread changes, is the
number of the edit that made it. Every edit ends with `SaveFilter`, which copies
the tree, sets `s_lastFiltersSaveTime` (`saveTime`) and starts a detached
thread: `saves`, one record each, from `TryEnterCriticalSection` (`try`,
`refused`: set `s_bCancel` and sleep) over `SaveFilterItem` (one step per
filter, each looking at the flag), the second look at the flag (`CheckCancel`),
writing and closing `filter.temp.xml`, and `MoveFileEx` over `filter.xml`, which
may fail without anybody looking (`MoveFails`), to `s_cs.Leave()` (which is part
of the step before it) and, *after* it, `s_bCancel.store(false)`
(`ClearCancel`). Connections (`pc[m]`) compare times at the start of an exchange
or a body and enumerate one filter per step under `s_csFilters`. The edit window
and insertions lock the tree for the change, deleting and dropping also for the
save; a check box does not lock it at all. The process ends after `Exit`, which
joins the newest save only.

The disk may fail to write (`WriteFails`, on either of the two ways the code has
for it) and to rename. A flush that fails when the stream is closed is not among
the failures: the code does not see it.

The message box in `SaveFilter`'s `catch` is taken to be closed at once, and
times to differ for different saves (the code's are of 100 ns).

Bounds: two filters (some and not all of them can be collected), two edits with
a connection or three without (`MCBounds`; a third save is the least that can
reset the flag between the two looks of another). Fairness: every save's thread
is scheduled as long as the process lives; nothing is assumed of the GUI or of
connections. There is no deadlock check: after `Exit` the program is gone.

Run `filters` (47 thousand states): `NoStaleCancel`, `LoneSaveWritten`,
`FiltersCurrent`, `OwnFileRenamed`, `SavesEnd`, with a disk that may fail.
`filters_lost` is the finding on `FileWhole`.

## 8. Matcher.tla, TextFilters.tla and MCTextFilters.tla

`Matcher`: a pattern is the sequence of its nodes. In the program each node
knows the node on its right (`setNextNode`) and asks it to go on; in the model
the nodes still to be asked are the rest of the sequence, so that `Match(t, p, i,
j)` is `match` of the first node of `p` at position `i` with `stop` = `j`. Its
result has the end of the match, the farthest position that was *reported* as
scanned (`reached`, which is what tells a filter to wait for more), the commands
that were executed, and what the recorder of `&&` holds. `$NEST` looks at the
character at `stop` before it knows that there is one to match (`Nodes_.cpp`:1533),
as the code does. `MayMatch` is
`mayMatch`, the table of low bytes a match can begin with.

`TextFilters`: one `CTextBuffer`. `DataFeed` gets any next piece of the body's
bytes, `DataDump` the end; `Receive` waits for enough to tell the character set,
cuts behind the last whole character (`EndPoint`) and decodes. A compressed body
may also be fed an empty piece, when the decompressor has nothing yet or nothing
more: it does not wait for an end point (`ConvertAnyway`), and what that loses is
noted in the history variable `lost`. Then `Filter` is
the two loops, one filter at one position per step, with an action per outcome:
`SkipFilter`, `NeedsMore` ("when more data arrives, same filter, same
position"), `Replaces`, `Inserts` (multiple matches), `Fails`, `NextPosition`,
`SendRest`.

`MCTextFilters` says what should come out. `Ends` is the set of positions a
pattern may end at, read off the meaning of its nodes; `Whole` is what a list of
filters makes of a text that is all there. Checked in `body` (231 thousand states):

* `MatchMeans`: a match ends at one of `Ends`, and is found if there is one,
  unless the pattern is blind (`+`, `&&`), which `syntax.html` says of `+`.
* `NoStartMissed`: where a match is possible, the table lets it be tried.
* `BoundsAsAndAnd`: a bounds pattern works as `(bounds)&&(match)`
  although two matchers run one after the other.
* `BodyFiltered`: what has been sent is always a beginning of `Whole`, and at the
  end all of it, for every way of cutting the body into pieces (empty ones
  included where it is compressed, but no two in a row), unless one of them
  has lost bytes (section 9).
* `BodyEnds`: it comes to an end.

Bounds: all bodies of up to four characters over two or three letters, up to
three with a two-byte character, every cut; one or two filters out of some forty
patterns, plain, with bounds, with a window of one to three characters, with
multiple matches, or between `<start>` and `<end>`; `DetectSize` 2 and
`MaxDecrement` 3 instead of 5000 and 512, so that both limits are met.
Encodings: `utf8` (no byte of a wide character looks like ASCII), `sjis` (the
second one may), `jis` (escape sequences). `BodyEnds` assumes that the thread
goes on (`Goes`).

Filters with `$STOP()` or `\k` inside a pattern are among the cases but excused
by `BodyFiltered`, and not among them are `[#]`, multiple-match filters that
match nothing, and the patterns for which `mayMatch` is wrong (all in section
9).

## 9. Findings

* `chunk_leak` (`RequestManager.cpp`:726): `STEP_CHUNK` lacks the test "We
  shouldn't send anything to website if it is not expecting data" (:743, :792)
  on its chunk-size branch; the size line of a killed upload can reach the
  website of the previous request.
* `abort_stuck` (`RequestManager.cpp`:277): `SwitchToInvalid` stops a blocked
  `Write` only while `m_outStep` is not `STEP_START`; the last piece of a
  response is written after both steps are back there (:1680, then :217), so the
  Abort button does not "interrupt a frozen download" (`monitor.html`:74) whose
  browser does not read.
* `monitor_deadlock` (`ConnectionMonitor.cpp`:95 against :145): `SetUpload` and
  `SetDownload` notify with the connection's lock held and take `s_csList` there;
  `RegisterCallback` takes the same two locks in the other order.
* `lists_forgotten` (`Settings.cpp`:650): a load between `AddListLine` and the
  append takes the added pattern out of memory, and the append itself is made
  with the watcher stopped, so nobody loads it again, although `syntax.html`:559
  says that it is taken into account immediately.
* `filters_lost` (`Settings.cpp`:408): a save that is told to give up stops
  collecting (:347) and looks at the flag again before it writes; a thread that
  has just left `s_cs` resets the flag in between (:410, :441), and `filter.xml`
  is replaced by a file that lacks filters, although `s_vecpFilters`, which it
  should hold, is "all the filters owned" (`Settings.h`:157).

Also seen while modelling, without a run of their own.

* Abort: `_HandleLocalPtron` waits for a request line for as long as the browser
  keeps its socket (:1048) and never looks at `m_valid`, so the Abort button
  does not end an intercepted connection to `local.ptron` whose browser says
  nothing. `AbortEnds` names this wait; without the excuse TLC finds it broken
  in *intercepted*.
* Compressed bodies (`TextBuffer.cpp`:424): when a piece is empty and none of
  the last 512 bytes of `m_buffer` ends a character, `endPoint` has been moved
  back 513 bytes while `decrimentCount` is set to 0. `m_tailBuffer` gets no
  bytes, what is before `endPoint` is converted, and `m_buffer` is cleared
  (:433, "the rest has been saved"): 513 bytes are gone and a character is
  broken, as at the end of a compressed text that ends in some 170 ideographs.
  With bodies of four wide characters, a filter that is off and `MaxDecrement` 3
  TLC finds the loss.
* RequestManager: `inHeaders` of a redirected response stay and frame the body
  of the response that replaces it (:1392, :1458), hence `OwnFraming` is checked
  without incoming redirections. They stay when an exchange ends, too (only
  `Reset` at the next request clears them), so a 408 that a server sends before
  it closes an idle connection is read with the chunked encoding of the response
  before it. Every faked response sets `m_sendConnectionClose` although :632 and
  :1143 speak of keeping the browser's socket. A website that leaves during an
  upload leaves the browser with neither a 503 nor a close (:243 looks only for
  `STEP_FINISH`). A 103 head ends its exchange as a final response does (:1568),
  so the idle clock may close while the final one is awaited, and if the next
  head is redirected by a filter, `_ConnectWebsite` takes `m_inStep` back to
  `STEP_START` (:859) without decrementing, so the exchange is counted twice
  (`NeverUndercount` holds, equality does not). On an intercepted connection a
  website that left is not connected again for the same host (:640). After a
  response that came before the upload was complete the rest of the upload is
  dropped and the website's stream is left inside a request, hence
  `WebsiteStream` is checked without early answers. A pipelined request already
  read when an exchange ends waits for more bytes (:193), hence `Answered` is
  checked without pipelining.
* Tunnels: a GET and then a CONNECT over the connection kept to a remote proxy
  leave `m_inStep` at `STEP_FINISH`; what the website says stays in
  `m_recvInBuf` and does not reach the browser.
* Settings: the append glues its line to a last line without a newline; the open
  that fails loses the line silently (:647); `GetFileLastWriteTime` is read
  before the file is opened for loading.
* Filters: a check box clicked while a connection enumerates leaves that
  connection with a mixture of two trees until the next save (`torn`). The newest
  save can be cancelled by an older one that was refused first: then the last edit
  is not on disk. A `flush` that fails is not noticed.
* Text filters: `$STOP()` and `\k` are executed by an attempt that then waits for
  more (`textfilter.cpp`:167), so whether the filter goes on depends on the cut.
  `<end>` in front of another active filter never fires, and `<start>`, `<end>`
  with multiple matches do not do what `syntax.html`:408-422 says. A
  multiple-match filter that matches nothing and whose own replacement it matches
  loops for ever. The decoding of GB18030 may be cut inside a character of four
  bytes (`_findEndPoint`). One `UConverter` per character set is shared by all
  connections without a lock.
* Matcher: `CNode_Range` fails without reporting how far it has read, so
  `[#3:5]` may fail on a number the network has cut. `mayMatch` is wrong for a
  repetition with a minimum of what may match nothing (`Nodes_.cpp`:791), for
  negated sets with characters above U+00FF (:443), for `\s` before control
  characters (:196) and for `$INEST` as the first node. `$AV` with a single
  character inside reads past an opening quote at the end of the data. An `&&`
  inside the left side of another shares its recorder.
* `ssl.cpp`:335: the page about a bad certificate is written, or a dialog shown,
  with `g_csmapHost` held.

## 10. Proofs

Each for every value of the constants that the named assumptions allow
(`ConstantsOK`, `ServerConstantsOK`, `MonitorConstantsOK`, `ListConstantsOK`),
checked by TLAPS.

`RequestManagerData_proofs.tla`

* `NeverUndercountHolds`. The property is not inductive, because
  `_ConnectWebsite` takes `inStep` to `STEP_START` and then to `STEP_FINISH`
  without touching the count. `CountInv` adds that the count is a natural
  number, that it is positive wherever `_ConnectWebsite` runs, and that the two
  step functions return into `Manage` (`ret \in Returns`).
  `EnvironmentLeavesThread` says once what the environment cannot change;
  `CountStep` has a step per group of actions.
* `RedirectBoundHolds`. `connects <= 1 + MaxRedirect` is not inductive: a
  connection is opened before the redirection it is for is counted. `ConnectsInv`
  bounds `connects` by the redirections counted so far, plus one for the request
  once it is past `STEP_DECODE` and plus one from the opening until
  `_ConnectWebsite` returns, and says that a redirection begins only below
  `MaxRedirect`.
* `ExchangeClosedHolds`. Each step machine that reaches its end looks whether
  the other has; `ClosedInv` says at which points of the thread both may be at
  the end, because one of them is about to see it.
* `TypeCorrect`. That every token and every host is one of a request the browser
  made needs a chain of facts, each with a lemma: `FlagInv`, `StepInv` and
  `PeerInv` type the flags, steps and peers; `RequestInv` the tokens on their
  way to `_ProcessOut`, with `QuietInv` (a browser that has sent nothing has
  nothing under way) and `FirstInv` (`_ConnectWebsite` and the response machine
  run only when there has been a request), without which "the request in hand"
  would be none; `OwnerInv` the hosts; `ResponseInv` the tokens on their way to
  the browser. `DataInv` is their conjunction; each is shown from those before
  it.
* `ProxyTunnelsHolds`, from `DataInv` and `TunnelsInv`, which says of a
  connection to the remote proxy what has been written to it or is about to be.
* `ActiveCountHolds`: the count is exact, for any browser, website, outgoing
  filters and bounds, *unless the proxy plays the TLS server* (`Intercepts`:
  `SSLFilter` with `CONNECT`, or with outgoing redirections to `local.ptron`,
  which it answers over TLS in the place of a website). `ExactInv` adds to the
  count what makes `_ConnectWebsite` harmless for it: it runs only while a
  request is being decoded (nothing else redirects without incoming filters),
  and a redirection noted in the `CFilterOwner` is used up before the machines
  go on. On an intercepted connection the tunnel states take a machine back to
  `STEP_START` without ending an exchange; that it is not the one whose exchange
  is counted depends on what is left in every buffer, so there the run alone
  checks it.

`RequestManagerStream_proofs.tla`

* `ResponseFramedHolds`: whatever the website sends, in whatever pieces, and
  whatever the filters do, a body piece that the browser gets follows a head of
  its own response that announced it (or a head that opened a tunnel, after which
  pieces are not counted). The property is of what has arrived; the invariant is
  of the whole stream, what has arrived and what waits in `sendInBuf`
  (`StreamInv`): it is framed, and while the machine is in `STEP_RAW`,
  `STEP_CHUNK` or `STEP_TUNNELING` it *ends* in an open body of the response in
  hand, with as many pieces to come as `m_inSize` still allows, or in an open
  tunnel. For that to be inductive `SourceInv` says that no head for the browser
  comes from a website unparsed, `ChunkedInv` when `m_recvInChunked` can be
  believed, `FlushedInv` that `sendInBuf` is empty where `_ConnectWebsite` may
  drop or replace the connection, and `PathInv` that the response machine returns
  to where `Manage` sends what it made. `FramedKept`, `HeadFramed` and the lemmas
  after them say which tokens can be put behind a framed stream.

`RequestManagerAccount_proofs.tla`: an exchange takes from the website what it
was sent for, and all of it.

* `IdleCloseBetweenHolds` and `OwnFramingHolds`, outside tunnels (the proxy's own
  and those it looks into), for a website that answers each request once, with
  at most a `100 Continue` before, and with no body where HTTP allows none, and
  without an incoming `$RDIR`. These are the hypothesis `Orderly`, which the
  settings `pipelined`, `continued`, `drops`, `aborted` and `tunnel` of the
  run `exchange` satisfy. Each part of it is needed: after an answer nobody asked
  for, or a 103, the machine takes the bytes of one response for another
  (section 9), and the headers of a response that `$RDIR` gave up stay in
  `m_inHeaders`. The website may still leave at any byte, the browser
  at any time; it may pipeline, and the outgoing filters may redirect. One could not
  have either property of the machine alone: whether it is at the end of a
  response depends on what the response still has to come.
* The invariant is therefore an account (`Account`) of the answer to the request
  in hand. `Source` is what the proxy has not parsed of it, in order:
  `m_recvInBuf`, then what is on the wire, then what the website has yet to
  send. `Ahead` says, step by step of `_ProcessIn`, what may stand there, up to
  where the website broke off; `HeaderInv` that of the headers collected so far
  all but the last are those of interim heads, which say nothing of a body;
  `OwedInv` that the website owes an answer to the request in hand only. The
  account is suspended while the exchange is cut short and the thread on its way
  out (`Over`), and when it tunnels, which it does not leave (`GuardBack`).
  Around it: `PlaceInv` (where in `Manage` a machine may be at which step),
  `RouteInv` (when `_ConnectWebsite` runs, nothing is owed on the connection it
  keeps), `AskInv` and `SaidInv` (outside tunnels no tunnel is asked for and
  none opened), `WebInv` (a closed socket holds nothing), `EmptiedInv`
  (`sendInBuf` is empty where the exchange ends). `ExchangeInv` is their
  conjunction, checked with TLC on the run's settings before it was proved.
* `SentToItsHostHolds`, under the same hypothesis, outside tunnels, and when
  `local.ptron` is not among the hosts the browser asks for (the settings
  `pipelined` and `continued`, which have several requests, satisfy all of it;
  the list below says what goes wrong without). That a buffer's bytes are for
  the website they are written to is not a matter of one buffer: `_ProcessOut`
  looks for the host once, after the head, and what it sends afterwards is what
  it takes for the body. `UpInv` therefore says of all that is on its way from
  the browser (`Up`: `m_recvOutBuf`, the wire, what it has yet to send) that it
  begins with what is left of the request in hand (`Rest`, step by step) and
  goes on with whole requests, one after the other, up to where the browser left
  (`InOrder`); it needs `AsksInv` (a body comes with a POST only, and its size
  and framing are known before `_ConnectWebsite`). `SendInv` is what remains:
  while there is a connection its host is `m_previousHost`; what was received
  over it, and what waits in `m_sendOutBuf`, is for that host, but while
  `_ConnectWebsite` runs, when `m_sendOutBuf` may still hold what the last
  website did not take (its head replaces that); and from the connection on,
  that host is the one of the request in hand. `StartInv` (nothing answers a
  request before its connection) keeps a leftover response from taking
  `_ProcessOut` past it. `HostInv` is their conjunction, checked with TLC first.

`ProxyServer_proofs.tla`: `Inv` is `TypeOK` with `ServerInv` (which states of
the server thread go with which of the GUI thread: none is accepting after the
join), `ListInv` (a connection is in a list exactly while it should be),
`WalkInv` (what the walk has yet to reach) and `ClosesInv` (who has closed a
work, by `active`). From it: `TypeCorrect`, `NothingErasedInUseHolds`,
`WalkStableHolds`, `WorkClosedOnceHolds`, and `ContractHolds`: every step is a
step of `ServerContract` or a stutter.

`ConnectionMonitor_proofs.tla`: for any number of connections, changes, seconds
and openings of the window, `TypeCorrect`, `KillsLiveManagerHolds`,
`RowFoundHolds` (the `ATLASSERT(FALSE)`) and `WindowShowsListHolds`. The last
speaks only of a window with nothing left to apply, so almost all of
`MonitorInv` is about what waits:

* `ListInv`: the list is what is alive, each once. `KillsLiveManager` follows.
* `RowInv`: `GuiInv` (what the GUI thread's stages leave behind: nothing of an
  earlier opening, and a message as long as there are operations), `OpsInv` (an
  operation finds the row it is for, or the addition that makes it stands before
  it; a removal is the last), `RowsInv` (one row, none while the addition waits)
  and `KnownInv` (what is added or shown is exactly what is registered).
  `RowFound` follows.
* `DataInv`: `FreshInv` and `SpeedInv` (the newest waiting operation of a
  connection, or else its row or speed, is its present state, unless its thread
  is between the change and the notification: the point of coalescing),
  `IdleInv`, `OrderInv` (additions wait in the order of the list) and
  `CountedInv` (the last count posted is the length of the list).

The connections' callbacks come between any two operations that are applied;
that operations may be dropped from the middle of the sequence is why the
invariants say everything by position and none by a fold. `MonitorInv` was
model-checked on `monitor`'s bounds first.

`BlockLists_proofs.tla`: `Inv` is `TypeOK` with `WriterInv` (a thread that writes
owns `g_csListChangeWatcher` and the watcher is off, which makes it alone) and
`LinesInv` (line numbers are distinct *and* none exceeds `lineCount`; without
the bound a new line could get a number in use). From it: `TypeCorrect`,
`NeverReadsHalfHolds` and `LinesDistinctHolds`, for any number of lines added
and edits. `Inv` was also model-checked with `MaxAdds` 2. `MemoryIsFileHolds`
needs more, `FullInv`: times only go forward and the watcher has seen none that
is yet to come (`StampInv`), only a thread that adds a line turns the watcher off
(`StoppedInv`), and a list that differs from its file is one the watcher has
been told of and is not done with, unless it is a log, of which nothing is loaded
(`LoadedInv`), or one whose file could not be opened (`unread`).

`FilterStore_proofs.tla`: `Inv` is `TypeOK` with `CountOK` (one save and one
time per edit, but for the edit in hand), `SaveInv` (`HolderOK`: the save
between its `TryEnterCriticalSection` and its leave is the one that holds
`s_cs`; `TempOK`: the temporary file is the holder's; `NoStaleCancel`),
`LoneInv` (a save that has met no other was never told to give up, at any of its
points), `ConnInv` (an enumeration under way has read the tree as it is, unless
torn) and `FiltersCurrent`. For any number of filters, edits and connections:
`TypeCorrect`, `NoStaleCancelHolds`, `LoneSaveWrittenHolds`,
`FiltersCurrentHolds` and `OwnFileRenamedHolds`. `NoStaleCancel` is what makes
`LoneSaveWritten` inductive: a flag left behind would cancel the next save.

`TextFilters_proofs.tla`: `TypeCorrect`, for every matcher whose matches end
between their start and the position they may go to (`MatcherOK`) and every
converter (`ConverterOK`), for bodies with empty pieces too: position and end of
the text sent stay within the buffer. `MCTextFilters` has TLC evaluate
`MatcherOK` for the search tree on the patterns and short bodies
(`MatchesEndWithin`).

Only model-checked:

* which peer received which response: `PairedResponses`, `WebsiteStream`,
  `TunnelInOrder`. They speak of the order in all that the peers have
  received, so on top of `ExchangeInv` and `HostInv` the strengthening would have
  to say of the whole stream towards the browser and towards each website what
  `UpInv` says of the one from the browser. Two of them are not true for every
  constant. TLC finds broken: `PairedResponses` when a pipelining browser gets a
  103, after which its next request is begun in the middle of the final
  response; `WebsiteStream` in `chunk_leak`. `TunnelInOrder` was not seen to fail
  in any of those settings;
* `SentToItsHost` with what its theorem excludes. It fails when `local.ptron` is
  among the hosts and an upload to it is chunked (`chunk_leak` again: the size
  goes to the website of the request before), and when requests are pipelined
  behind one that the website answers with 101, for they go into the tunnel;
* `OwnFraming` and `IdleCloseBetween` on an intercepted connection and with
  what `Orderly` excludes. `OwnFraming` does fail there: when a response nobody
  asked for follows a chunked one (section 9), and after a 103 to a browser that
  pipelines. `IdleCloseBetween` was not seen to;
* `ActiveCount` on an intercepted connection (above);
* what the search tree matches: it is recursive;
* all liveness, which is out of the prover's reach.

## 11. Not modelled

* Vendored code (`brotli/`, `zstd/`, `sqlite/`, `googletest/`): not this
  project's. It is most of the lines of the repository.
* TLS (`ssl.cpp`): a handshake is one step (`Tls`) of RequestManager that may
  fail and close either socket. Making and checking certificates is
  cryptography of a library; the table of permitted hosts is one map under one
  lock, whose hazard (it is held over a page or a dialog) is a wait for a user.
* Log: counters, a vector of recent URLs and listeners, each under one lock; the
  counter that decides anything is in RequestManager.
* Header filters' expansion, the replacement text (`expander.cpp`), `$LST`
  inside a text pattern, `$URL`, `$ASK`, `$TST`, the memory of a match; filters
  are nondeterministic in RequestManager and have constant replacements in
  TextFilters.
* The parser of patterns, reading and writing of ini and xml files,
  decompression, the guess of the character set, the debug page (`dbug.`), the
  content of local pages, DNS: conversions and I/O that keep no state the modules
  depend on.
* The rows of hits in `BlockListDatabase`, Adblock lists, and the stop of the
  watcher at the end of the program (`MainDlg.cpp`:181).
* All windows but the connection monitor and the edits of the filter window.
