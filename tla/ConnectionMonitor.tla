-------------------------- MODULE ConnectionMonitor --------------------------
(***************************************************************************)
(* CConnectionManager, the ConnectionData of every manager, and the window *)
(* that shows them.  Managers change their own ConnectionData and notify;  *)
(* the notification leaves an operation for the GUI thread and posts       *)
(* WM_UPDATENOTIFY.                                                        *)
(*                                                                         *)
(* A section under a lock is one action unless it waits or loops inside.   *)
(* Three do: SetUpload/SetDownload hold the connection's cs while           *)
(* UpdateNotify waits for s_csList (pc[c] = "traffic"), RegisterCallback    *)
(* holds s_csList while it waits for every cs (gui = "register"), and      *)
(* OnUpdateNotify holds the lock of the operations while it applies them,  *)
(* one after the other (applying).                                         *)
(***************************************************************************)
EXTENDS Integers, SequencesExt

CONSTANTS
  Conns,       \* connections, by uniqueId
  MaxSets,     \* bound: changes of steps, verb, URL and bytes in a second, together
  MaxSeconds,  \* bound: seconds in which a connection moves bytes
  MaxOpens     \* bound: times the window is opened

ASSUME MonitorConstantsOK ==
  MaxSets \in Nat /\ MaxSeconds \in Nat /\ MaxOpens \in Nat

VARIABLES
  pc,         \* per connection: where the thread that owns it is
  data,       \* per connection: its ConnectionData
  list,       \* s_connectionDataList, newest first
  killed,     \* connections whose funcKillConnection was called (once; a bound)
  sets,       \* changes made so far
  gui,        \* where the GUI thread is
  toAdd,      \* what RegisterCallback's loop has not reached yet
  ops,        \* m_connectionDataOperationList
  applying,   \* OnUpdateNotify holds m_csConnectionDataOperationList
  messages,   \* connectionCount of the posted WM_UPDATENOTIFYs
  lastCount,  \* m_lastConnectionCount
  window,     \* rows, idle, closing and speeds of the window
  opens       \* times the window was opened

connVars == <<pc, data, list, sets>>
queueVars == <<ops, messages>>
guiVars  == <<gui, applying, toAdd, lastCount, window, opens>>
vars     == <<connVars, killed, queueVars, guiVars>>

ListFree  == gui # "register"          \* s_csList
CsFree(c) == pc[c] # "traffic"         \* ConnectionData::cs

Categories == {"add", "update", "traffic", "remove"}
NoCount    == -1                       \* of a message without a count
Empty      == [rows |-> <<>>, idle |-> {}, closing |-> {}, speeds |-> {}]
IsIdle(d)  == d.out = "START" /\ d.in = "START"

Init ==
  /\ pc = [c \in Conns |-> "none"]
  /\ data = [c \in Conns |-> [out |-> "START", in |-> "START", text |-> 0,
                          traffic |-> [sec |-> 0, bytes |-> 0]]]
  /\ list = <<>> /\ killed = {} /\ sets = 0
  /\ gui = "hidden" /\ applying = FALSE /\ toAdd = <<>> /\ ops = <<>> /\ messages = <<>>
  /\ lastCount = 0 /\ window = Empty /\ opens = 0

-----------------------------------------------------------------------------
(* The callback of the window.  m_listActive is read before the operation   *)
(* list is locked, so while OnCancel unregisters it may go either way.      *)

Coalesced == {"update", "traffic"}
Same(c, cat) == {i \in DOMAIN ops : ops[i].id = c /\ ops[i].cat = cat}

EnqueueFirst(op, count) ==    \* mutant: the data of the operation found is kept
  IF op.cat \in Coalesced /\ Same(op.id, op.cat) # {}
  THEN UNCHANGED <<ops, messages>>
  ELSE /\ ops' = Append(ops, op)
       /\ messages' = Append(messages, IF op.cat \in Coalesced THEN NoCount ELSE count)
Enqueue(op, count) ==
  IF op.cat \in Coalesced /\ Same(op.id, op.cat) # {}
  THEN /\ ops' = [i \in DOMAIN ops |-> IF i \in Same(op.id, op.cat) THEN op ELSE ops[i]]
       /\ UNCHANGED messages
  ELSE /\ ops' = Append(ops, op)
       /\ messages' = Append(messages, IF op.cat \in Coalesced THEN NoCount ELSE count)

Callback(c, cat, count) ==
  \/ gui \in {"hidden", "unregister"} /\ UNCHANGED queueVars
  \/ gui # "hidden" /\ ~applying /\ Enqueue([id |-> c, cat |-> cat, data |-> data[c]], count)

-----------------------------------------------------------------------------
(* The threads of the connections                                          *)

CreateConnectionData(c) ==
  /\ pc[c] = "none" /\ ListFree
  /\ pc' = [pc EXCEPT ![c] = "idle"]
  /\ list' = <<c>> \o list
  /\ Callback(c, "add", Len(list) + 1)
  /\ UNCHANGED <<data, sets, killed, guiVars>>

Changes(d) ==
  {[d EXCEPT !.out = IF @ = "START" THEN "busy" ELSE "START"],
   [d EXCEPT !.in = IF @ = "START" THEN "busy" ELSE "START"],
   [d EXCEPT !.text = @ + 1]}

\* SetVerb, SetUrl (under cs), SetInStep, SetOutStep (not under it): only this
\* thread writes, so the copy SetUrl hands on is what data is.
SetData(c) ==
  /\ pc[c] = "idle" /\ sets < MaxSets
  /\ \E d \in Changes(data[c]) : data' = [data EXCEPT ![c] = d]
  /\ sets' = sets + 1
  /\ pc' = [pc EXCEPT ![c] = "update"]
  /\ UNCHANGED <<list, killed, queueVars, guiVars>>

\* SetUpload, SetDownload: the first bytes of a second (counted for either direction)
\* are notified, while cs is kept; those that follow are only counted.
SetTraffic(c) ==
  /\ pc[c] = "idle" /\ data[c].traffic.sec < MaxSeconds
  /\ data' = [data EXCEPT ![c].traffic = [sec |-> @.sec + 1, bytes |-> 1]]
  /\ pc' = [pc EXCEPT ![c] = "traffic"]
  /\ UNCHANGED <<list, sets, killed, queueVars, guiVars>>

MoreTraffic(c) ==
  /\ pc[c] = "idle" /\ data[c].traffic.sec > 0 /\ sets < MaxSets
  /\ data' = [data EXCEPT ![c].traffic.bytes = @ + 1]
  /\ sets' = sets + 1
  /\ UNCHANGED <<pc, list, killed, queueVars, guiVars>>

UpdateNotify(c) ==
  /\ pc[c] \in Coalesced /\ ListFree
  /\ Callback(c, pc[c], NoCount)
  /\ pc' = [pc EXCEPT ![c] = "idle"]
  /\ UNCHANGED <<data, list, sets, killed, guiVars>>

\* Called by the manager's destructor.
RemoveConnectionData(c) ==
  /\ pc[c] = "idle" /\ ListFree
  /\ Callback(c, "remove", Len(list) - 1)
  /\ \E i \in DOMAIN list : list[i] = c /\ list' = RemoveAt(list, i)    \* erase(itThis)
  /\ pc' = [pc EXCEPT ![c] = "destroyed"]
  /\ UNCHANGED <<data, sets, killed, guiVars>>

-----------------------------------------------------------------------------
(* The GUI thread.  GetMessage hands out posted messages before input and   *)
(* timers, hence messages = <<>> in what those start.                       *)

Show ==
  /\ gui = "hidden" /\ messages = <<>> /\ ~applying /\ opens < MaxOpens
  /\ gui' = "register" /\ toAdd' = Reverse(list) /\ opens' = opens + 1
  /\ UNCHANGED <<connVars, killed, queueVars, applying, lastCount, window>>

RegisterOne ==
  /\ gui = "register" /\ toAdd # <<>> /\ CsFree(Head(toAdd))
  /\ Callback(Head(toAdd), "add", Len(list))
  /\ toAdd' = Tail(toAdd)
  /\ UNCHANGED <<connVars, killed, gui, applying, lastCount, window, opens>>

RegisterDone ==
  /\ gui = "register" /\ toAdd = <<>> /\ gui' = "count"
  /\ UNCHANGED <<connVars, killed, queueVars, applying, toAdd, lastCount, window, opens>>

ShowCount ==
  /\ gui = "count" /\ gui' = "visible"
  /\ lastCount' = Len(list)
  /\ UNCHANGED <<connVars, killed, queueVars, applying, toAdd, window, opens>>

\* OnCancel: m_listActive, then UnregisterCallback, then everything is cleared.
Cancel ==
  /\ gui = "visible" /\ messages = <<>> /\ ~applying /\ gui' = "unregister"
  /\ UNCHANGED <<connVars, killed, queueVars, applying, toAdd, lastCount, window, opens>>

UnregisterKeeps ==    \* mutant: the operation list is not cleared
  /\ gui = "unregister" /\ gui' = "hidden"
  /\ window' = Empty
  /\ UNCHANGED <<connVars, killed, ops, messages, applying, toAdd, lastCount, opens>>
Unregister ==
  /\ gui = "unregister" /\ gui' = "hidden"
  /\ ops' = <<>> /\ window' = Empty
  /\ UNCHANGED <<connVars, killed, messages, applying, toAdd, lastCount, opens>>

HasRow(w, c)  == \E i \in DOMAIN w.rows : w.rows[i].id = c
NotIdle(w, o) == IF IsIdle(o.data) THEN w.idle \cup {o.id} ELSE w.idle \ {o.id}
Row(o)        == [id |-> o.id, out |-> o.data.out, in |-> o.data.in, text |-> o.data.text]

ApplyLeaving(w, o) ==    \* mutant: the speeds of a removed connection stay
  CASE o.cat = "add" ->
         [w EXCEPT !.idle = NotIdle(w, o), !.rows = <<Row(o)>> \o @]
    [] o.cat = "update" /\ HasRow(w, o.id) ->
         [w EXCEPT !.idle = NotIdle(w, o),
                   !.rows = [i \in DOMAIN @ |-> IF @[i].id = o.id THEN Row(o) ELSE @[i]]]
    [] o.cat = "traffic" ->
         [w EXCEPT !.speeds = {s \in @ : s[1] # o.id} \cup {<<o.id, o.data.traffic>>}]
    [] o.cat = "remove" /\ HasRow(w, o.id) ->
         [w EXCEPT !.closing = @ \cup {o.id}, !.idle = @ \ {o.id}]
    [] OTHER -> w
Apply(w, o) ==
  CASE o.cat = "add" ->
         [w EXCEPT !.idle = NotIdle(w, o), !.rows = <<Row(o)>> \o @]
    [] o.cat = "update" /\ HasRow(w, o.id) ->
         [w EXCEPT !.idle = NotIdle(w, o),
                   !.rows = [i \in DOMAIN @ |-> IF @[i].id = o.id THEN Row(o) ELSE @[i]]]
    [] o.cat = "traffic" ->
         [w EXCEPT !.speeds = {s \in @ : s[1] # o.id} \cup {<<o.id, o.data.traffic>>}]
    [] o.cat = "remove" /\ HasRow(w, o.id) ->
         [w EXCEPT !.closing = @ \cup {o.id}, !.idle = @ \ {o.id},
                   !.speeds = {s \in @ : s[1] # o.id}]
    [] OTHER -> w

OnUpdateNotify ==
  /\ gui \in {"visible", "hidden"} /\ messages # <<>> /\ ~applying
  /\ messages' = Tail(messages)
  /\ lastCount' = IF Head(messages) = NoCount THEN lastCount ELSE Head(messages)
  /\ applying' = TRUE
  /\ UNCHANGED <<connVars, killed, gui, ops, toAdd, window, opens>>

ApplyOne ==
  /\ applying /\ ops # <<>>
  /\ window' = Apply(window, Head(ops)) /\ ops' = Tail(ops)
  /\ UNCHANGED <<connVars, killed, messages, gui, applying, toAdd, lastCount, opens>>

ApplyDone ==
  /\ applying /\ ops = <<>> /\ applying' = FALSE
  /\ UNCHANGED <<connVars, killed, queueVars, gui, toAdd, lastCount, window, opens>>

\* A second and a half after its removal a row goes.
OnTimer(c) ==
  /\ gui = "visible" /\ messages = <<>> /\ ~applying /\ c \in window.closing
  /\ \E i \in DOMAIN window.rows :
       /\ window.rows[i].id = c /\ \A j \in 1..i-1 : window.rows[j].id # c
       /\ window' = [window EXCEPT !.rows = RemoveAt(@, i), !.closing = @ \ {c}]
  /\ UNCHANGED <<connVars, killed, queueVars, gui, applying, toAdd, lastCount, opens>>

\* The Delete key: the rows selected may be of connections that are gone.
KillTargetsAll(S) == S      \* mutant: s_connectionDataList is not looked up
KillTargets(S) == {c \in S : \E i \in DOMAIN list : list[i] = c}

KeyDelete ==
  /\ gui = "visible" /\ messages = <<>> /\ ~applying /\ ListFree /\ killed = {}
  /\ \E c \in {window.rows[i].id : i \in DOMAIN window.rows} : killed' = killed \cup KillTargets({c})
  /\ UNCHANGED <<connVars, queueVars, guiVars>>

-----------------------------------------------------------------------------
Manager(c) == SetData(c) \/ SetTraffic(c) \/ MoreTraffic(c) \/ RemoveConnectionData(c)
Window == Show \/ Cancel \/ KeyDelete \/ \E c \in Conns : OnTimer(c)
Gui    == RegisterOne \/ RegisterDone \/ ShowCount \/ Unregister \/ OnUpdateNotify
          \/ ApplyOne \/ ApplyDone
Next   == Gui \/ Window \/ \E c \in Conns : CreateConnectionData(c) \/ Manager(c) \/ UpdateNotify(c)
Spec   == Init /\ [][Next]_vars

\* The GUI thread and a thread that is notifying are scheduled.
FairSpec == Spec /\ WF_vars(Gui) /\ \A c \in Conns : WF_vars(UpdateNotify(c))

-----------------------------------------------------------------------------
Traffic  == [sec : Nat, bytes : Nat]
DataOf   == [out : {"START", "busy"}, in : {"START", "busy"}, text : Nat, traffic : Traffic]
Ops      == [id : Conns, cat : Categories, data : DataOf]
RowData  == [id : Conns, out : {"START", "busy"}, in : {"START", "busy"}, text : Nat]
Counts   == Nat \cup {NoCount}

\* Every variable has the values its comment says.
TypeOK ==
  /\ pc \in [Conns -> {"none", "idle", "update", "traffic", "destroyed"}]
  /\ data \in [Conns -> DataOf]
  /\ list \in Seq(Conns) /\ killed \subseteq Conns /\ sets \in Nat /\ opens \in Nat
  /\ gui \in {"hidden", "register", "count", "visible", "unregister"}
  /\ toAdd \in Seq(Conns) /\ ops \in Seq(Ops) /\ applying \in BOOLEAN
  /\ messages \in Seq(Counts) /\ lastCount \in Nat
  /\ window \in [rows : Seq(RowData), idle : SUBSET Conns, closing : SUBSET Conns,
                 speeds : SUBSET (Conns \X Traffic)]

\* Nobody is between a change and its notification, nor between a notification
\* and the window.
Quiet == /\ gui = "visible" /\ messages = <<>> /\ ~applying
         /\ \A c \in Conns : pc[c] \notin Coalesced

\* The rows of connections that have not been removed; and a row for c is there.
Shown == {i \in DOMAIN window.rows : window.rows[i].id \notin window.closing}
OnScreen(c) == HasRow(window, c) /\ c \notin window.closing

\* c began after d, and both are still there.
Newer(c, d) == \E i, j \in DOMAIN list : i < j /\ list[i] = c /\ list[j] = d

\* What t says was counted in the same second as what u says, or is it.
OfSecond(t, u) == t.sec = u.sec /\ t.bytes <= u.bytes

\* Once things are quiet the window shows the connections there are, newest
\* first, as they are, and counts them, and the speeds are of connections that are
\* there and of the latest second in which each moved bytes (not more than it moved:
\* what follows the first bytes of a second is not notified), whatever was coalesced,
\* and whenever the window was opened (UpdateNotify and OnUpdateNotify).
WindowShowsList ==
  Quiet =>
    /\ \A c \in Conns : OnScreen(c) <=> Contains(list, c)
    /\ \A i, j \in Shown : i < j => Newer(window.rows[i].id, window.rows[j].id)
    /\ \A i \in Shown : window.rows[i] = Row([id |-> window.rows[i].id,
                                              data |-> data[window.rows[i].id]])
    /\ window.idle = {c \in Conns : OnScreen(c) /\ IsIdle(data[c])}
    /\ lastCount = Len(list)
    /\ \A s \in window.speeds : OnScreen(s[1]) /\ OfSecond(s[2], data[s[1]].traffic)

\* ATLASSERT(FALSE) of OnUpdateNotify is not reached: an update or a removal
\* finds its row.
RowFound ==
  gui # "unregister" =>
    \A i \in DOMAIN ops :
      ops[i].cat \in {"update", "remove"} =>
        \/ HasRow(window, ops[i].id) /\ ops[i].id \notin window.closing
        \/ \E j \in 1..(i - 1) : ops[j].id = ops[i].id /\ ops[j].cat = "add"

\* The Delete key reaches no manager whose destructor is through.
KillsLiveManager ==
  [][\A c \in killed' \ killed : pc[c] \notin {"none", "destroyed"}]_vars

\* The window opens (Readme.md:107, the monitor shows the speeds of the
\* connections).
MonitorOpens == gui = "register" ~> gui # "register"
=============================================================================
