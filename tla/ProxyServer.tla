----------------------------- MODULE ProxyServer -----------------------------
(***************************************************************************)
(* CProxy and CThreadPool of the 64-bit build: the server thread accepts   *)
(* connections and gives each a manager and a thread-pool work; the GUI    *)
(* thread aborts all connections or closes the port.  What a manager does  *)
(* between its first and its last step is in RequestManager; here Manage   *)
(* only runs and ends.                                                     *)
(*                                                                         *)
(* The two std::lists are sets: their order is never looked at.  A section *)
(* under a lock is one action unless it can block inside; only the erase   *)
(* of a manager can (its destructor closes sockets and takes another lock),*)
(* so csRequestManager is a variable and m_csThreadDataList is not.        *)
(***************************************************************************)
EXTENDS FiniteSets, Naturals

CONSTANTS
  Conns,        \* connections the browsers open
  PoolMax,      \* threads of the Windows pool
  WorkMayFail,  \* CreateThreadpoolWork may return NULL
  NoOne         \* csRequestManager is free

ASSUME ServerConstantsOK ==
  /\ NoOne \notin Conns /\ PoolMax \in Nat \ {0} /\ WorkMayFail \in BOOLEAN

VARIABLES
  gui,              \* where the GUI thread is
  server,           \* where the server thread is
  serverActive,     \* m_bServerActive
  conn,             \* per connection: where it, and the thread that serves it, is
  valid,            \* per manager: m_valid
  managerList,      \* m_requestManagerList
  csRequestManager, \* owner of m_csRequestManager
  threadDataList,   \* m_threadDataList
  active,           \* per ThreadData: active
  toWait,           \* what CloseAllThread's loop has not reached yet
  closes            \* per work: calls of CloseThreadpoolWork

guiVars  == <<gui, serverActive, toWait>>
listVars == <<managerList, threadDataList>>
vars == <<guiVars, server, conn, valid, listVars, csRequestManager, active, closes>>

GuiPcs    == {"start", "messages", "join", "switch", "deactivate", "wait", "closed"}
ServerPcs == {"off", "loop", "select", "list", "submit", "ended", "terminated"}
ConnPcs   == {"away", "backlog", "refused", "made", "submitted", "running", "managed",
              "destroying", "returned", "erased", "finished"}

Managed   == {"submitted", "running", "managed"}               \* manager in use
InFunc    == Managed \cup {"destroying"}                       \* data->func() not over
InCall    == (InFunc \ {"submitted"}) \cup {"returned", "erased"}  \* on a pool thread

Init ==
  /\ gui = "start" /\ server = "off" /\ serverActive = FALSE
  /\ conn = [c \in Conns |-> "away"]
  /\ valid = [c \in Conns |-> TRUE] /\ active = [c \in Conns |-> TRUE]
  /\ closes = [c \in Conns |-> 0]
  /\ managerList = {} /\ threadDataList = {} /\ toWait = {}
  /\ csRequestManager = NoOne

Alive == server # "terminated"    \* std::terminate ends the process
Moves(c, from, to) == conn[c] = from /\ conn' = [conn EXCEPT ![c] = to]

-----------------------------------------------------------------------------
(* The server thread                                                       *)

ServerLoop ==
  /\ server = "loop"
  /\ server' = IF serverActive THEN "select" ELSE "ended"
  /\ UNCHANGED <<guiVars, conn, valid, listVars, csRequestManager, active, closes>>

\* Accept: nobody within half a second, a connection, or one already reset.
AcceptNobody ==
  /\ server = "select" /\ \A c \in Conns : conn[c] # "backlog"
  /\ server' = "loop"
  /\ UNCHANGED <<guiVars, conn, valid, listVars, csRequestManager, active, closes>>

Accept(c) ==
  /\ server = "select"
  /\ \/ Moves(c, "backlog", "made") /\ server' = "list"
     \/ Moves(c, "backlog", "refused") /\ server' = "loop"
  /\ UNCHANGED <<guiVars, valid, listVars, csRequestManager, active, closes>>

ListManager(c) ==
  /\ server = "list" /\ conn[c] = "made" /\ csRequestManager = NoOne
  /\ managerList' = managerList \cup {c}
  /\ server' = "submit"
  /\ UNCHANGED <<guiVars, conn, valid, csRequestManager, threadDataList, active, closes>>

CreateThread(c) ==
  /\ server = "submit" /\ Moves(c, "made", "submitted")
  /\ threadDataList' = threadDataList \cup {c}
  /\ server' = "loop"
  /\ UNCHANGED <<guiVars, valid, managerList, csRequestManager, active, closes>>

\* CreateThread throws, and nobody catches it on the server thread.
CreateThreadFails ==
  /\ WorkMayFail /\ server = "submit"
  /\ server' = "terminated"
  /\ UNCHANGED <<guiVars, conn, valid, listVars, csRequestManager, active, closes>>

-----------------------------------------------------------------------------
(* The callback of one work                                                *)

Start(c) ==
  /\ Cardinality({d \in Conns : conn[d] \in InCall}) < PoolMax
  /\ Moves(c, "submitted", "running")
  /\ UNCHANGED <<guiVars, server, valid, listVars, csRequestManager, active, closes>>

ManageEnds(c) ==
  /\ Moves(c, "running", "managed")
  /\ UNCHANGED <<guiVars, server, valid, listVars, csRequestManager, active, closes>>

EraseManager(c) ==
  /\ csRequestManager = NoOne /\ csRequestManager' = c
  /\ Moves(c, "managed", "destroying")
  /\ managerList' = managerList \ {c}
  /\ UNCHANGED <<guiVars, server, valid, threadDataList, active, closes>>

Destroyed(c) ==
  /\ Moves(c, "destroying", "returned")
  /\ csRequestManager' = NoOne
  /\ UNCHANGED <<guiVars, server, valid, listVars, active, closes>>

WorkCallbackAlways(c) ==    \* mutant: data->active is not looked at
  /\ Moves(c, "returned", "erased") /\ threadDataList' = threadDataList \ {c}
  /\ UNCHANGED <<guiVars, server, valid, managerList, csRequestManager, active, closes>>
WorkCallback(c) ==
  /\ \/ active[c] /\ Moves(c, "returned", "erased") /\ threadDataList' = threadDataList \ {c}
     \/ ~active[c] /\ Moves(c, "returned", "finished") /\ UNCHANGED threadDataList
  /\ UNCHANGED <<guiVars, server, valid, managerList, csRequestManager, active, closes>>

CloseOwnWork(c) ==
  /\ Moves(c, "erased", "finished")
  /\ closes' = [closes EXCEPT ![c] = @ + 1]
  /\ UNCHANGED <<guiVars, server, valid, listVars, csRequestManager, active>>

-----------------------------------------------------------------------------
(* The GUI thread                                                          *)

OpenProxyPort ==
  /\ gui = "start" /\ gui' = "messages"
  /\ serverActive' = TRUE /\ server' = "loop"
  /\ UNCHANGED <<conn, valid, listVars, csRequestManager, active, toWait, closes>>

SwitchAll == /\ csRequestManager = NoOne
             /\ valid' = [c \in Conns |-> valid[c] /\ c \notin managerList]

AbortAllConnectionStops ==    \* mutant: the abort stops the server, too
  /\ gui = "messages" /\ SwitchAll /\ serverActive' = FALSE
  /\ UNCHANGED <<gui, toWait, server, conn, listVars, csRequestManager, active, closes>>
AbortAllConnection ==
  /\ gui = "messages" /\ SwitchAll
  /\ UNCHANGED <<guiVars, server, conn, listVars, csRequestManager, active, closes>>

CloseProxyPort ==
  /\ gui = "messages" /\ gui' = "join"
  /\ serverActive' = FALSE
  /\ UNCHANGED <<server, conn, valid, listVars, csRequestManager, active, toWait, closes>>

JoinDetached ==    \* mutant: the server thread is not joined
  /\ gui = "join" /\ gui' = "switch"
  /\ UNCHANGED <<serverActive, toWait, server, conn, valid, listVars, csRequestManager,
                 active, closes>>
Join ==
  /\ gui = "join" /\ server = "ended" /\ gui' = "switch"
  /\ UNCHANGED <<serverActive, toWait, server, conn, valid, listVars, csRequestManager,
                 active, closes>>

SwitchToInvalid ==
  /\ gui = "switch" /\ SwitchAll /\ gui' = "deactivate"
  /\ UNCHANGED <<serverActive, toWait, server, conn, listVars, csRequestManager, active, closes>>

\* CloseAllThread: its first loop holds the lock, its second one does not.
Deactivate ==
  /\ gui = "deactivate" /\ gui' = "wait"
  /\ active' = [c \in Conns |-> active[c] /\ c \notin threadDataList]
  /\ toWait' = threadDataList
  /\ UNCHANGED <<serverActive, server, conn, valid, listVars, csRequestManager, closes>>

CallbackOverAtOnce(c) == conn[c] # "submitted"   \* mutant: a running callback is not waited for
CallbackOver(c) == conn[c] \in {"erased", "finished"}

WaitAndClose(c) ==
  /\ gui = "wait" /\ c \in toWait /\ CallbackOver(c)
  /\ toWait' = toWait \ {c}
  /\ closes' = [closes EXCEPT ![c] = @ + 1]
  /\ UNCHANGED <<gui, serverActive, server, conn, valid, listVars, csRequestManager, active>>

ClearLists ==
  /\ gui = "wait" /\ toWait = {} /\ gui' = "closed"
  /\ threadDataList' = {} /\ managerList' = {}
  /\ UNCHANGED <<serverActive, toWait, server, conn, valid, csRequestManager, active, closes>>

-----------------------------------------------------------------------------
Connect(c) ==
  /\ gui # "start" /\ Moves(c, "away", "backlog")
  /\ UNCHANGED <<guiVars, server, valid, listVars, csRequestManager, active, closes>>

Server == \/ ServerLoop \/ AcceptNobody \/ CreateThreadFails
          \/ \E c \in Conns : Accept(c) \/ ListManager(c) \/ CreateThread(c)
Callback(c) == \/ Start(c) \/ EraseManager(c) \/ Destroyed(c) \/ WorkCallback(c)
               \/ CloseOwnWork(c)
Close == \/ Join \/ SwitchToInvalid \/ Deactivate \/ ClearLists
         \/ \E c \in Conns : WaitAndClose(c)
Gui   == OpenProxyPort \/ AbortAllConnection \/ CloseProxyPort \/ Close

Terminated == gui = "closed" \/ ~Alive
Next == \/ Alive /\ (Server \/ Gui \/ \E c \in Conns : Connect(c) \/ ManageEnds(c) \/ Callback(c))
        \/ Terminated /\ UNCHANGED vars
Spec == Init /\ [][Next]_vars

\* Threads are scheduled, and an aborted manager ends (an assumption: AbortEnds of
\* RequestManager names the two waits in which it does not).  Nothing is assumed
\* of one that is not aborted.
FairSpec ==
  /\ Spec
  /\ WF_vars(Alive /\ Server) /\ WF_vars(Alive /\ Close)
  /\ \A c \in Conns : /\ WF_vars(Alive /\ ~valid[c] /\ ManageEnds(c))
                      /\ SF_vars(Alive /\ EraseManager(c))
                      /\ WF_vars(Alive /\ Callback(c))

-----------------------------------------------------------------------------
TypeOK ==
  /\ gui \in GuiPcs /\ server \in ServerPcs /\ serverActive \in BOOLEAN
  /\ conn \in [Conns -> ConnPcs] /\ closes \in [Conns -> Nat]
  /\ valid \in [Conns -> BOOLEAN] /\ active \in [Conns -> BOOLEAN]
  /\ managerList \subseteq Conns /\ threadDataList \subseteq Conns /\ toWait \subseteq Conns
  /\ csRequestManager \in Conns \cup {NoOne}

\* A pool thread reads its CRequestManager through a raw pointer and its
\* ThreadData through Context: neither has been erased by another thread.
NothingErasedInUse ==
  \A c \in Conns :
    /\ conn[c] \in Managed => c \in managerList
    /\ conn[c] \in InFunc \cup {"returned"} => c \in threadDataList

\* CloseAllThread walks the list without its lock: what is in the list is what
\* the walk has yet to reach or has closed.
WalkStable == gui = "wait" => toWait = {c \in threadDataList : closes[c] = 0}

\* Every work is closed once: by its callback or by CloseAllThread, not by both
\* and not by neither.
WorkClosedOnce ==
  \A c \in Conns : /\ closes[c] <= 1
                   /\ gui = "closed" /\ conn[c] = "finished" => closes[c] = 1

\* CProxy implements what it promises (ServerContract).
Contract == INSTANCE ServerContract WITH
  taken <- {c \in Conns : conn[c] \notin {"away", "backlog", "refused"}},
  live <- {c \in Conns : conn[c] \in InFunc \cup {"made"}},
  accepting <- server \in {"loop", "select", "list", "submit", "terminated"},
  closed <- gui = "closed"
ContractSpec == Contract!Spec

\* Closing the port ends, at whatever point the managers are, if those switched to
\* invalid do: no manager escapes SwitchToInvalid, and no two threads wait for
\* each other.
CloseEnds == gui = "join" ~> (gui = "closed" \/ ~Alive)

\* "Note that Proximodo continues to accept new connections, the button does
\* not stop the proxy server" (monitor.html:76).
ServesOn ==
  \A c \in Conns : conn[c] = "backlog" ~> (conn[c] # "backlog" \/ gui \notin {"start", "messages"}
                                           \/ ~Alive)
=============================================================================
