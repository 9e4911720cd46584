------------------------- MODULE ProxyServer_proofs -------------------------
(***************************************************************************)
(* Safety of ProxyServer for any number of connections and pool threads,   *)
(* and that it implements ServerContract.                                  *)
(***************************************************************************)
EXTENDS ProxyServer, TLAPS

InUse == InFunc \cup {"returned"}      \* the callback still reads its ThreadData

\* The server thread hands over one manager at a time, and is over once the
\* closing thread has joined it.
ServerInv ==
  /\ gui = "start" <=> server = "off"
  /\ gui = "start" => \A c \in Conns : conn[c] = "away"
  /\ gui \in {"switch", "deactivate", "wait", "closed"} => server = "ended"
  /\ \A c \in Conns : conn[c] = "made" => server \in {"list", "submit", "terminated"}
  /\ \A c, d \in Conns : conn[c] = "made" /\ conn[d] = "made" => c = d
  /\ \A c \in Conns : server = "submit" /\ conn[c] = "made" => c \in managerList

\* Which ThreadData is in the list.
ListInv ==
  /\ \A c \in Conns : conn[c] \in Managed => c \in managerList
  /\ \A c \in Conns : conn[c] \in InUse => c \in threadDataList
  /\ \A c \in threadDataList : \/ conn[c] \in InUse
                               \/ gui = "wait" /\ conn[c] = "finished"
  /\ gui = "closed" => threadDataList = {}

\* CloseAllThread: the callbacks left to it are those still in the list.
WalkInv ==
  /\ toWait \subseteq threadDataList
  /\ gui # "wait" => toWait = {}
  /\ gui \notin {"wait", "closed"} => \A c \in Conns : active[c]
  /\ gui = "wait" => \A c \in threadDataList :
                        /\ ~active[c]
                        /\ c \in toWait \/ conn[c] = "finished"

ClosesInv ==
  \A c \in Conns :
    closes[c] = IF conn[c] = "finished" /\ c \notin toWait THEN 1 ELSE 0

Inv == TypeOK /\ ServerInv /\ ListInv /\ WalkInv /\ ClosesInv

ConnActions(c) ==
  \/ Accept(c) \/ ListManager(c) \/ CreateThread(c) \/ WaitAndClose(c)
  \/ Connect(c) \/ ManageEnds(c) \/ Callback(c)
PlainActions ==
  \/ ServerLoop \/ AcceptNobody \/ CreateThreadFails \/ OpenProxyPort \/ AbortAllConnection
  \/ CloseProxyPort \/ Join \/ SwitchToInvalid \/ Deactivate \/ ClearLists

\* Every step is an action of one connection, or one that moves no connection.
LEMMA NextSplit ==
  ASSUME Next
  PROVE  PlainActions \/ (\E c \in Conns : ConnActions(c)) \/ UNCHANGED vars
BY DEF Next, Server, Gui, Close, ConnActions, PlainActions

LEMMA InvInit == Init => Inv
<1> SUFFICES ASSUME Init PROVE Inv
  OBVIOUS
<1> USE DEF Init
<1>1. TypeOK
  BY DEF TypeOK, GuiPcs, ServerPcs, ConnPcs
<1>2. ServerInv
  BY DEF ServerInv
<1>3. ListInv
  BY DEF ListInv, InUse, InFunc, Managed
<1>4. WalkInv /\ ClosesInv
  BY DEF WalkInv, ClosesInv
<1> QED BY <1>1, <1>2, <1>3, <1>4 DEF Inv

LEMMA TypeStep == TypeOK /\ [Next]_vars => TypeOK'
<1> SUFFICES ASSUME TypeOK, [Next]_vars PROVE TypeOK'
  OBVIOUS
<1> USE DEF TypeOK, GuiPcs, ServerPcs, ConnPcs, guiVars, listVars
<1>1. CASE UNCHANGED vars
  BY <1>1 DEF vars
<1>2. CASE PlainActions
  <2>1. CASE ServerLoop \/ AcceptNobody \/ CreateThreadFails \/ OpenProxyPort
    BY <2>1 DEF ServerLoop, AcceptNobody, CreateThreadFails, OpenProxyPort
  <2>2. CASE AbortAllConnection \/ CloseProxyPort \/ Join \/ SwitchToInvalid
    BY <2>2 DEF AbortAllConnection, CloseProxyPort, Join, SwitchToInvalid, SwitchAll
  <2>3. CASE Deactivate \/ ClearLists
    BY <2>3 DEF Deactivate, ClearLists
  <2> QED BY <1>2, <2>1, <2>2, <2>3 DEF PlainActions
<1>3. ASSUME NEW c \in Conns, ConnActions(c) PROVE TypeOK'
  <2>1. CASE Accept(c) \/ ListManager(c) \/ CreateThread(c) \/ Connect(c) \/ ManageEnds(c)
    BY <2>1 DEF Accept, ListManager, CreateThread, Connect, ManageEnds, Moves
  <2>2. CASE WaitAndClose(c)
    BY <2>2 DEF WaitAndClose
  <2>3. CASE Callback(c)
    BY <2>3 DEF Callback, Start, EraseManager, Destroyed, WorkCallback, CloseOwnWork, Moves
  <2> QED BY <1>3, <2>1, <2>2, <2>3 DEF ConnActions
<1> QED BY <1>1, <1>2, <1>3, NextSplit

LEMMA ServerStep == Inv /\ [Next]_vars => ServerInv'
<1> SUFFICES ASSUME Inv, [Next]_vars PROVE ServerInv'
  OBVIOUS
<1> USE DEF Inv, TypeOK, ServerInv, guiVars, listVars
<1>1. CASE UNCHANGED vars
  BY <1>1 DEF vars
<1>2. CASE PlainActions
  <2>1. CASE ServerLoop \/ AcceptNobody \/ CreateThreadFails \/ OpenProxyPort
    BY <2>1 DEF ServerLoop, AcceptNobody, CreateThreadFails, OpenProxyPort
  <2>2. CASE AbortAllConnection \/ CloseProxyPort \/ Join \/ SwitchToInvalid
    BY <2>2 DEF AbortAllConnection, CloseProxyPort, Join, SwitchToInvalid, SwitchAll
  <2>3. CASE Deactivate
    BY <2>3 DEF Deactivate
  <2>4. CASE ClearLists
    BY <2>4 DEF ClearLists
  <2> QED BY <1>2, <2>1, <2>2, <2>3, <2>4 DEF PlainActions
<1>3. ASSUME NEW c \in Conns, ConnActions(c) PROVE ServerInv'
  <2>1. CASE Accept(c)
    BY <2>1 DEF Accept, Moves
  <2>2. CASE ListManager(c)
    BY <2>2 DEF ListManager
  <2>3. CASE CreateThread(c)
    BY <2>3 DEF CreateThread, Moves
  <2>4. CASE WaitAndClose(c)
    BY <2>4 DEF WaitAndClose
  <2>5. CASE Connect(c)
    BY <2>5 DEF Connect, Moves
  <2>6. CASE ManageEnds(c)
    BY <2>6 DEF ManageEnds, Moves
  <2>7. CASE Callback(c)
    BY <2>7 DEF Callback, Start, EraseManager, Destroyed, WorkCallback, CloseOwnWork, Moves
  <2> QED BY <1>3, <2>1, <2>2, <2>3, <2>4, <2>5, <2>6, <2>7 DEF ConnActions
<1> QED BY <1>1, <1>2, <1>3, NextSplit

LEMMA ListStep == Inv /\ [Next]_vars => ListInv'
<1> SUFFICES ASSUME Inv, [Next]_vars PROVE ListInv'
  OBVIOUS
<1> USE DEF Inv, TypeOK, ListInv, guiVars, listVars, InUse, InFunc, Managed
<1>1. CASE UNCHANGED vars
  BY <1>1 DEF vars
<1>2. CASE PlainActions
  <2>1. CASE ServerLoop \/ AcceptNobody \/ CreateThreadFails \/ OpenProxyPort
    BY <2>1 DEF ServerLoop, AcceptNobody, CreateThreadFails, OpenProxyPort
  <2>2. CASE AbortAllConnection \/ CloseProxyPort \/ Join \/ SwitchToInvalid
    BY <2>2 DEF AbortAllConnection, CloseProxyPort, Join, SwitchToInvalid, SwitchAll
  <2>3. CASE Deactivate
    BY <2>3 DEF Deactivate
  <2>4. CASE ClearLists
    <3>1. \A c \in Conns : conn[c] \notin InUse
      BY <2>4 DEF ClearLists, WalkInv
    <3> QED BY <2>4, <3>1 DEF ClearLists
  <2> QED BY <1>2, <2>1, <2>2, <2>3, <2>4 DEF PlainActions
<1>3. ASSUME NEW c \in Conns, ConnActions(c) PROVE ListInv'
  <2>1. CASE Accept(c) \/ Connect(c)
    BY <2>1 DEF Accept, Connect, Moves
  <2>2. CASE ListManager(c)
    BY <2>2 DEF ListManager
  <2>3. CASE CreateThread(c)
    BY <2>3 DEF CreateThread, Moves, ServerInv
  <2>4. CASE WaitAndClose(c)
    BY <2>4 DEF WaitAndClose
  <2>5. CASE ManageEnds(c) \/ Start(c)
    BY <2>5 DEF ManageEnds, Start, Moves
  <2>6. CASE EraseManager(c) \/ Destroyed(c)
    BY <2>6 DEF EraseManager, Destroyed, Moves
  <2>7. CASE WorkCallback(c) /\ active[c]
    BY <2>7 DEF WorkCallback, Moves
  <2>8. CASE WorkCallback(c) /\ ~active[c]
    BY <2>8 DEF WorkCallback, Moves, WalkInv
  <2>9. CASE CloseOwnWork(c)
    BY <2>9 DEF CloseOwnWork, Moves
  <2> QED BY <1>3, <2>1, <2>2, <2>3, <2>4, <2>5, <2>6, <2>7, <2>8, <2>9 DEF ConnActions, Callback
<1> QED BY <1>1, <1>2, <1>3, NextSplit

LEMMA WalkStep == Inv /\ [Next]_vars => WalkInv'
<1> SUFFICES ASSUME Inv, [Next]_vars PROVE WalkInv'
  OBVIOUS
<1> USE DEF Inv, TypeOK, WalkInv, guiVars, listVars
<1>1. CASE UNCHANGED vars
  BY <1>1 DEF vars
<1>2. CASE PlainActions
  <2>1. CASE ServerLoop \/ AcceptNobody \/ CreateThreadFails \/ OpenProxyPort
    BY <2>1 DEF ServerLoop, AcceptNobody, CreateThreadFails, OpenProxyPort
  <2>2. CASE AbortAllConnection \/ CloseProxyPort \/ Join \/ SwitchToInvalid
    BY <2>2 DEF AbortAllConnection, CloseProxyPort, Join, SwitchToInvalid, SwitchAll
  <2>3. CASE Deactivate
    BY <2>3 DEF Deactivate
  <2>4. CASE ClearLists
    BY <2>4 DEF ClearLists
  <2> QED BY <1>2, <2>1, <2>2, <2>3, <2>4 DEF PlainActions
<1>3. ASSUME NEW c \in Conns, ConnActions(c) PROVE WalkInv'
  <2>1. CASE Accept(c) \/ Connect(c) \/ ManageEnds(c) \/ ListManager(c)
    BY <2>1 DEF Accept, Connect, ManageEnds, ListManager, Moves
  <2>2. CASE CreateThread(c)
    BY <2>2 DEF CreateThread, Moves, ServerInv
  <2>3. CASE WaitAndClose(c)
    BY <2>3 DEF WaitAndClose, CallbackOver, ListInv, InUse, InFunc, Managed
  <2>4. CASE Start(c) \/ EraseManager(c) \/ Destroyed(c) \/ CloseOwnWork(c)
    BY <2>4 DEF Start, EraseManager, Destroyed, CloseOwnWork, Moves
  <2>5. CASE WorkCallback(c) /\ active[c]
    BY <2>5 DEF WorkCallback, Moves, ListInv, InUse
  <2>6. CASE WorkCallback(c) /\ ~active[c]
    BY <2>6 DEF WorkCallback, Moves
  <2> QED BY <1>3, <2>1, <2>2, <2>3, <2>4, <2>5, <2>6 DEF ConnActions, Callback
<1> QED BY <1>1, <1>2, <1>3, NextSplit

LEMMA ClosesStep == Inv /\ [Next]_vars => ClosesInv'
<1> SUFFICES ASSUME Inv, [Next]_vars PROVE ClosesInv'
  OBVIOUS
<1> USE DEF Inv, TypeOK, ClosesInv, guiVars, listVars
<1>1. CASE UNCHANGED vars
  BY <1>1 DEF vars
<1>2. CASE PlainActions
  <2>1. CASE ServerLoop \/ AcceptNobody \/ CreateThreadFails \/ OpenProxyPort
    BY <2>1 DEF ServerLoop, AcceptNobody, CreateThreadFails, OpenProxyPort
  <2>2. CASE AbortAllConnection \/ CloseProxyPort \/ Join \/ SwitchToInvalid
    BY <2>2 DEF AbortAllConnection, CloseProxyPort, Join, SwitchToInvalid, SwitchAll
  <2>3. CASE Deactivate
    BY <2>3 DEF Deactivate, WalkInv, ListInv, InUse, InFunc, Managed
  <2>4. CASE ClearLists
    BY <2>4 DEF ClearLists
  <2> QED BY <1>2, <2>1, <2>2, <2>3, <2>4 DEF PlainActions
<1>3. ASSUME NEW c \in Conns, ConnActions(c) PROVE ClosesInv'
  <2>1. CASE Accept(c) \/ Connect(c) \/ ManageEnds(c) \/ ListManager(c)
    BY <2>1 DEF Accept, Connect, ManageEnds, ListManager, Moves
  <2>2. CASE CreateThread(c)
    BY <2>2 DEF CreateThread, Moves
  <2>3. CASE WaitAndClose(c)
    <3>1. conn[c] = "finished"
      BY <2>3 DEF WaitAndClose, CallbackOver, WalkInv, ListInv, InUse, InFunc, Managed
    <3> QED BY <2>3, <3>1 DEF WaitAndClose
  <2>4. CASE Start(c) \/ EraseManager(c) \/ Destroyed(c)
    BY <2>4 DEF Start, EraseManager, Destroyed, Moves
  <2>5. CASE CloseOwnWork(c)
    <3>1. c \notin toWait
      BY <2>5 DEF CloseOwnWork, Moves, WalkInv, ListInv, InUse, InFunc, Managed
    <3> QED BY <2>5, <3>1 DEF CloseOwnWork, Moves
  <2>6. CASE WorkCallback(c) /\ active[c]
    BY <2>6 DEF WorkCallback, Moves
  <2>7. CASE WorkCallback(c) /\ ~active[c]
    <3>1. c \in toWait
      BY <2>7 DEF WorkCallback, Moves, WalkInv, ListInv, InUse
    <3> QED BY <2>7, <3>1 DEF WorkCallback, Moves
  <2> QED BY <1>3, <2>1, <2>2, <2>3, <2>4, <2>5, <2>6, <2>7 DEF ConnActions, Callback
<1> QED BY <1>1, <1>2, <1>3, NextSplit

LEMMA InvHolds == Spec => []Inv
<1>1. Inv /\ [Next]_vars => Inv'
  BY TypeStep, ServerStep, ListStep, WalkStep, ClosesStep DEF Inv
<1> QED BY InvInit, <1>1, PTL DEF Spec

\* Every state of CProxy and its threads is well typed.
THEOREM TypeCorrect == Spec => []TypeOK
<1>1. Inv => TypeOK
  BY DEF Inv
<1> QED BY InvHolds, <1>1, PTL

\* For any number of connections: no pool thread uses a manager or a ThreadData
\* that another thread has erased.
THEOREM NothingErasedInUseHolds == Spec => []NothingErasedInUse
<1>1. Inv => NothingErasedInUse
  BY DEF Inv, ListInv, NothingErasedInUse, InUse
<1> QED BY InvHolds, <1>1, PTL

\* The list CloseAllThread walks without its lock does not change under it.
THEOREM WalkStableHolds == Spec => []WalkStable
<1>1. Inv => WalkStable
  BY DEF Inv, TypeOK, ListInv, WalkInv, ClosesInv, WalkStable, InUse, InFunc, Managed
<1> QED BY InvHolds, <1>1, PTL

\* Every work is closed exactly once, by its callback or by CloseAllThread.
THEOREM WorkClosedOnceHolds == Spec => []WorkClosedOnce
<1>1. Inv => WorkClosedOnce
  BY DEF Inv, WalkInv, ClosesInv, WorkClosedOnce
<1> QED BY InvHolds, <1>1, PTL

-----------------------------------------------------------------------------
LEMMA ContractInit == Init => Contract!Init
BY DEF Init, Contract!Init, InFunc, Managed

LEMMA ContractStep == Inv /\ [Next]_vars => [Contract!Next]_(Contract!vars)
<1> SUFFICES ASSUME Inv, [Next]_vars PROVE [Contract!Next]_(Contract!vars)
  OBVIOUS
<1> DEFINE Taken == {d \in Conns : conn[d] \notin {"away", "backlog", "refused"}}
           Live  == {d \in Conns : conn[d] \in InFunc \cup {"made"}}
           Accepting == server \in {"loop", "select", "list", "submit", "terminated"}
<1> USE DEF Inv, TypeOK, guiVars, listVars, Contract!vars, InFunc, Managed
<1>1. CASE UNCHANGED vars
  BY <1>1 DEF vars
<1>2. CASE PlainActions
  <2>1. CASE ServerLoop
    BY <2>1 DEF ServerLoop, Contract!Next, Contract!Shut
  <2>2. CASE AcceptNobody \/ CreateThreadFails
    BY <2>2 DEF AcceptNobody, CreateThreadFails
  <2>3. CASE OpenProxyPort
    <3>1. Taken = {} /\ ~Accepting
      BY <2>3 DEF OpenProxyPort, ServerInv
    <3>2. Contract!Open
      BY <2>3, <3>1 DEF OpenProxyPort, Contract!Open
    <3> QED BY <3>2 DEF Contract!Next
  <2>4. CASE AbortAllConnection \/ CloseProxyPort \/ Join \/ SwitchToInvalid \/ Deactivate
    BY <2>4 DEF AbortAllConnection, CloseProxyPort, Join, SwitchToInvalid, SwitchAll, Deactivate
  <2>5. CASE ClearLists
    <3>1. ~Accepting /\ gui # "closed" /\ gui' = "closed" /\ UNCHANGED <<conn, server>>
      BY <2>5 DEF ClearLists, ServerInv
    <3>2. Live = {}
      BY <2>5, <3>1 DEF ClearLists, ServerInv, ListInv, WalkInv, InUse
    <3>3. Contract!Close
      BY <3>1, <3>2 DEF Contract!Close
    <3> QED BY <3>3 DEF Contract!Next
  <2> QED BY <1>2, <2>1, <2>2, <2>3, <2>4, <2>5 DEF PlainActions
<1>3. ASSUME NEW c \in Conns, ConnActions(c) PROVE [Contract!Next]_(Contract!vars)
  <2>1. CASE Accept(c) /\ conn'[c] = "made"
    <3>1. Contract!Take(c)
      BY <2>1 DEF Accept, Moves, Contract!Take
    <3> QED BY <3>1 DEF Contract!Next
  <2>2. CASE Accept(c) /\ conn'[c] # "made"
    BY <2>2 DEF Accept, Moves
  <2>3. CASE ListManager(c) \/ CreateThread(c) \/ WaitAndClose(c) \/ Connect(c) \/ ManageEnds(c)
    BY <2>3 DEF ListManager, CreateThread, WaitAndClose, Connect, ManageEnds, Moves
  <2>4. CASE Destroyed(c)
    <3>1. Contract!Finish(c)
      BY <2>4 DEF Destroyed, Moves, Contract!Finish
    <3> QED BY <3>1 DEF Contract!Next
  <2>5. CASE Start(c) \/ EraseManager(c) \/ WorkCallback(c) \/ CloseOwnWork(c)
    BY <2>5 DEF Start, EraseManager, WorkCallback, CloseOwnWork, Moves
  <2> QED BY <1>3, <2>1, <2>2, <2>3, <2>4, <2>5 DEF ConnActions, Callback
<1> QED BY <1>1, <1>2, <1>3, NextSplit

\* CProxy implements ServerContract: connections are taken once, and
\* CloseProxyPort returns only when no manager is left.
THEOREM ContractHolds == Spec => ContractSpec
BY ContractInit, ContractStep, InvHolds, PTL DEF Spec, ContractSpec, Contract!Spec
=============================================================================
