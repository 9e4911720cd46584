----------------------- MODULE ConnectionMonitor_proofs -----------------------
(***************************************************************************)
(* What holds of ConnectionMonitor for any number of connections and any   *)
(* bounds: what the window shows when things are quiet is what there is.   *)
(***************************************************************************)
EXTENDS ConnectionMonitor, SequenceTheorems, TLAPS

-----------------------------------------------------------------------------
(* Sequences.                                                              *)

LEMMA Prepended ==
  ASSUME NEW S, NEW s \in Seq(S), NEW e \in S
  PROVE  /\ <<e>> \o s \in Seq(S) /\ Len(<<e>> \o s) = Len(s) + 1
         /\ (<<e>> \o s)[1] = e
         /\ \A i \in 1..Len(s) : (<<e>> \o s)[i + 1] = s[i]
<1>1. <<e>> \in Seq(S) /\ Len(<<e>>) = 1 /\ <<e>>[1] = e
  OBVIOUS
<1>2. Len(s) \in Nat
  BY LenProperties
<1>3. /\ <<e>> \o s \in Seq(S) /\ Len(<<e>> \o s) = 1 + Len(s)
      /\ \A i \in 1 .. 1 + Len(s) : (<<e>> \o s)[i] = IF i <= 1 THEN <<e>>[i] ELSE s[i - 1]
  BY <1>1, ConcatProperties
<1>4. (<<e>> \o s)[1] = e
  BY <1>1, <1>2, <1>3
<1>5. ASSUME NEW i \in 1..Len(s) PROVE (<<e>> \o s)[i + 1] = s[i]
  <2>1. i + 1 \in 1 .. 1 + Len(s) /\ ~(i + 1 <= 1) /\ (i + 1) - 1 = i
    BY <1>2
  <2> QED BY <1>3, <2>1
<1> QED BY <1>2, <1>3, <1>4, <1>5

LEMMA Erased ==
  ASSUME NEW S, NEW s \in Seq(S), NEW k \in 1..Len(s)
  PROVE  /\ RemoveAt(s, k) \in Seq(S) /\ Len(RemoveAt(s, k)) = Len(s) - 1
         /\ \A i \in 1..Len(s)-1 : RemoveAt(s, k)[i] = IF i < k THEN s[i] ELSE s[i + 1]
<1> DEFINE a == SubSeq(s, 1, k - 1)
           b == SubSeq(s, k + 1, Len(s))
<1>1. Len(s) \in Nat /\ k \in Nat /\ k >= 1 /\ k <= Len(s)
  BY LenProperties
<1>2. /\ a \in Seq(S) /\ Len(a) = k - 1
      /\ \A i \in 1..k-1 : a[i] = s[i]
  <2>1. \A i \in 1..k-1 : i \in 1..Len(s) /\ s[i] \in S
    BY <1>1, ElementOfSeq
  <2> QED BY <1>1, <2>1, SubSeqProperties
<1>3. /\ b \in Seq(S) /\ Len(b) = Len(s) - k
      /\ \A i \in 1..Len(s)-k : b[i] = s[k + i]
  <2>1. /\ k + 1 \in 1..Len(s)+1 /\ Len(s) \in (k + 1) - 1 .. Len(s)
    BY <1>1
  <2> QED BY <1>1, <2>1, SubSeqProperties
<1> HIDE DEF a, b
<1>4. /\ a \o b \in Seq(S) /\ Len(a \o b) = Len(s) - 1
      /\ \A i \in 1..Len(s)-1 : (a \o b)[i] = IF i <= k - 1 THEN a[i] ELSE b[i - (k - 1)]
  <2>1. Len(a) + Len(b) = Len(s) - 1
    BY <1>1, <1>2, <1>3
  <2>2. /\ a \o b \in Seq(S) /\ Len(a \o b) = Len(a) + Len(b)
        /\ \A i \in 1..Len(a)+Len(b) : (a \o b)[i] = IF i <= Len(a) THEN a[i] ELSE b[i - Len(a)]
    BY <1>2, <1>3, ConcatProperties
  <2> QED BY <1>2, <2>1, <2>2
<1>5. ASSUME NEW i \in 1..Len(s)-1 PROVE (a \o b)[i] = IF i < k THEN s[i] ELSE s[i + 1]
  <2>1. CASE i < k
    <3>1. i \in 1..k-1 /\ i <= k - 1
      BY <1>1, <2>1
    <3> QED BY <1>2, <1>4, <2>1, <3>1
  <2>2. CASE ~(i < k)
    <3>1. ~(i <= k - 1) /\ i - (k - 1) \in 1..Len(s)-k /\ k + (i - (k - 1)) = i + 1
      BY <1>1, <2>2
    <3>2. b[i - (k - 1)] = s[i + 1]
      BY <1>3, <3>1
    <3> QED BY <1>4, <2>2, <3>1, <3>2
  <2> QED BY <2>1, <2>2
<1>6. RemoveAt(s, k) = a \o b
  BY DEF RemoveAt, a, b
<1> QED BY <1>4, <1>5, <1>6

LEMMA Behead ==
  ASSUME NEW S, NEW s \in Seq(S), s # <<>>
  PROVE  /\ Tail(s) \in Seq(S) /\ Len(Tail(s)) = Len(s) - 1 /\ Len(s) \in Nat /\ Len(s) >= 1
         /\ Head(s) = s[1] /\ s[1] \in S
         /\ \A i \in 1..Len(s)-1 : Tail(s)[i] = s[i + 1]
<1>1. /\ Head(s) \in S /\ Tail(s) \in Seq(S) /\ Len(Tail(s)) = Len(s) - 1
      /\ \A i \in 1..Len(Tail(s)) : Tail(s)[i] = s[i + 1]
  BY HeadTailProperties
<1>2. Len(s) \in Nat /\ Len(s) >= 1
  BY LenProperties, EmptySeq
<1>3. Head(s) = s[1]
  OBVIOUS
<1> QED BY <1>1, <1>2, <1>3

LEMMA Replaced ==
  ASSUME NEW S, NEW s \in Seq(S), NEW e \in S, NEW P
  PROVE  LET r == [i \in DOMAIN s |-> IF i \in P THEN e ELSE s[i]]
         IN /\ r \in Seq(S) /\ Len(r) = Len(s)
            /\ \A i \in 1..Len(s) : r[i] = IF i \in P THEN e ELSE s[i]
<1> DEFINE r == [i \in 1..Len(s) |-> IF i \in P THEN e ELSE s[i]]
<1>1. Len(s) \in Nat /\ DOMAIN s = 1..Len(s) /\ \A i \in 1..Len(s) : s[i] \in S
  BY LenProperties, ElementOfSeq
<1>2. r \in [1..Len(s) -> S]
  BY <1>1
<1>3. r \in Seq(S) /\ Len(r) = Len(s)
  BY <1>1, <1>2, SeqDef, LenProperties
<1> QED BY <1>1, <1>3

-----------------------------------------------------------------------------
(* What the variables hold.                                                *)

\* What a callback does to the operations and the messages.
LEMMA CallbackType ==
  ASSUME TypeOK, NEW c \in Conns, NEW cat \in Categories, NEW count \in Nat \cup {NoCount},
         Callback(c, cat, count)
  PROVE  ops' \in Seq(Ops) /\ messages' \in Seq(Counts)
<1>1. ops \in Seq(Ops) /\ messages \in Seq(Counts) /\ data[c] \in DataOf
  BY DEF TypeOK
<1> DEFINE op == [id |-> c, cat |-> cat, data |-> data[c]]
<1>2. op \in Ops /\ count \in Counts /\ NoCount \in Counts
  BY <1>1 DEF Ops, Counts
<1>3. CASE UNCHANGED queueVars
  BY <1>1, <1>3 DEF queueVars
<1>4. CASE Enqueue(op, count)
  <2>1. CASE op.cat \in Coalesced /\ Same(op.id, op.cat) # {}
    <3>1. /\ ops' = [i \in DOMAIN ops |-> IF i \in Same(op.id, op.cat) THEN op ELSE ops[i]]
          /\ UNCHANGED messages
      BY <1>4, <2>1 DEF Enqueue
    <3> HIDE DEF op
    <3>3. ops' \in Seq(Ops)
      BY <1>1, <1>2, <3>1, Replaced
    <3> QED BY <1>1, <3>1, <3>3
  <2>2. CASE ~(op.cat \in Coalesced /\ Same(op.id, op.cat) # {})
    <3>1. /\ ops' = Append(ops, op)
          /\ messages' = Append(messages, IF op.cat \in Coalesced THEN NoCount ELSE count)
      BY <1>4, <2>2 DEF Enqueue
    <3> QED BY <1>1, <1>2, <3>1, AppendProperties
  <2> QED BY <2>1, <2>2
<1> QED BY <1>3, <1>4 DEF Callback

LEMMA ApplyType ==
  ASSUME TypeOK, NEW o \in Ops
  PROVE  Apply(window, o) \in [rows : Seq(RowData), idle : SUBSET Conns, closing : SUBSET Conns,
                               speeds : SUBSET (Conns \X Traffic)]
<1>1. window \in [rows : Seq(RowData), idle : SUBSET Conns, closing : SUBSET Conns,
                  speeds : SUBSET (Conns \X Traffic)]
  BY DEF TypeOK
<1>2. o.id \in Conns /\ o.data \in DataOf /\ Row(o) \in RowData
  BY DEF Ops, DataOf, Row, RowData
<1>3. NotIdle(window, o) \in SUBSET Conns
  BY <1>1, <1>2 DEF NotIdle
<1>4. window.rows \in Seq(RowData)
  BY <1>1
<1>5. <<Row(o)>> \o window.rows \in Seq(RowData)
  BY <1>2, <1>4, Prepended
<1>6. [i \in DOMAIN window.rows |-> IF window.rows[i].id = o.id THEN Row(o) ELSE window.rows[i]]
        \in Seq(RowData)
  <2>1. \A i \in DOMAIN window.rows : window.rows[i] \in RowData
    BY <1>4
  <2> QED BY <1>2, <1>4, <2>1
<1>7. {s \in window.speeds : s[1] # o.id} \cup {<<o.id, o.data.traffic>>} \in SUBSET (Conns \X Traffic)
  <2>1. o.data.traffic \in Traffic /\ <<o.id, o.data.traffic>> \in Conns \X Traffic
    BY <1>2 DEF DataOf
  <2> QED BY <1>1, <2>1
<1>8. {s \in window.speeds : s[1] # o.id} \in SUBSET (Conns \X Traffic)
  BY <1>1
<1> QED BY <1>1, <1>2, <1>3, <1>5, <1>6, <1>7, <1>8 DEF Apply

LEMMA TypeInit == Init => TypeOK
<1> SUFFICES ASSUME Init PROVE TypeOK
  OBVIOUS
<1>1. pc \in [Conns -> {"none", "idle", "update", "traffic", "destroyed"}] /\ data \in [Conns -> DataOf]
  BY DEF Init, DataOf, Traffic
<1>2. list = <<>> /\ toAdd = <<>> /\ ops = <<>> /\ messages = <<>> /\ \A S : <<>> \in Seq(S)
  BY EmptySeq DEF Init
<1>3. list \in Seq(Conns) /\ toAdd \in Seq(Conns) /\ ops \in Seq(Ops) /\ messages \in Seq(Counts)
  BY <1>2
<1>4. /\ killed \subseteq Conns /\ sets \in Nat /\ opens \in Nat /\ lastCount \in Nat
      /\ gui = "hidden"
  BY DEF Init
<1>5. applying \in BOOLEAN
  BY DEF Init
<1>6. window \in [rows : Seq(RowData), idle : SUBSET Conns, closing : SUBSET Conns,
                  speeds : SUBSET (Conns \X Traffic)]
  BY <1>2 DEF Init, Empty
<1> QED BY <1>1, <1>3, <1>4, <1>5, <1>6 DEF TypeOK

LEMMA TypeStep == TypeOK /\ [Next]_vars => TypeOK'
<1> SUFFICES ASSUME TypeOK, [Next]_vars PROVE TypeOK'
  OBVIOUS
<1>p. /\ pc \in [Conns -> {"none", "idle", "update", "traffic", "destroyed"}]
      /\ data \in [Conns -> DataOf] /\ list \in Seq(Conns) /\ Len(list) \in Nat
  BY LenProperties DEF TypeOK
<1> USE DEF connVars, queueVars, guiVars
<1>1. CASE UNCHANGED vars
  BY <1>1 DEF vars, TypeOK
<1>2. ASSUME NEW c \in Conns, CreateConnectionData(c) PROVE TypeOK'
  <2>1. ops' \in Seq(Ops) /\ messages' \in Seq(Counts)
    <3>1. Len(list) + 1 \in Nat /\ "add" \in Categories
      BY <1>p DEF Categories
    <3> QED BY <1>2, <3>1, CallbackType DEF CreateConnectionData
  <2>2. list' \in Seq(Conns)
    BY <1>2, <1>p, Prepended DEF CreateConnectionData
  <2>3. pc' \in [Conns -> {"none", "idle", "update", "traffic", "destroyed"}]
    BY <1>2, <1>p DEF CreateConnectionData
  <2> QED BY <1>2, <2>1, <2>2, <2>3 DEF CreateConnectionData, TypeOK
<1>3. ASSUME NEW c \in Conns, SetData(c) \/ SetTraffic(c) \/ MoreTraffic(c) PROVE TypeOK'
  <2>1. data' \in [Conns -> DataOf]
    <3>1. data[c] \in DataOf
      BY <1>p
    <3>2. /\ Changes(data[c]) \subseteq DataOf
          /\ \A t \in Traffic : [data[c] EXCEPT !.traffic = t] \in DataOf
      BY <3>1 DEF Changes, DataOf
    <3>t. /\ [sec |-> data[c].traffic.sec + 1, bytes |-> 1] \in Traffic
          /\ [data[c].traffic EXCEPT !.bytes = @ + 1] \in Traffic
      BY <3>1 DEF DataOf, Traffic
    <3>3. \E d \in DataOf : data' = [data EXCEPT ![c] = d]
      <4>1. CASE SetData(c)
        BY <4>1, <3>2 DEF SetData
      <4>2. CASE SetTraffic(c)
        <5>1. data' = [data EXCEPT ![c] = [data[c] EXCEPT !.traffic =
                                             [sec |-> data[c].traffic.sec + 1, bytes |-> 1]]]
          BY <4>2, <1>p DEF SetTraffic
        <5> QED BY <5>1, <3>2, <3>t
      <4>3. CASE MoreTraffic(c)
        <5>1. data' = [data EXCEPT ![c] = [data[c] EXCEPT !.traffic =
                                             [data[c].traffic EXCEPT !.bytes = @ + 1]]]
          BY <4>3, <1>p DEF MoreTraffic
        <5> QED BY <5>1, <3>2, <3>t
      <4> QED BY <1>3, <4>1, <4>2, <4>3
    <3> QED BY <1>p, <3>3
  <2>2. pc' \in [Conns -> {"none", "idle", "update", "traffic", "destroyed"}]
    <3>1. pc' = pc \/ \E p \in {"update", "traffic"} : pc' = [pc EXCEPT ![c] = p]
      BY <1>3 DEF SetData, SetTraffic, MoreTraffic
    <3> QED BY <1>p, <3>1
  <2>3. sets' \in Nat
    <3>1. sets \in Nat /\ sets' \in {sets, sets + 1}
      BY <1>3 DEF SetData, SetTraffic, MoreTraffic, TypeOK
    <3> QED BY <3>1
  <2> QED BY <1>3, <2>1, <2>2, <2>3 DEF SetData, SetTraffic, MoreTraffic, TypeOK
<1>4. ASSUME NEW c \in Conns, UpdateNotify(c) PROVE TypeOK'
  <2>1. ops' \in Seq(Ops) /\ messages' \in Seq(Counts)
    <3>1. pc[c] \in Categories
      BY <1>4 DEF UpdateNotify, Coalesced, Categories
    <3> QED BY <1>4, <3>1, CallbackType DEF UpdateNotify
  <2>2. pc' \in [Conns -> {"none", "idle", "update", "traffic", "destroyed"}]
    BY <1>4, <1>p DEF UpdateNotify
  <2> QED BY <1>4, <2>1, <2>2 DEF UpdateNotify, TypeOK
<1>5. ASSUME NEW c \in Conns, RemoveConnectionData(c) PROVE TypeOK'
  <2>1. ops' \in Seq(Ops) /\ messages' \in Seq(Counts)
    <3>1. Len(list) - 1 \in Nat \cup {NoCount} /\ "remove" \in Categories
      BY <1>p DEF Categories, NoCount
    <3> QED BY <1>5, <3>1, CallbackType DEF RemoveConnectionData
  <2>2. list' \in Seq(Conns)
    <3>1. PICK i \in DOMAIN list : list' = RemoveAt(list, i)
      BY <1>5 DEF RemoveConnectionData
    <3> QED BY <1>p, <3>1, Erased
  <2>3. pc' \in [Conns -> {"none", "idle", "update", "traffic", "destroyed"}]
    BY <1>5, <1>p DEF RemoveConnectionData
  <2> QED BY <1>5, <2>1, <2>2, <2>3 DEF RemoveConnectionData, TypeOK
<1>6. CASE Show
  <2>1. Reverse(list) \in Seq(Conns)
    BY <1>p DEF Reverse
  <2> QED BY <1>6, <2>1 DEF Show, TypeOK
<1>7. CASE RegisterOne
  <2>1. toAdd \in Seq(Conns) /\ toAdd # <<>>
    BY <1>7 DEF RegisterOne, TypeOK
  <2>2. Head(toAdd) \in Conns /\ Tail(toAdd) \in Seq(Conns)
    BY <2>1, Behead
  <2>3. ops' \in Seq(Ops) /\ messages' \in Seq(Counts)
    <3>1. "add" \in Categories
      BY DEF Categories
    <3> QED BY <1>7, <1>p, <2>2, <3>1, CallbackType DEF RegisterOne
  <2> QED BY <1>7, <2>2, <2>3 DEF RegisterOne, TypeOK
<1>8. CASE RegisterDone \/ ShowCount \/ Cancel \/ ApplyDone
  BY <1>8, <1>p DEF RegisterDone, ShowCount, Cancel, ApplyDone, TypeOK
<1>9. CASE Unregister
  <2>1. Empty \in [rows : Seq(RowData), idle : SUBSET Conns, closing : SUBSET Conns,
                   speeds : SUBSET (Conns \X Traffic)]
    BY DEF Empty
  <2> QED BY <1>9, <2>1 DEF Unregister, TypeOK
<1>10. CASE OnUpdateNotify
  <2>1. messages \in Seq(Counts) /\ messages # <<>>
    BY <1>10 DEF OnUpdateNotify, TypeOK
  <2>2. Head(messages) \in Counts /\ Tail(messages) \in Seq(Counts)
    BY <2>1, Behead
  <2>3. lastCount' \in Nat
    BY <1>10, <2>2 DEF OnUpdateNotify, Counts, TypeOK
  <2> QED BY <1>10, <2>2, <2>3 DEF OnUpdateNotify, TypeOK
<1>11. CASE ApplyOne
  <2>1. ops \in Seq(Ops) /\ ops # <<>>
    BY <1>11 DEF ApplyOne, TypeOK
  <2>2. Head(ops) \in Ops /\ Tail(ops) \in Seq(Ops)
    BY <2>1, Behead
  <2>3. window' \in [rows : Seq(RowData), idle : SUBSET Conns, closing : SUBSET Conns,
                     speeds : SUBSET (Conns \X Traffic)]
    BY <1>11, <2>2, ApplyType DEF ApplyOne
  <2> QED BY <1>11, <2>2, <2>3 DEF ApplyOne, TypeOK
<1>12. ASSUME NEW c \in Conns, OnTimer(c) PROVE TypeOK'
  <2>1. PICK i \in DOMAIN window.rows :
          window' = [window EXCEPT !.rows = RemoveAt(@, i), !.closing = @ \ {c}]
    BY <1>12 DEF OnTimer
  <2>2. window \in [rows : Seq(RowData), idle : SUBSET Conns, closing : SUBSET Conns,
                    speeds : SUBSET (Conns \X Traffic)]
    BY DEF TypeOK
  <2>3. RemoveAt(window.rows, i) \in Seq(RowData)
    BY <2>2, Erased
  <2>4. window' \in [rows : Seq(RowData), idle : SUBSET Conns, closing : SUBSET Conns,
                     speeds : SUBSET (Conns \X Traffic)]
    BY <2>1, <2>2, <2>3
  <2> QED BY <1>12, <2>4 DEF OnTimer, TypeOK
<1>13. CASE KeyDelete
  <2>1. killed' \subseteq Conns
    <3>1. \A i \in DOMAIN window.rows : window.rows[i].id \in Conns
      <4>1. window.rows \in Seq(RowData)
        BY DEF TypeOK
      <4>2. \A i \in DOMAIN window.rows : window.rows[i] \in RowData
        BY <4>1
      <4> QED BY <4>2 DEF RowData
    <3> QED BY <1>13, <3>1 DEF KeyDelete, KillTargets, TypeOK
  <2> QED BY <1>13, <2>1 DEF KeyDelete, TypeOK
<1> QED BY <1>1, <1>2, <1>3, <1>4, <1>5, <1>6, <1>7, <1>8, <1>9, <1>10, <1>11, <1>12, <1>13
        DEF Next, Gui, Window, Manager

\* For any number of connections and any bounds.
THEOREM TypeCorrect == Spec => []TypeOK
BY TypeInit, TypeStep, PTL DEF Spec

-----------------------------------------------------------------------------
(* s_connectionDataList holds the managers that are alive, each once, so the *)
(* Delete key finds in it only such a one.                                  *)

\* What has been created and not destroyed.
Live(c) == pc[c] \notin {"none", "destroyed"}

ListInv ==
  /\ \A i, j \in 1..Len(list) : list[i] = list[j] => i = j
  /\ \A c \in Conns : Contains(list, c) <=> Live(c)

\* What CreateConnectionData and RemoveConnectionData do to the list.
LEMMA Created ==
  ASSUME TypeOK, NEW c \in Conns, CreateConnectionData(c)
  PROVE  /\ list' \in Seq(Conns) /\ Len(list') = Len(list) + 1 /\ list'[1] = c
         /\ \A i \in 1..Len(list) : list'[i + 1] = list[i]
         /\ Len(list) \in Nat
<1>1. list \in Seq(Conns) /\ list' = <<c>> \o list /\ Len(list) \in Nat
  BY LenProperties DEF TypeOK, CreateConnectionData
<1> QED BY <1>1, Prepended

LEMMA Removed ==
  ASSUME TypeOK, NEW c \in Conns, RemoveConnectionData(c)
  PROVE  \E k \in 1..Len(list) :
           /\ list[k] = c /\ list' \in Seq(Conns) /\ Len(list') = Len(list) - 1
           /\ \A i \in 1..Len(list)-1 : list'[i] = IF i < k THEN list[i] ELSE list[i + 1]
           /\ Len(list) \in Nat
<1>1. list \in Seq(Conns) /\ Len(list) \in Nat /\ DOMAIN list = 1..Len(list)
  BY LenProperties DEF TypeOK
<1>2. PICK k \in 1..Len(list) : list[k] = c /\ list' = RemoveAt(list, k)
  BY <1>1 DEF RemoveConnectionData
<1> QED BY <1>1, <1>2, Erased

\* The actions that leave the list alone leave those alive alone.
LEMMA ListKept ==
  ASSUME TypeOK, Next, ~\E c \in Conns : CreateConnectionData(c) \/ RemoveConnectionData(c)
  PROVE  list' = list /\ \A c \in Conns : Live(c)' <=> Live(c)
<1> USE DEF connVars, queueVars, guiVars
<1>p. pc \in [Conns -> {"none", "idle", "update", "traffic", "destroyed"}]
  BY DEF TypeOK
<1>1. CASE UNCHANGED <<pc, list>>
  BY <1>1 DEF Live
<1>2. ASSUME NEW d \in Conns, SetData(d) \/ SetTraffic(d) \/ MoreTraffic(d) \/ UpdateNotify(d)
      PROVE  list' = list /\ \A c \in Conns : Live(c)' <=> Live(c)
  <2>1. /\ list' = list /\ Live(d)
        /\ pc' = pc \/ \E p \in {"idle", "update", "traffic"} : pc' = [pc EXCEPT ![d] = p]
    BY <1>2 DEF SetData, SetTraffic, MoreTraffic, UpdateNotify, Live, Coalesced
  <2> QED BY <1>p, <2>1 DEF Live
<1>3. CASE Gui \/ Window
  BY <1>1, <1>3 DEF Gui, Window, RegisterOne, RegisterDone, ShowCount, Unregister, OnUpdateNotify,
                   ApplyOne, ApplyDone, Show, Cancel, KeyDelete, OnTimer
<1> QED BY <1>2, <1>3 DEF Next, Manager

LEMMA ListStep == TypeOK /\ ListInv /\ [Next]_vars => ListInv'
<1> SUFFICES ASSUME TypeOK, ListInv, [Next]_vars PROVE ListInv'
  OBVIOUS
<1>p. /\ pc \in [Conns -> {"none", "idle", "update", "traffic", "destroyed"}]
      /\ list \in Seq(Conns) /\ Len(list) \in Nat /\ \A i \in 1..Len(list) : list[i] \in Conns
  BY LenProperties, ElementOfSeq DEF TypeOK
<1>1. CASE UNCHANGED vars
  BY <1>1 DEF vars, connVars, ListInv, Live
<1>2. ASSUME NEW c \in Conns, CreateConnectionData(c) PROVE ListInv'
  <2>1. /\ Len(list') = Len(list) + 1 /\ list'[1] = c
        /\ \A i \in 1..Len(list) : list'[i + 1] = list[i]
    BY <1>2, Created
  <2>2. /\ ~Live(c) /\ Live(c)' /\ \A d \in Conns \ {c} : Live(d)' <=> Live(d)
    BY <1>2, <1>p DEF CreateConnectionData, Live
  <2>3. \A i \in 1..Len(list) : list[i] # c
    BY <2>2 DEF ListInv, Contains
  <2>4. \A i \in 1..Len(list') : i = 1 \/ (i - 1 \in 1..Len(list) /\ list'[i] = list[i - 1])
    BY <2>1, <1>p
  <2>5. \A i, j \in 1..Len(list') : list'[i] = list'[j] => i = j
    BY <2>1, <2>3, <2>4, <1>p DEF ListInv
  <2>6. ASSUME NEW d \in Conns PROVE Contains(list', d) <=> d = c \/ Contains(list, d)
    <3>1. 1 \in 1..Len(list') /\ \A i \in 1..Len(list) : i + 1 \in 1..Len(list')
      BY <2>1, <1>p
    <3>2. CASE d = c
      BY <2>1, <3>1, <3>2 DEF Contains
    <3>3. CASE d # c
      <4>1. ASSUME NEW i \in 1..Len(list'), list'[i] = d PROVE \E j \in 1..Len(list) : list[j] = d
        BY <2>1, <2>4, <3>3, <4>1
      <4>2. ASSUME NEW i \in 1..Len(list), list[i] = d PROVE \E j \in 1..Len(list') : list'[j] = d
        BY <2>1, <3>1, <4>2
      <4> QED BY <3>3, <4>1, <4>2 DEF Contains
    <3> QED BY <3>2, <3>3
  <2> QED BY <2>2, <2>5, <2>6 DEF ListInv
<1>3. ASSUME NEW c \in Conns, RemoveConnectionData(c) PROVE ListInv'
  <2>1. PICK k \in 1..Len(list) :
           /\ list[k] = c /\ Len(list') = Len(list) - 1
           /\ \A i \in 1..Len(list)-1 : list'[i] = IF i < k THEN list[i] ELSE list[i + 1]
    BY <1>3, Removed
  <2>2. /\ ~Live(c)' /\ \A d \in Conns \ {c} : Live(d)' <=> Live(d)
    BY <1>3, <1>p DEF RemoveConnectionData, Live
  <2>3. \A i \in 1..Len(list') :
          \/ i < k /\ i \in 1..Len(list) /\ list'[i] = list[i]
          \/ i >= k /\ i + 1 \in 1..Len(list) /\ list'[i] = list[i + 1]
    BY <2>1, <1>p
  <2>4. \A i, j \in 1..Len(list') : list'[i] = list'[j] => i = j
    BY <2>3, <1>p DEF ListInv
  <2>5. \A i \in 1..Len(list') : list'[i] # c
    BY <2>1, <2>3, <1>p DEF ListInv
  <2>6. ASSUME NEW d \in Conns \ {c} PROVE Contains(list', d) <=> Contains(list, d)
    <3>1. \A i \in 1..Len(list) :
            i = k \/ (i < k /\ i \in 1..Len(list') /\ list'[i] = list[i])
                  \/ (i > k /\ i - 1 \in 1..Len(list') /\ list'[i - 1] = list[i])
      BY <2>1, <1>p
    <3> QED BY <2>1, <2>3, <3>1 DEF Contains
  <2> QED BY <2>2, <2>4, <2>5, <2>6 DEF ListInv, Contains
<1>4. CASE Next /\ ~\E c \in Conns : CreateConnectionData(c) \/ RemoveConnectionData(c)
  BY <1>4, ListKept DEF ListInv
<1> QED BY <1>1, <1>2, <1>3, <1>4

LEMMA ListInit == Init => ListInv
<1> SUFFICES ASSUME Init PROVE ListInv
  OBVIOUS
<1>1. list = <<>> /\ Len(list) = 0 /\ \A c \in Conns : pc[c] = "none"
  BY DEF Init
<1> QED BY <1>1 DEF ListInv, Live, Contains

\* The Delete key reaches no manager whose destructor is through.
THEOREM KillsLiveManagerHolds == Spec => KillsLiveManager
<1>1. TypeOK /\ ListInv /\ [Next]_vars =>
        [\A c \in killed' \ killed : pc[c] \notin {"none", "destroyed"}]_vars
  <2> SUFFICES ASSUME TypeOK, ListInv, Next
               PROVE  \A c \in killed' \ killed : pc[c] \notin {"none", "destroyed"}
    OBVIOUS
  <2>1. CASE killed' = killed
    BY <2>1
  <2>2. CASE KeyDelete
    <3>1. \A c \in killed' \ killed : \E i \in DOMAIN list : list[i] = c
      BY <2>2 DEF KeyDelete, KillTargets
    <3>2. DOMAIN list = 1..Len(list) /\ \A i \in 1..Len(list) : list[i] \in Conns
      BY LenProperties, ElementOfSeq DEF TypeOK
    <3> QED BY <3>1, <3>2 DEF ListInv, Live, Contains
  <2> QED BY <2>1, <2>2 DEF Next, Gui, Window, Manager, guiVars,
        RegisterOne, RegisterDone, ShowCount, Unregister, OnUpdateNotify, ApplyOne, ApplyDone, Show,
        Cancel, OnTimer, CreateConnectionData, SetData, SetTraffic, MoreTraffic, RemoveConnectionData, UpdateNotify
<1>2. Spec => [](TypeOK /\ ListInv)
  BY TypeInit, TypeStep, ListInit, ListStep, PTL DEF Spec
<1> QED BY <1>1, <1>2, PTL DEF Spec, KillsLiveManager

-----------------------------------------------------------------------------
(* The inductive invariant.  Listening is when callbacks reach the window;   *)
(* n operations are waiting, m rows are shown.                              *)

Listening   == gui \in {"register", "count", "visible"}
n           == Len(ops)
m           == Len(window.rows)
Has(c, cat) == \E i \in 1..n : ops[i].id = c /\ ops[i].cat = cat
RowOf(c)    == Row([id |-> c, data |-> data[c]])
Id(i)       == window.rows[i].id

\* The stages of the GUI thread, and what the lock of the operations promises.
GuiInv ==
  /\ gui = "hidden" => ops = <<>> /\ window = Empty
  /\ gui = "register" =>
       /\ window = Empty /\ Len(toAdd) <= Len(list)
       /\ \A k \in 1..Len(toAdd) : toAdd[k] = list[(Len(toAdd) - k) + 1]
       /\ \A i \in 1..n : ops[i].cat = "add"
  /\ gui # "register" => toAdd = <<>>
  /\ applying => gui \in {"visible", "hidden"}
  /\ ~applying /\ ops # <<>> => messages # <<>>

\* No operation is there twice; one that is no addition finds a row, or the
\* addition before it; a removal is the last of its connection.
OpsInv ==
  Listening =>
    /\ \A i, j \in 1..n : ops[i].id = ops[j].id /\ ops[i].cat = ops[j].cat => i = j
    /\ \A i \in 1..n : ops[i].cat # "add" =>
         \/ OnScreen(ops[i].id)
         \/ \E j \in 1..(i - 1) : ops[j].id = ops[i].id /\ ops[j].cat = "add"
    /\ \A i, j \in 1..n : ops[i].cat = "remove" /\ ops[j].id = ops[i].id => j <= i

\* A connection has one row, none while its addition waits; a row that is going
\* is of a connection that is gone and has nothing waiting.
RowsInv ==
  Listening =>
    /\ \A i, j \in 1..m : Id(i) = Id(j) => i = j
    /\ \A i \in 1..n : ops[i].cat = "add" => ~HasRow(window, ops[i].id)
    /\ \A c \in window.closing :
         pc[c] = "destroyed" /\ HasRow(window, c) /\ \A i \in 1..n : ops[i].id # c

\* What is added or shown is what is alive and no longer to be registered, and
\* what is gone and not yet removed.
KnownInv ==
  Listening =>
    \A c \in Conns :
      /\ Has(c, "remove") => pc[c] = "destroyed"
      /\ Has(c, "add") \/ OnScreen(c) <=> (Live(c) /\ ~Contains(toAdd, c)) \/ Has(c, "remove")

RowInv == GuiInv /\ OpsInv /\ RowsInv /\ KnownInv

\* The newest of what is waiting, or else the row, is the connection as it is,
\* unless its thread is between the change and its notification.
FreshInv ==
  Listening =>
    \A c \in Conns : pc[c] \in {"idle", "traffic"} =>
      /\ \A i \in 1..n : ops[i].id = c /\ ops[i].cat = "update" => Row(ops[i]) = RowOf(c)
      /\ ~Has(c, "update") =>
           /\ \A i \in 1..n : ops[i].id = c /\ ops[i].cat = "add" => Row(ops[i]) = RowOf(c)
           /\ \A i \in 1..m : Id(i) = c => window.rows[i] = RowOf(c)

\* idle is what the rows say.
IdleInv ==
  Listening =>
    \A c \in Conns : c \in window.idle <=>
      /\ c \notin window.closing
      /\ \E i \in 1..m : Id(i) = c /\ window.rows[i].out = "START" /\ window.rows[i].in = "START"

\* The speeds are of rows that stay, and the latest, with the same exception.
SpeedInv ==
  Listening =>
    /\ \A s \in window.speeds : HasRow(window, s[1]) /\ s[1] \notin window.closing
    /\ \A c \in Conns : pc[c] \in {"idle", "update"} =>
         /\ \A i \in 1..n : ops[i].id = c /\ ops[i].cat = "traffic" => OfSecond(ops[i].data.traffic, data[c].traffic)
         /\ ~Has(c, "traffic") => \A s \in window.speeds : s[1] = c => OfSecond(s[2], data[c].traffic)

\* Newer connections are added later, and shown above.
OrderInv ==
  Listening =>
    \A c, d \in Conns : Live(c) /\ Live(d) =>
      /\ \A i, j \in 1..m : i < j /\ Id(i) = c /\ Id(j) = d => Newer(c, d)
      /\ \A i, j \in 1..n : /\ i < j /\ ops[j].id = c /\ ops[j].cat = "add"
                            /\ ops[i].id = d /\ ops[i].cat = "add"
           => Newer(c, d)
      /\ \A i \in 1..n, j \in 1..m : ops[i].id = c /\ ops[i].cat = "add" /\ Id(j) = d
           => Newer(c, d)

\* The last count that was posted is that of the list; without one, the last
\* that was taken is.
CountedInv ==
  /\ Listening =>
       \A i \in 1..Len(messages) :
         messages[i] # NoCount /\ (\A j \in i+1..Len(messages) : messages[j] = NoCount)
           => messages[i] = Len(list)
  /\ gui = "visible" =>
       ((\A j \in 1..Len(messages) : messages[j] = NoCount) => lastCount = Len(list))

DataInv == FreshInv /\ IdleInv /\ SpeedInv /\ OrderInv /\ CountedInv
MonitorInv == TypeOK /\ ListInv /\ RowInv /\ DataInv

-----------------------------------------------------------------------------
(* Sequences of the state, and what a callback does to them.               *)

LEMMA Sizes ==
  ASSUME TypeOK
  PROVE  /\ n \in Nat /\ DOMAIN ops = 1..n /\ \A i \in 1..n : ops[i] \in Ops /\ ops[i].id \in Conns
         /\ m \in Nat /\ DOMAIN window.rows = 1..m
         /\ \A i \in 1..m : window.rows[i] \in RowData /\ Id(i) \in Conns
         /\ Len(list) \in Nat /\ \A i \in 1..Len(list) : list[i] \in Conns
         /\ Len(toAdd) \in Nat /\ \A i \in 1..Len(toAdd) : toAdd[i] \in Conns
         /\ Len(messages) \in Nat /\ \A i \in 1..Len(messages) : messages[i] \in Counts
<1>1. /\ ops \in Seq(Ops) /\ window.rows \in Seq(RowData) /\ list \in Seq(Conns)
      /\ toAdd \in Seq(Conns) /\ messages \in Seq(Counts)
  BY DEF TypeOK
<1>2. /\ n \in Nat /\ DOMAIN ops = 1..n /\ \A i \in 1..n : ops[i] \in Ops
  BY <1>1, LenProperties, ElementOfSeq DEF n
<1>3. /\ m \in Nat /\ DOMAIN window.rows = 1..m /\ \A i \in 1..m : window.rows[i] \in RowData
  BY <1>1, LenProperties, ElementOfSeq DEF m
<1>4. \A o \in Ops : o.id \in Conns
  BY DEF Ops
<1>5. \A r \in RowData : r.id \in Conns
  BY DEF RowData
<1>6. /\ Len(list) \in Nat /\ \A i \in 1..Len(list) : list[i] \in Conns
      /\ Len(toAdd) \in Nat /\ \A i \in 1..Len(toAdd) : toAdd[i] \in Conns
      /\ Len(messages) \in Nat /\ \A i \in 1..Len(messages) : messages[i] \in Counts
  BY <1>1, LenProperties, ElementOfSeq
<1> QED BY <1>2, <1>3, <1>4, <1>5, <1>6 DEF Id

\* An operation that is waiting gets the data of now.
Coalesces(c, cat) ==
  /\ cat \in Coalesced /\ Has(c, cat) /\ n' = n /\ messages' = messages
  /\ \A i \in 1..n :
       /\ ops'[i].id = ops[i].id /\ ops'[i].cat = ops[i].cat
       /\ ops'[i].data = IF ops[i].id = c /\ ops[i].cat = cat THEN data[c] ELSE ops[i].data

\* An operation is added at the end, and a message posted.
Appends(c, cat, count) ==
  /\ cat \in Coalesced => ~Has(c, cat)
  /\ n' = n + 1 /\ \A i \in 1..n : ops'[i] = ops[i]
  /\ ops'[n + 1].id = c /\ ops'[n + 1].cat = cat /\ ops'[n + 1].data = data[c]
  /\ Len(messages') = Len(messages) + 1
  /\ \A i \in 1..Len(messages) : messages'[i] = messages[i]
  /\ messages'[Len(messages) + 1] = IF cat \in Coalesced THEN NoCount ELSE count

LEMMA Called ==
  ASSUME TypeOK, NEW c \in Conns, NEW cat \in Categories, NEW count \in Nat \cup {NoCount},
         Callback(c, cat, count)
  PROVE  \/ gui \in {"hidden", "unregister"} /\ UNCHANGED queueVars
         \/ gui # "hidden" /\ ~applying /\ (Coalesces(c, cat) \/ Appends(c, cat, count))
<1>1. ops \in Seq(Ops) /\ messages \in Seq(Counts) /\ data[c] \in DataOf
      /\ n \in Nat /\ DOMAIN ops = 1..n /\ Len(messages) \in Nat
  BY Sizes DEF TypeOK
<1> DEFINE op == [id |-> c, cat |-> cat, data |-> data[c]]
<1>2. op \in Ops /\ count \in Counts /\ NoCount \in Counts
  BY <1>1 DEF Ops, Counts
<1>3. op.id = c /\ op.cat = cat /\ op.data = data[c]
  OBVIOUS
<1>4. Same(op.id, op.cat) # {} <=> Has(c, cat)
  BY <1>1, <1>3 DEF Same, Has
<1> HIDE DEF op
<1>5. ASSUME Enqueue(op, count), cat \in Coalesced, Has(c, cat) PROVE Coalesces(c, cat)
  <2>1. /\ ops' = [i \in DOMAIN ops |-> IF i \in Same(c, cat) THEN op ELSE ops[i]]
        /\ UNCHANGED messages
    BY <1>3, <1>4, <1>5 DEF Enqueue
  <2>2. n' = n /\ \A i \in 1..n : ops'[i] = IF i \in Same(c, cat) THEN op ELSE ops[i]
    BY <1>1, <1>2, <2>1, Replaced DEF n
  <2>3. \A i \in 1..n : i \in Same(c, cat) <=> ops[i].id = c /\ ops[i].cat = cat
    BY <1>1 DEF Same
  <2> QED BY <1>3, <1>5, <2>1, <2>2, <2>3 DEF Coalesces
<1>6. ASSUME Enqueue(op, count), ~(cat \in Coalesced /\ Has(c, cat)) PROVE Appends(c, cat, count)
  <2>1. /\ ops' = Append(ops, op)
        /\ messages' = Append(messages, IF cat \in Coalesced THEN NoCount ELSE count)
    BY <1>3, <1>4, <1>6 DEF Enqueue
  <2>2. n' = n + 1 /\ (\A i \in 1..n : ops'[i] = ops[i]) /\ ops'[n + 1] = op
    BY <1>1, <1>2, <2>1, AppendProperties DEF n
  <2>3. /\ Len(messages') = Len(messages) + 1
        /\ \A i \in 1..Len(messages) : messages'[i] = messages[i]
        /\ messages'[Len(messages) + 1] = IF cat \in Coalesced THEN NoCount ELSE count
    BY <1>1, <1>2, <2>1, AppendProperties
  <2> QED BY <1>3, <1>6, <2>2, <2>3 DEF Appends
<1> QED BY <1>5, <1>6 DEF Callback, op

\* Which operations are waiting after a callback.
LEMMA CalledHas ==
  ASSUME TypeOK, NEW c \in Conns, NEW cat \in Categories, NEW count,
         Coalesces(c, cat) \/ Appends(c, cat, count)
  PROVE  \A d, k : Has(d, k)' <=> Has(d, k) \/ (d = c /\ k = cat)
<1>1. n \in Nat
  BY Sizes
<1>2. CASE Coalesces(c, cat)
  BY <1>1, <1>2 DEF Coalesces, Has
<1>3. CASE Appends(c, cat, count)
  <2>1. \A i \in 1..n' : i \in 1..n \/ i = n + 1
    BY <1>1, <1>3 DEF Appends
  <2>2. 1..n \subseteq 1..n' /\ n + 1 \in 1..n'
    BY <1>1, <1>3 DEF Appends
  <2> QED BY <1>3, <2>1, <2>2 DEF Appends, Has
<1> QED BY <1>2, <1>3

-----------------------------------------------------------------------------
(* The stages of the GUI thread.                                           *)

LEMMA CalledGui ==
  ASSUME TypeOK, GuiInv, NEW c \in Conns, NEW cat \in Categories, NEW count \in Nat \cup {NoCount},
         Callback(c, cat, count)
  PROVE  /\ gui = "hidden" => ops' = <<>>
         /\ ~applying /\ ops' # <<>> => messages' # <<>>
         /\ cat = "add" /\ (\A i \in 1..n : ops[i].cat = "add") => \A i \in 1..n' : ops'[i].cat = "add"
<1>1. n \in Nat /\ Len(messages) \in Nat /\ ops' \in Seq(Ops) /\ messages' \in Seq(Counts)
  BY Sizes, CallbackType
<1>2. CASE gui \in {"hidden", "unregister"} /\ UNCHANGED queueVars
  BY <1>2 DEF queueVars, GuiInv, n
<1>3. CASE gui # "hidden" /\ Coalesces(c, cat)
  <2>1. messages' = messages /\ cat # "add" /\ ops # <<>>
    <3>1. n >= 1
      BY <1>1, <1>3 DEF Coalesces, Has
    <3> QED BY <1>3, <3>1 DEF Coalesces, Coalesced, n
  <2> QED BY <1>3, <2>1 DEF GuiInv
<1>4. CASE gui # "hidden" /\ Appends(c, cat, count)
  <2>1. messages' # <<>>
    BY <1>1, <1>4 DEF Appends
  <2>2. \A i \in 1..n' : (i \in 1..n /\ ops'[i] = ops[i]) \/ ops'[i].cat = cat
    BY <1>1, <1>4 DEF Appends
  <2> QED BY <1>4, <2>1, <2>2
<1> QED BY <1>2, <1>3, <1>4, Called

LEMMA GuiStep == TypeOK /\ GuiInv /\ [Next]_vars => GuiInv'
<1> SUFFICES ASSUME TypeOK, GuiInv, [Next]_vars PROVE GuiInv'
  OBVIOUS
<1> USE DEF connVars, queueVars, guiVars
<1>1. CASE UNCHANGED vars
  BY <1>1 DEF vars, GuiInv, n
<1>2. ASSUME NEW c \in Conns, CreateConnectionData(c) PROVE GuiInv'
  <2>1. Len(list) + 1 \in Nat /\ "add" \in Categories
    BY Sizes DEF Categories
  <2> QED BY <1>2, <2>1, CalledGui DEF CreateConnectionData, GuiInv, ListFree
<1>3. ASSUME NEW c \in Conns, SetData(c) \/ SetTraffic(c) \/ MoreTraffic(c) PROVE GuiInv'
  BY <1>3 DEF SetData, SetTraffic, MoreTraffic, GuiInv, n
<1>4. ASSUME NEW c \in Conns, UpdateNotify(c) PROVE GuiInv'
  <2>1. pc[c] \in Categories
    BY <1>4 DEF UpdateNotify, Coalesced, Categories
  <2> QED BY <1>4, <2>1, CalledGui DEF UpdateNotify, GuiInv, ListFree
<1>5. ASSUME NEW c \in Conns, RemoveConnectionData(c) PROVE GuiInv'
  <2>1. Len(list) - 1 \in Nat \cup {NoCount} /\ "remove" \in Categories
    BY Sizes DEF Categories, NoCount
  <2> QED BY <1>5, <2>1, CalledGui DEF RemoveConnectionData, GuiInv, ListFree
<1>6. CASE Show
  <2>1. /\ ops = <<>> /\ n = 0 /\ window = Empty /\ Len(list) \in Nat
    BY <1>6, Sizes DEF Show, GuiInv, n
  <2>2. /\ Len(toAdd') = Len(list)
        /\ \A k \in 1..Len(toAdd') : toAdd'[k] = list[(Len(toAdd') - k) + 1]
    BY <1>6, <2>1 DEF Show, Reverse
  <2> QED BY <1>6, <2>1, <2>2 DEF Show, GuiInv, n
<1>7. CASE RegisterOne
  <2>1. toAdd \in Seq(Conns) /\ toAdd # <<>>
    BY <1>7 DEF RegisterOne, TypeOK
  <2>2. /\ Head(toAdd) \in Conns /\ Len(toAdd') = Len(toAdd) - 1 /\ Len(toAdd) \in Nat
        /\ \A k \in 1..Len(toAdd)-1 : toAdd'[k] = toAdd[k + 1]
    BY <1>7, <2>1, Behead DEF RegisterOne
  <2>3. \A k \in 1..Len(toAdd') : toAdd'[k] = list[(Len(toAdd') - k) + 1]
    <3> SUFFICES ASSUME NEW k \in 1..Len(toAdd') PROVE toAdd'[k] = list[(Len(toAdd') - k) + 1]
      OBVIOUS
    <3>1. k + 1 \in 1..Len(toAdd) /\ toAdd'[k] = toAdd[k + 1]
      BY <2>2
    <3>2. toAdd[k + 1] = list[(Len(toAdd) - (k + 1)) + 1]
      BY <1>7, <3>1 DEF RegisterOne, GuiInv
    <3>3. Len(toAdd) - (k + 1) = Len(toAdd') - k
      BY <2>2
    <3> QED BY <3>1, <3>2, <3>3
  <2>4. Len(list) \in Nat /\ "add" \in Categories
    BY Sizes DEF Categories
  <2>5. /\ ~applying /\ ops' # <<>> => messages' # <<>>
        /\ \A i \in 1..n' : ops'[i].cat = "add"
    BY <1>7, <2>2, <2>4, CalledGui DEF RegisterOne, GuiInv
  <2>6. Len(toAdd') <= Len(list')
    BY <1>7, <2>2, <2>4 DEF RegisterOne, GuiInv
  <2> QED BY <1>7, <2>3, <2>5, <2>6 DEF RegisterOne, GuiInv
<1>8. CASE RegisterDone \/ ShowCount \/ Cancel \/ ApplyDone \/ KeyDelete
  BY <1>8 DEF RegisterDone, ShowCount, Cancel, ApplyDone, KeyDelete, GuiInv, n
<1>9. CASE Unregister
  BY <1>9 DEF Unregister, GuiInv
<1>10. CASE OnUpdateNotify
  BY <1>10 DEF OnUpdateNotify, GuiInv
<1>11. CASE ApplyOne
  BY <1>11 DEF ApplyOne, GuiInv
<1>12. ASSUME NEW c \in Conns, OnTimer(c) PROVE GuiInv'
  BY <1>12 DEF OnTimer, GuiInv
<1> QED BY <1>1, <1>2, <1>3, <1>4, <1>5, <1>6, <1>7, <1>8, <1>9, <1>10, <1>11, <1>12
        DEF Next, Gui, Window, Manager

-----------------------------------------------------------------------------
(* Operations and rows: a callback.                                        *)

LEMMA CalledRows ==
  ASSUME TypeOK, OpsInv, RowsInv, Listening, window' = window,
         NEW c \in Conns, NEW cat \in Categories, NEW count,
         Coalesces(c, cat) \/ Appends(c, cat, count),
         cat \notin Coalesced => ~Has(c, cat),
         ~Has(c, "remove"),
         cat # "add" => OnScreen(c) \/ Has(c, "add"),
         cat = "add" => ~HasRow(window, c),
         c \notin window.closing,
         \A d \in window.closing : pc'[d] = "destroyed"
  PROVE  OpsInv' /\ RowsInv'
<1>1. n \in Nat
  BY Sizes
<1>2. /\ \A i \in 1..n : i \in 1..n' /\ ops'[i].id = ops[i].id /\ ops'[i].cat = ops[i].cat
      /\ \A i \in 1..n' : \/ i \in 1..n
                          \/ i = n + 1 /\ ops'[i].id = c /\ ops'[i].cat = cat /\ ~Has(c, cat)
      /\ n' \in Nat
  <2>1. CASE Coalesces(c, cat)
    BY <1>1, <2>1 DEF Coalesces
  <2>2. CASE Appends(c, cat, count)
    <3>1. \A i \in 1..n' : i \in 1..n \/ i = n + 1
      BY <1>1, <2>2 DEF Appends
    <3> QED BY <1>1, <2>2, <3>1 DEF Appends
  <2> QED BY <2>1, <2>2
<1>3. \A d : OnScreen(d) => HasRow(window', d) /\ d \notin window'.closing
  BY DEF OnScreen
<1>4. \A i, j \in 1..n' : ops'[i].id = ops'[j].id /\ ops'[i].cat = ops'[j].cat => i = j
  BY <1>1, <1>2 DEF OpsInv, Has
<1>5. ASSUME NEW i \in 1..n', ops'[i].cat # "add"
      PROVE  \/ HasRow(window', ops'[i].id) /\ ops'[i].id \notin window'.closing
             \/ \E j \in 1..(i - 1) : ops'[j].id = ops'[i].id /\ ops'[j].cat = "add"
  <2>1. CASE i \in 1..n
    <3>1. \/ OnScreen(ops[i].id)
          \/ \E j \in 1..(i - 1) : ops[j].id = ops[i].id /\ ops[j].cat = "add"
      BY <1>2, <1>5, <2>1 DEF OpsInv
    <3>2. \A j \in 1..(i - 1) : j \in 1..n
      BY <1>1, <2>1
    <3> QED BY <1>2, <1>3, <2>1, <3>1, <3>2
  <2>2. CASE i = n + 1 /\ ops'[i].id = c /\ ops'[i].cat = cat
    <3>1. cat # "add"
      BY <1>5, <2>2
    <3>2. CASE OnScreen(c)
      BY <1>3, <2>2, <3>2
    <3>3. CASE Has(c, "add")
      <4>1. PICK j \in 1..n : ops[j].id = c /\ ops[j].cat = "add"
        BY <3>3 DEF Has
      <4>2. j \in 1..(i - 1) /\ ops'[j].id = c /\ ops'[j].cat = "add"
        BY <1>1, <1>2, <2>2, <4>1
      <4> QED BY <2>2, <4>2
    <3> QED BY <3>1, <3>2, <3>3
  <2> QED BY <1>2, <2>1, <2>2
<1>6. ASSUME NEW i \in 1..n', NEW j \in 1..n', ops'[i].cat = "remove", ops'[j].id = ops'[i].id
      PROVE  j <= i
  <2>1. CASE i \in 1..n /\ j \in 1..n
    BY <1>2, <1>6, <2>1 DEF OpsInv
  <2>2. CASE i = n + 1
    BY <1>1, <1>2, <2>2
  <2>3. CASE i \in 1..n /\ j = n + 1 /\ ops'[j].id = c
    BY <1>2, <1>6, <2>3 DEF Has
  <2> QED BY <1>1, <1>2, <2>1, <2>2, <2>3
<1>7. OpsInv'
  BY <1>4, <1>5, <1>6 DEF OpsInv, OnScreen
<1>8. \A i, j \in 1..m' : Id(i)' = Id(j)' => i = j
  BY DEF RowsInv, m, Id
<1>9. \A i \in 1..n' : ops'[i].cat = "add" => ~HasRow(window', ops'[i].id)
  BY <1>2, <1>3 DEF RowsInv
<1>10. \A d \in window'.closing :
         pc'[d] = "destroyed" /\ HasRow(window', d) /\ \A i \in 1..n' : ops'[i].id # d
  BY <1>2, <1>3 DEF RowsInv
<1> QED BY <1>7, <1>8, <1>9, <1>10 DEF RowsInv

-----------------------------------------------------------------------------
(* Operations and rows: an operation is applied, or a row goes.            *)

\* What is applied, and what it makes of the window.
LEMMA Applied ==
  ASSUME TypeOK, GuiInv, ApplyOne
  PROVE  /\ gui = "visible" /\ n >= 1 /\ ops[1] \in Ops /\ n' = n - 1
         /\ \A i \in 1..n-1 : ops'[i] = ops[i + 1]
         /\ window' = Apply(window, ops[1])
<1>1. ops \in Seq(Ops) /\ ops # <<>> /\ ops' = Tail(ops) /\ window' = Apply(window, Head(ops))
  BY DEF TypeOK, ApplyOne
<1>2. gui = "visible"
  BY <1>1 DEF GuiInv, ApplyOne
<1> QED BY <1>1, <1>2, Behead DEF n

LEMMA AppliedAdd ==
  ASSUME TypeOK, NEW o \in Ops, o.cat = "add", window' = Apply(window, o)
  PROVE  /\ m' = m + 1 /\ window'.rows[1] = Row(o)
         /\ \A i \in 1..m : window'.rows[i + 1] = window.rows[i]
         /\ window'.closing = window.closing /\ window'.speeds = window.speeds
         /\ window'.idle = NotIdle(window, o)
<1>1. /\ window.rows \in Seq(RowData) /\ window \in [rows : Seq(RowData), idle : SUBSET Conns,
           closing : SUBSET Conns, speeds : SUBSET (Conns \X Traffic)]
  BY DEF TypeOK
<1>2. window' = [window EXCEPT !.idle = NotIdle(window, o), !.rows = <<Row(o)>> \o @]
  BY DEF Apply
<1>3. /\ window'.rows = <<Row(o)>> \o window.rows
      /\ window'.closing = window.closing /\ window'.speeds = window.speeds
      /\ window'.idle = NotIdle(window, o)
  BY <1>1, <1>2
<1>4. Row(o) \in RowData
  BY DEF Ops, DataOf, Row, RowData
<1> QED BY <1>1, <1>3, <1>4, Prepended DEF m

LEMMA AppliedUpdate ==
  ASSUME TypeOK, NEW o \in Ops, o.cat = "update", HasRow(window, o.id), window' = Apply(window, o)
  PROVE  /\ m' = m
         /\ \A i \in 1..m : window'.rows[i] = IF Id(i) = o.id THEN Row(o) ELSE window.rows[i]
         /\ window'.closing = window.closing /\ window'.speeds = window.speeds
         /\ window'.idle = NotIdle(window, o)
<1>1. /\ window.rows \in Seq(RowData) /\ window \in [rows : Seq(RowData), idle : SUBSET Conns,
           closing : SUBSET Conns, speeds : SUBSET (Conns \X Traffic)]
      /\ m \in Nat /\ DOMAIN window.rows = 1..m
  BY Sizes DEF TypeOK
<1>2. window' = [window EXCEPT !.idle = NotIdle(window, o),
                   !.rows = [i \in DOMAIN @ |-> IF @[i].id = o.id THEN Row(o) ELSE @[i]]]
  BY DEF Apply
<1>3. /\ window'.rows = [i \in 1..m |-> IF window.rows[i].id = o.id THEN Row(o) ELSE window.rows[i]]
      /\ window'.closing = window.closing /\ window'.speeds = window.speeds
      /\ window'.idle = NotIdle(window, o)
  BY <1>1, <1>2
<1>4. m' = m
  BY <1>1, <1>3 DEF m
<1> QED BY <1>3, <1>4 DEF Id

LEMMA AppliedTraffic ==
  ASSUME TypeOK, NEW o \in Ops, o.cat = "traffic", window' = Apply(window, o)
  PROVE  /\ window'.rows = window.rows /\ m' = m
         /\ window'.closing = window.closing /\ window'.idle = window.idle
         /\ window'.speeds = {s \in window.speeds : s[1] # o.id} \cup {<<o.id, o.data.traffic>>}
<1>1. window \in [rows : Seq(RowData), idle : SUBSET Conns,
           closing : SUBSET Conns, speeds : SUBSET (Conns \X Traffic)]
  BY DEF TypeOK
<1>2. window' = [window EXCEPT !.speeds = {s \in @ : s[1] # o.id} \cup {<<o.id, o.data.traffic>>}]
  BY DEF Apply
<1> QED BY <1>1, <1>2 DEF m

LEMMA AppliedRemove ==
  ASSUME TypeOK, NEW o \in Ops, o.cat = "remove", HasRow(window, o.id), window' = Apply(window, o)
  PROVE  /\ window'.rows = window.rows /\ m' = m
         /\ window'.closing = window.closing \cup {o.id} /\ window'.idle = window.idle \ {o.id}
         /\ window'.speeds = {s \in window.speeds : s[1] # o.id}
<1>1. window \in [rows : Seq(RowData), idle : SUBSET Conns,
           closing : SUBSET Conns, speeds : SUBSET (Conns \X Traffic)]
  BY DEF TypeOK
<1>2. window' = [window EXCEPT !.closing = @ \cup {o.id}, !.idle = @ \ {o.id},
                   !.speeds = {s \in @ : s[1] # o.id}]
  BY DEF Apply
<1> QED BY <1>1, <1>2 DEF m

\* Which operation is left, which rows are there.
LEMMA AppliedIds ==
  ASSUME TypeOK, GuiInv, OpsInv, RowsInv, ApplyOne
  PROVE  \E o \in Ops :
         /\ o = ops[1] /\ n' = n - 1 /\ 1 \in 1..n /\ gui = "visible" /\ window' = Apply(window, o)
         /\ \A i \in 1..n' : i + 1 \in 1..n /\ ops'[i] = ops[i + 1]
         /\ \A i \in 1..n : i # 1 => i - 1 \in 1..n' /\ ops'[i - 1] = ops[i]
         /\ \A d, k : Has(d, k) <=> Has(d, k)' \/ (d = o.id /\ k = o.cat)
         /\ ~Has(o.id, o.cat)'
         /\ o.cat # "add" => OnScreen(o.id)
         /\ o.cat = "add" => ~HasRow(window, o.id)
         /\ o.cat = "remove" => \A i \in 1..n' : ops'[i].id # o.id
         /\ o.id \notin window.closing
         /\ o.cat = "add" => m' = m + 1 /\ Id(1)' = o.id /\ \A i \in 1..m : Id(i + 1)' = Id(i)
         /\ o.cat # "add" => m' = m /\ \A i \in 1..m : Id(i)' = Id(i)
         /\ \A d : HasRow(window', d) <=> HasRow(window, d) \/ (o.cat = "add" /\ d = o.id)
         /\ window'.closing = IF o.cat = "remove" THEN window.closing \cup {o.id} ELSE window.closing
<1>p. /\ n \in Nat /\ m \in Nat /\ DOMAIN window.rows = 1..m
      /\ \A i \in 1..n : ops[i] \in Ops
  BY Sizes
<1>o. PICK o \in Ops : o = ops[1]
  BY Applied
<1>a. /\ gui = "visible" /\ n >= 1 /\ n' = n - 1 /\ o = ops[1]
      /\ \A i \in 1..n-1 : ops'[i] = ops[i + 1]
      /\ window' = Apply(window, o) /\ Listening /\ 1 \in 1..n
  BY <1>o, <1>p, Applied DEF Listening
<1>1. \A i \in 1..n' : i + 1 \in 1..n /\ ops'[i] = ops[i + 1]
  BY <1>p, <1>a
<1>2. ASSUME NEW i \in 1..n, i # 1 PROVE i - 1 \in 1..n' /\ ops'[i - 1] = ops[i]
  <2>1. i - 1 \in 1..n-1 /\ (i - 1) + 1 = i
    BY <1>p, <1>2
  <2> QED BY <1>a, <2>1
<1>3. \A d, k : Has(d, k) <=> Has(d, k)' \/ (d = o.id /\ k = o.cat)
  BY <1>a, <1>1, <1>2 DEF Has
<1>4. ~Has(o.id, o.cat)'
  <2>1. \A i \in 1..n' : i + 1 # 1
    BY <1>p, <1>a
  <2> QED BY <1>a, <1>1, <2>1 DEF Has, OpsInv
<1>5. o.cat # "add" => OnScreen(o.id)
  BY <1>a DEF OpsInv
<1>6. o.cat = "add" => ~HasRow(window, o.id)
  BY <1>a DEF RowsInv
<1>7. o.cat = "remove" => \A i \in 1..n' : ops'[i].id # o.id
  <2>1. \A i \in 1..n' : ~(i + 1 <= 1)
    BY <1>p, <1>a
  <2> QED BY <1>a, <1>1, <2>1 DEF OpsInv
<1>8. o.id \notin window.closing
  BY <1>a DEF RowsInv
<1>9. Row(o).id = o.id
  BY DEF Row
<1>10. /\ o.cat = "add" => m' = m + 1 /\ Id(1)' = o.id /\ \A i \in 1..m : Id(i + 1)' = Id(i)
       /\ o.cat # "add" => m' = m /\ \A i \in 1..m : Id(i)' = Id(i)
       /\ window'.closing = IF o.cat = "remove" THEN window.closing \cup {o.id} ELSE window.closing
  <2>1. CASE o.cat = "add"
    BY <1>a, <1>9, <2>1, AppliedAdd DEF Id
  <2>2. CASE o.cat = "update"
    BY <1>a, <1>5, <1>9, <2>2, AppliedUpdate DEF Id, OnScreen
  <2>3. CASE o.cat = "traffic"
    BY <1>a, <2>3, AppliedTraffic DEF Id
  <2>4. CASE o.cat = "remove"
    BY <1>a, <1>5, <2>4, AppliedRemove DEF Id, OnScreen
  <2>5. o.cat \in {"add", "update", "traffic", "remove"}
    BY <1>a DEF Ops, Categories
  <2> QED BY <2>1, <2>2, <2>3, <2>4, <2>5
<1>11. \A d : HasRow(window', d) <=> HasRow(window, d) \/ (o.cat = "add" /\ d = o.id)
  <2>1. DOMAIN window'.rows = 1..m'
    <3>1. window'.rows \in Seq(RowData)
      BY <1>a, ApplyType
    <3> QED BY <3>1 DEF m
  <2>2. /\ \A d : HasRow(window', d) <=> \E i \in 1..m' : Id(i)' = d
        /\ \A d : HasRow(window, d) <=> \E i \in 1..m : Id(i) = d
    BY <1>p, <2>1 DEF HasRow, Id
  <2>3. CASE o.cat = "add"
    <3>1. \A i \in 1..m' : i = 1 \/ (i - 1 \in 1..m /\ Id(i)' = Id(i - 1))
      <4>1. \A i \in 1..m' : i = 1 \/ (i - 1 \in 1..m /\ (i - 1) + 1 = i)
        BY <1>p, <1>10, <2>3
      <4> QED BY <1>10, <2>3, <4>1
    <3>2. 1 \in 1..m' /\ \A i \in 1..m : i + 1 \in 1..m'
      BY <1>p, <1>10, <2>3
    <3> QED BY <1>10, <2>2, <2>3, <3>1, <3>2
  <2>4. CASE o.cat # "add"
    BY <1>10, <2>2, <2>4
  <2> QED BY <2>3, <2>4
<1> QED BY <1>1, <1>2, <1>3, <1>4, <1>5, <1>6, <1>7, <1>8, <1>10, <1>11, <1>a

\* Which row goes; nothing else does.
LEMMA TimedIds ==
  ASSUME TypeOK, RowsInv, NEW c \in Conns, OnTimer(c)
  PROVE  /\ gui = "visible" /\ c \in window.closing
         /\ window'.closing = window.closing \ {c} /\ window'.idle = window.idle
         /\ window'.speeds = window.speeds
         /\ \E k \in 1..m :
              /\ Id(k) = c /\ m' = m - 1
              /\ \A i \in 1..m' : window'.rows[i] = IF i < k THEN window.rows[i] ELSE window.rows[i + 1]
         /\ \A d : HasRow(window', d) <=> HasRow(window, d) /\ d # c
<1>p. /\ m \in Nat /\ DOMAIN window.rows = 1..m /\ window.rows \in Seq(RowData)
      /\ window \in [rows : Seq(RowData), idle : SUBSET Conns,
           closing : SUBSET Conns, speeds : SUBSET (Conns \X Traffic)]
  BY Sizes DEF TypeOK
<1>1. PICK k \in 1..m :
        /\ window.rows[k].id = c
        /\ window' = [window EXCEPT !.rows = RemoveAt(@, k), !.closing = @ \ {c}]
  BY <1>p DEF OnTimer
<1>2. /\ window'.rows = RemoveAt(window.rows, k) /\ window'.closing = window.closing \ {c}
      /\ window'.idle = window.idle /\ window'.speeds = window.speeds
  BY <1>p, <1>1
<1>3. /\ window'.rows \in Seq(RowData) /\ m' = m - 1
      /\ \A i \in 1..m' : window'.rows[i] = IF i < k THEN window.rows[i] ELSE window.rows[i + 1]
  <2>1. /\ RemoveAt(window.rows, k) \in Seq(RowData) /\ Len(RemoveAt(window.rows, k)) = m - 1
        /\ \A i \in 1..m-1 :
             RemoveAt(window.rows, k)[i] = IF i < k THEN window.rows[i] ELSE window.rows[i + 1]
    BY <1>p, Erased DEF m
  <2>2. m' = Len(window'.rows)
    BY DEF m
  <2> QED BY <1>2, <2>1, <2>2
<1>4. gui = "visible" /\ Listening /\ c \in window.closing
  BY DEF OnTimer, Listening
<1>5. /\ \A d : HasRow(window', d) <=> \E i \in 1..m' : window'.rows[i].id = d
      /\ \A d : HasRow(window, d) <=> \E i \in 1..m : window.rows[i].id = d
  <2>1. DOMAIN window'.rows = 1..m'
    BY <1>3 DEF m
  <2> QED BY <1>p, <2>1 DEF HasRow
<1>6. /\ \A i \in 1..m' : i \in 1..m /\ i + 1 \in 1..m
      /\ \A i \in 1..m' : i < k \/ i + 1 > k
      /\ \A i \in 1..m : i = k \/ (i < k /\ i \in 1..m')
                               \/ (~(i - 1 < k) /\ i - 1 \in 1..m' /\ (i - 1) + 1 = i)
  BY <1>p, <1>3
<1>7. \A i \in 1..m : window.rows[i].id = c => i = k
  BY <1>1, <1>4 DEF RowsInv, Id
<1>8. \A i \in 1..m' : HasRow(window, window'.rows[i].id) /\ window'.rows[i].id # c
  <2> SUFFICES ASSUME NEW i \in 1..m'
               PROVE  HasRow(window, window'.rows[i].id) /\ window'.rows[i].id # c
    OBVIOUS
  <2>1. CASE i < k
    BY <1>p, <1>3, <1>5, <1>6, <1>7, <2>1
  <2>2. CASE ~(i < k)
    <3>1. i + 1 # k /\ i + 1 \in 1..m
      BY <1>p, <1>6, <2>2
    <3> QED BY <1>p, <1>3, <1>5, <1>7, <2>2, <3>1
  <2> QED BY <2>1, <2>2
<1>9. \A i \in 1..m : window.rows[i].id # c => HasRow(window', window.rows[i].id)
  <2> SUFFICES ASSUME NEW i \in 1..m, window.rows[i].id # c PROVE HasRow(window', window.rows[i].id)
    OBVIOUS
  <2>1. i # k
    BY <1>1
  <2>2. CASE i < k /\ i \in 1..m'
    BY <1>3, <1>5, <2>2
  <2>3. CASE ~(i - 1 < k) /\ i - 1 \in 1..m' /\ (i - 1) + 1 = i
    <3>1. window'.rows[i - 1] = window.rows[i]
      BY <1>3, <2>3
    <3> QED BY <1>5, <2>3, <3>1
  <2> QED BY <1>6, <2>1, <2>2, <2>3
<1>10. \A d : HasRow(window', d) <=> HasRow(window, d) /\ d # c
  BY <1>5, <1>8, <1>9
<1> QED BY <1>1, <1>2, <1>3, <1>4, <1>10 DEF Id

-----------------------------------------------------------------------------
(* Operations and rows: every step.                                        *)

\* A connection that was not created is not waiting and has no row.
LEMMA Unknown ==
  ASSUME TypeOK, RowInv, Listening, NEW c \in Conns, pc[c] = "none"
  PROVE  /\ \A i \in 1..n : ops[i].id # c
         /\ ~HasRow(window, c) /\ c \notin window.closing
<1>1. ~Live(c) /\ pc[c] # "destroyed"
  BY DEF Live
<1>2. ~Has(c, "remove") /\ ~Has(c, "add") /\ ~OnScreen(c) /\ c \notin window.closing
  BY <1>1 DEF RowInv, KnownInv, RowsInv
<1>3. ASSUME NEW i \in 1..n, ops[i].id = c PROVE FALSE
  <2>1. ops[i].cat # "add"
    BY <1>2, <1>3 DEF Has
  <2>2. PICK j \in 1..(i - 1) : ops[j].id = ops[i].id /\ ops[j].cat = "add"
    BY <1>2, <1>3, <2>1 DEF RowInv, OpsInv
  <2>3. j \in 1..n
    BY Sizes
  <2> QED BY <1>2, <1>3, <2>2, <2>3 DEF Has
<1> QED BY <1>2, <1>3 DEF OnScreen

LEMMA CreateRows ==
  ASSUME TypeOK, ListInv, RowInv, Listening', NEW c \in Conns, CreateConnectionData(c)
  PROVE  OpsInv' /\ RowsInv' /\ KnownInv'
<1>p. /\ pc \in [Conns -> {"none", "idle", "update", "traffic", "destroyed"}]
      /\ Len(list) + 1 \in Nat /\ "add" \in Categories /\ "add" \notin Coalesced
  BY Sizes DEF TypeOK, Categories, Coalesced
<1>1. /\ gui = gui' /\ gui \in {"count", "visible"} /\ Listening /\ window' = window
      /\ toAdd = <<>> /\ toAdd' = <<>> /\ pc[c] = "none"
      /\ Callback(c, "add", Len(list) + 1) /\ pc' = [pc EXCEPT ![c] = "idle"]
  BY DEF CreateConnectionData, ListFree, guiVars, Listening, RowInv, GuiInv
<1>2. Coalesces(c, "add") \/ Appends(c, "add", Len(list) + 1)
  BY <1>p, <1>1, Called
<1>3. /\ \A i \in 1..n : ops[i].id # c
      /\ ~HasRow(window, c) /\ c \notin window.closing
  BY <1>1, Unknown
<1>4. \A k : ~Has(c, k)
  BY <1>3 DEF Has
<1>5. \A d \in window.closing : pc'[d] = "destroyed"
  BY <1>p, <1>1, <1>3 DEF RowInv, RowsInv
<1>6. OpsInv' /\ RowsInv'
  BY <1>p, <1>1, <1>2, <1>3, <1>4, <1>5, CalledRows DEF RowInv
<1>7. \A d, k : Has(d, k)' <=> Has(d, k) \/ (d = c /\ k = "add")
  BY <1>p, <1>2, CalledHas
<1>8. ASSUME NEW d \in Conns
      PROVE  /\ Has(d, "remove")' => (pc[d] = "destroyed")'
             /\ (Has(d, "add") \/ OnScreen(d) <=> (Live(d) /\ ~Contains(toAdd, d)) \/ Has(d, "remove"))'
  <2>1. OnScreen(d)' <=> OnScreen(d)
    BY <1>1 DEF OnScreen
  <2>2. ~Contains(toAdd, d) /\ ~Contains(toAdd', d)
    BY <1>1 DEF Contains
  <2>3. /\ Has(d, "add")' <=> Has(d, "add") \/ d = c
        /\ Has(d, "remove")' <=> Has(d, "remove")
    BY <1>7
  <2>4. /\ Has(d, "remove") => pc[d] = "destroyed"
        /\ Has(d, "add") \/ OnScreen(d) <=> Live(d) \/ Has(d, "remove")
    BY <1>1, <2>2 DEF RowInv, KnownInv
  <2>5. /\ Live(d)' <=> Live(d) \/ d = c
        /\ pc[d] = "destroyed" => pc'[d] = "destroyed"
    BY <1>p, <1>1 DEF Live
  <2> QED BY <2>1, <2>2, <2>3, <2>4, <2>5
<1> QED BY <1>6, <1>8 DEF KnownInv

LEMMA RemoveRows ==
  ASSUME TypeOK, ListInv, RowInv, Listening', NEW c \in Conns, RemoveConnectionData(c)
  PROVE  OpsInv' /\ RowsInv' /\ KnownInv'
<1>p. /\ pc \in [Conns -> {"none", "idle", "update", "traffic", "destroyed"}]
      /\ Len(list) - 1 \in Nat \cup {NoCount} /\ "remove" \in Categories /\ "remove" \notin Coalesced
  BY Sizes DEF TypeOK, Categories, Coalesced, NoCount
<1>1. /\ gui = gui' /\ gui \in {"count", "visible"} /\ Listening /\ window' = window
      /\ toAdd = <<>> /\ toAdd' = <<>> /\ pc[c] = "idle"
      /\ Callback(c, "remove", Len(list) - 1) /\ pc' = [pc EXCEPT ![c] = "destroyed"]
  BY DEF RemoveConnectionData, ListFree, guiVars, Listening, RowInv, GuiInv
<1>2. Coalesces(c, "remove") \/ Appends(c, "remove", Len(list) - 1)
  BY <1>p, <1>1, Called
<1>3. /\ Live(c) /\ ~Has(c, "remove") /\ c \notin window.closing
      /\ OnScreen(c) \/ Has(c, "add")
  <2>1. Live(c) /\ pc[c] # "destroyed" /\ ~Contains(toAdd, c)
    BY <1>1 DEF Live, Contains
  <2> QED BY <1>1, <2>1 DEF RowInv, KnownInv, RowsInv
<1>5. \A d \in window.closing : pc'[d] = "destroyed"
  BY <1>p, <1>1, <1>3 DEF RowInv, RowsInv
<1>6. OpsInv' /\ RowsInv'
  BY <1>p, <1>1, <1>2, <1>3, <1>5, CalledRows DEF RowInv
<1>7. \A d, k : Has(d, k)' <=> Has(d, k) \/ (d = c /\ k = "remove")
  BY <1>p, <1>2, CalledHas
<1>8. ASSUME NEW d \in Conns
      PROVE  /\ Has(d, "remove")' => (pc[d] = "destroyed")'
             /\ (Has(d, "add") \/ OnScreen(d) <=> (Live(d) /\ ~Contains(toAdd, d)) \/ Has(d, "remove"))'
  <2>1. OnScreen(d)' <=> OnScreen(d)
    BY <1>1 DEF OnScreen
  <2>2. ~Contains(toAdd, d) /\ ~Contains(toAdd', d)
    BY <1>1 DEF Contains
  <2>3. /\ Has(d, "add")' <=> Has(d, "add")
        /\ Has(d, "remove")' <=> Has(d, "remove") \/ d = c
    BY <1>7
  <2>4. /\ Has(d, "remove") => pc[d] = "destroyed"
        /\ Has(d, "add") \/ OnScreen(d) <=> Live(d) \/ Has(d, "remove")
    BY <1>1, <2>2 DEF RowInv, KnownInv
  <2>5. /\ Live(d)' <=> Live(d) /\ d # c
        /\ pc[d] = "destroyed" \/ d = c => pc'[d] = "destroyed"
    BY <1>p, <1>1 DEF Live
  <2> QED BY <1>3, <2>1, <2>2, <2>3, <2>4, <2>5
<1> QED BY <1>6, <1>8 DEF KnownInv

LEMMA NotifyRows ==
  ASSUME TypeOK, ListInv, RowInv, Listening', NEW c \in Conns, UpdateNotify(c)
  PROVE  OpsInv' /\ RowsInv' /\ KnownInv'
<1>p. pc \in [Conns -> {"none", "idle", "update", "traffic", "destroyed"}]
  BY DEF TypeOK
<1>1. /\ gui = gui' /\ gui \in {"count", "visible"} /\ Listening /\ window' = window
      /\ toAdd = <<>> /\ toAdd' = <<>> /\ pc[c] \in Coalesced /\ pc[c] \in Categories
      /\ pc[c] \notin {"add", "remove"}
      /\ Callback(c, pc[c], NoCount) /\ pc' = [pc EXCEPT ![c] = "idle"]
  BY DEF UpdateNotify, ListFree, guiVars, Listening, RowInv, GuiInv, Categories, Coalesced
<1>2. Coalesces(c, pc[c]) \/ Appends(c, pc[c], NoCount)
  BY <1>1, Called
<1>3. /\ Live(c) /\ ~Has(c, "remove") /\ c \notin window.closing
      /\ OnScreen(c) \/ Has(c, "add")
  <2>1. Live(c) /\ pc[c] # "destroyed" /\ ~Contains(toAdd, c)
    BY <1>1 DEF Live, Contains, Coalesced
  <2> QED BY <1>1, <2>1 DEF RowInv, KnownInv, RowsInv
<1>5. \A d \in window.closing : pc'[d] = "destroyed"
  BY <1>p, <1>1, <1>3 DEF RowInv, RowsInv
<1>6. OpsInv' /\ RowsInv'
  BY <1>p, <1>1, <1>2, <1>3, <1>5, CalledRows DEF RowInv
<1>7. \A d, k : Has(d, k)' <=> Has(d, k) \/ (d = c /\ k = pc[c])
  BY <1>1, <1>2, CalledHas
<1>8. ASSUME NEW d \in Conns
      PROVE  /\ Has(d, "remove")' => (pc[d] = "destroyed")'
             /\ (Has(d, "add") \/ OnScreen(d) <=> (Live(d) /\ ~Contains(toAdd, d)) \/ Has(d, "remove"))'
  <2>1. OnScreen(d)' <=> OnScreen(d)
    BY <1>1 DEF OnScreen
  <2>2. ~Contains(toAdd, d) /\ ~Contains(toAdd', d)
    BY <1>1 DEF Contains
  <2>3. /\ Has(d, "add")' <=> Has(d, "add")
        /\ Has(d, "remove")' <=> Has(d, "remove")
    BY <1>1, <1>7
  <2>4. /\ Has(d, "remove") => pc[d] = "destroyed"
        /\ Has(d, "add") \/ OnScreen(d) <=> Live(d) \/ Has(d, "remove")
    BY <1>1, <2>2 DEF RowInv, KnownInv
  <2>5. /\ Live(d)' <=> Live(d)
        /\ pc[d] = "destroyed" => pc'[d] = "destroyed"
    BY <1>p, <1>1, <1>3 DEF Live, Coalesced
  <2> QED BY <2>1, <2>2, <2>3, <2>4, <2>5
<1> QED BY <1>6, <1>8 DEF KnownInv

\* What RegisterCallback adds next is the oldest that it has not added.
LEMMA NextToAdd ==
  ASSUME TypeOK, ListInv, GuiInv, RegisterOne
  PROVE  \E c \in Conns :
           /\ c = Head(toAdd) /\ Len(toAdd) \in 1..Len(list) /\ list[Len(toAdd)] = c
           /\ Contains(toAdd, c) /\ ~Contains(toAdd', c)
           /\ \A d \in Conns \ {c} : Contains(toAdd', d) <=> Contains(toAdd, d)
           /\ \A i \in 1..Len(toAdd) : Contains(toAdd, list[i])
<1>1. toAdd \in Seq(Conns) /\ toAdd # <<>> /\ toAdd' = Tail(toAdd) /\ Len(list) \in Nat
  BY Sizes DEF RegisterOne, TypeOK
<1>2. /\ Len(toAdd') = Len(toAdd) - 1 /\ Len(toAdd) \in Nat /\ Len(toAdd) >= 1
      /\ Head(toAdd) = toAdd[1] /\ toAdd[1] \in Conns
      /\ \A i \in 1..Len(toAdd)-1 : toAdd'[i] = toAdd[i + 1]
  BY <1>1, Behead
<1>3. /\ Len(toAdd) <= Len(list)
      /\ \A k \in 1..Len(toAdd) : toAdd[k] = list[(Len(toAdd) - k) + 1]
  BY DEF GuiInv, RegisterOne
<1>4. toAdd[1] = list[Len(toAdd)] /\ Len(toAdd) \in 1..Len(list)
  BY <1>1, <1>2, <1>3
<1>5. \A i, j \in 1..Len(toAdd) : toAdd[i] = toAdd[j] => i = j
  BY <1>1, <1>2, <1>3 DEF ListInv
<1>6. /\ \A i \in 1..Len(toAdd') : i + 1 \in 1..Len(toAdd) /\ i + 1 # 1 /\ toAdd'[i] = toAdd[i + 1]
      /\ \A i \in 1..Len(toAdd) : i = 1 \/ (i - 1 \in 1..Len(toAdd') /\ (i - 1) + 1 = i)
      /\ 1 \in 1..Len(toAdd)
  BY <1>2
<1>7. ~Contains(toAdd', toAdd[1])
  BY <1>5, <1>6 DEF Contains
<1>8. ASSUME NEW d \in Conns, d # toAdd[1] PROVE Contains(toAdd', d) <=> Contains(toAdd, d)
  <2>1. ASSUME NEW i \in 1..Len(toAdd), toAdd[i] = d PROVE \E j \in 1..Len(toAdd') : toAdd'[j] = d
    <3>1. i - 1 \in 1..Len(toAdd') /\ (i - 1) + 1 = i
      BY <1>6, <1>8, <2>1
    <3>2. toAdd'[i - 1] = d
      BY <1>6, <2>1, <3>1
    <3> QED BY <3>1, <3>2
  <2>2. ASSUME NEW i \in 1..Len(toAdd'), toAdd'[i] = d PROVE \E j \in 1..Len(toAdd) : toAdd[j] = d
    BY <1>6, <2>2
  <2> QED BY <2>1, <2>2 DEF Contains
<1>9. ASSUME NEW i \in 1..Len(toAdd) PROVE Contains(toAdd, list[i])
  <2>1. (Len(toAdd) - i) + 1 \in 1..Len(toAdd) /\ (Len(toAdd) - ((Len(toAdd) - i) + 1)) + 1 = i
    BY <1>2
  <2> QED BY <1>3, <2>1 DEF Contains
<1>10. Contains(toAdd, toAdd[1])
  BY <1>6 DEF Contains
<1> QED BY <1>2, <1>4, <1>7, <1>8, <1>9, <1>10

LEMMA RegisterRows ==
  ASSUME TypeOK, ListInv, RowInv, RegisterOne
  PROVE  OpsInv' /\ RowsInv' /\ KnownInv'
<1>p. /\ pc \in [Conns -> {"none", "idle", "update", "traffic", "destroyed"}]
      /\ Len(list) \in Nat /\ "add" \in Categories /\ "add" \notin Coalesced
  BY Sizes DEF TypeOK, Categories, Coalesced
<1>c. PICK c \in Conns :
        /\ c = Head(toAdd) /\ Len(toAdd) \in 1..Len(list) /\ list[Len(toAdd)] = c
        /\ Contains(toAdd, c) /\ ~Contains(toAdd', c)
        /\ \A d \in Conns \ {c} : Contains(toAdd', d) <=> Contains(toAdd, d)
  BY NextToAdd DEF RowInv
<1>1. /\ gui = "register" /\ gui' = "register" /\ Listening /\ window' = window /\ window = Empty
      /\ Callback(c, "add", Len(list)) /\ pc' = pc
      /\ \A i \in 1..n : ops[i].cat = "add"
  BY <1>c DEF RegisterOne, connVars, Listening, RowInv, GuiInv
<1>2. Coalesces(c, "add") \/ Appends(c, "add", Len(list))
  BY <1>p, <1>1, Called
<1>3. /\ \A d : ~HasRow(window, d) /\ ~OnScreen(d) /\ d \notin window.closing
      /\ \A d : ~Has(d, "remove")
  BY <1>1 DEF HasRow, OnScreen, Empty, Has
<1>4. Live(c) /\ ~Has(c, "add")
  <2>1. Live(c)
    BY <1>c, <1>p DEF ListInv, Contains
  <2> QED BY <1>c, <1>1, <1>3, <2>1 DEF RowInv, KnownInv
<1>6. OpsInv' /\ RowsInv'
  BY <1>p, <1>1, <1>2, <1>3, <1>4, CalledRows DEF RowInv
<1>7. \A d, k : Has(d, k)' <=> Has(d, k) \/ (d = c /\ k = "add")
  BY <1>p, <1>2, CalledHas
<1>8. ASSUME NEW d \in Conns
      PROVE  /\ Has(d, "remove")' => (pc[d] = "destroyed")'
             /\ (Has(d, "add") \/ OnScreen(d) <=> (Live(d) /\ ~Contains(toAdd, d)) \/ Has(d, "remove"))'
  <2>1. ~OnScreen(d)'
    BY <1>1, <1>3 DEF OnScreen
  <2>3. /\ Has(d, "add")' <=> Has(d, "add") \/ d = c
        /\ Has(d, "remove")' <=> Has(d, "remove")
    BY <1>7
  <2>4. Has(d, "add") <=> Live(d) /\ ~Contains(toAdd, d)
    BY <1>1, <1>3 DEF RowInv, KnownInv
  <2>5. Live(d)' <=> Live(d)
    BY <1>1 DEF Live
  <2>6. Contains(toAdd, d)' <=> Contains(toAdd, d) /\ d # c
    BY <1>c
  <2> QED BY <1>3, <1>4, <2>1, <2>3, <2>4, <2>5, <2>6
<1> QED BY <1>6, <1>8 DEF KnownInv

LEMMA ApplyRows ==
  ASSUME TypeOK, ListInv, RowInv, ApplyOne
  PROVE  OpsInv' /\ RowsInv' /\ KnownInv'
<1>p. n \in Nat /\ m \in Nat
  BY Sizes
<1>o. PICK o \in Ops :
         /\ o = ops[1] /\ n' = n - 1 /\ 1 \in 1..n /\ gui = "visible"
         /\ \A i \in 1..n' : i + 1 \in 1..n /\ ops'[i] = ops[i + 1]
         /\ \A i \in 1..n : i # 1 => i - 1 \in 1..n' /\ ops'[i - 1] = ops[i]
         /\ \A d, k : Has(d, k) <=> Has(d, k)' \/ (d = o.id /\ k = o.cat)
         /\ ~Has(o.id, o.cat)'
         /\ o.cat # "add" => OnScreen(o.id)
         /\ o.cat = "add" => ~HasRow(window, o.id)
         /\ o.cat = "remove" => \A i \in 1..n' : ops'[i].id # o.id
         /\ o.id \notin window.closing
         /\ o.cat = "add" => m' = m + 1 /\ Id(1)' = o.id /\ \A i \in 1..m : Id(i + 1)' = Id(i)
         /\ o.cat # "add" => m' = m /\ \A i \in 1..m : Id(i)' = Id(i)
         /\ \A d : HasRow(window', d) <=> HasRow(window, d) \/ (o.cat = "add" /\ d = o.id)
         /\ window'.closing = IF o.cat = "remove" THEN window.closing \cup {o.id} ELSE window.closing
  BY AppliedIds DEF RowInv
<1>1. Listening /\ pc' = pc /\ toAdd' = toAdd /\ toAdd = <<>>
  BY <1>o DEF Listening, ApplyOne, connVars, RowInv, GuiInv
<1>2. \A d : HasRow(window', d) /\ d \notin window'.closing <=>
               \/ OnScreen(d) /\ ~(o.cat = "remove" /\ d = o.id)
               \/ o.cat = "add" /\ d = o.id
  BY <1>o DEF OnScreen
<1>3. ASSUME NEW i \in 1..n', NEW j \in 1..n', ops'[i].id = ops'[j].id, ops'[i].cat = ops'[j].cat
      PROVE  i = j
  <2>1. i + 1 \in 1..n /\ j + 1 \in 1..n /\ ops'[i] = ops[i + 1] /\ ops'[j] = ops[j + 1]
    BY <1>o
  <2>2. i + 1 = j + 1
    BY <1>1, <1>3, <2>1 DEF RowInv, OpsInv
  <2> QED BY <1>p, <1>o, <2>2
<1>4. ASSUME NEW i \in 1..n', ops'[i].cat # "add"
      PROVE  \/ HasRow(window', ops'[i].id) /\ ops'[i].id \notin window'.closing
             \/ \E j \in 1..(i - 1) : ops'[j].id = ops'[i].id /\ ops'[j].cat = "add"
  <2>1. i + 1 \in 1..n /\ ops'[i] = ops[i + 1] /\ i \in Nat
    BY <1>p, <1>o
  <2>2. CASE OnScreen(ops[i + 1].id)
    BY <1>o, <1>2, <2>1, <2>2
  <2>3. CASE ~OnScreen(ops[i + 1].id)
    <3>1. PICK j \in 1..i : ops[j].id = ops[i + 1].id /\ ops[j].cat = "add"
      <4>1. (i + 1) - 1 = i
        BY <2>1
      <4>2. \E j \in 1..((i + 1) - 1) : ops[j].id = ops[i + 1].id /\ ops[j].cat = "add"
        BY <1>1, <1>4, <2>1, <2>3 DEF RowInv, OpsInv
      <4> QED BY <4>1, <4>2
    <3>2. CASE j = 1
      BY <1>o, <1>2, <2>1, <3>1, <3>2
    <3>3. CASE j # 1
      <4>1. j \in 1..n /\ j - 1 \in 1..(i - 1)
        BY <1>p, <2>1, <3>3
      <4>2. ops'[j - 1] = ops[j]
        BY <1>o, <3>3, <4>1
      <4> QED BY <2>1, <3>1, <4>1, <4>2
    <3> QED BY <3>2, <3>3
  <2> QED BY <2>2, <2>3
<1>5. ASSUME NEW i \in 1..n', NEW j \in 1..n', ops'[i].cat = "remove", ops'[j].id = ops'[i].id
      PROVE  j <= i
  <2>1. j + 1 <= i + 1
    BY <1>o, <1>1, <1>5 DEF RowInv, OpsInv
  <2> QED BY <1>p, <1>o, <2>1
<1>6. OpsInv'
  BY <1>3, <1>4, <1>5 DEF OpsInv, OnScreen
<1>7. \A i, j \in 1..m' : Id(i)' = Id(j)' => i = j
  <2>1. CASE o.cat = "add"
    <3>1. \A i \in 1..m : Id(i) # o.id
      BY <1>o, <2>1, Sizes DEF HasRow, Id
    <3>2. \A i \in 1..m' : i = 1 \/ (i - 1 \in 1..m /\ (i - 1) + 1 = i)
      BY <1>p, <1>o, <2>1
    <3>3. \A i \in 1..m' : i = 1 \/ (i - 1 \in 1..m /\ Id(i)' = Id(i - 1))
      BY <1>o, <2>1, <3>2
    <3>4. \A i, j \in 1..m : Id(i) = Id(j) => i = j
      BY <1>1 DEF RowInv, RowsInv
    <3> QED BY <1>p, <1>o, <2>1, <3>1, <3>2, <3>3, <3>4
  <2>2. CASE o.cat # "add"
    BY <1>o, <1>1, <2>2 DEF RowInv, RowsInv
  <2> QED BY <2>1, <2>2
<1>8. ASSUME NEW i \in 1..n', ops'[i].cat = "add" PROVE ~HasRow(window', ops'[i].id)
  <2>1. ~HasRow(window, ops'[i].id)
    BY <1>o, <1>1, <1>8 DEF RowInv, RowsInv
  <2>2. o.cat = "add" => ops'[i].id # o.id
    BY <1>o, <1>8 DEF Has
  <2> QED BY <1>o, <2>1, <2>2
<1>9. ASSUME NEW d \in window'.closing
      PROVE  pc'[d] = "destroyed" /\ HasRow(window', d) /\ \A i \in 1..n' : ops'[i].id # d
  <2>1. CASE d \in window.closing
    BY <1>o, <1>1, <2>1 DEF RowInv, RowsInv
  <2>2. CASE o.cat = "remove" /\ d = o.id
    <3>1. Has(o.id, "remove") /\ o.id \in Conns
      BY <1>o, <2>2 DEF Ops
    <3> QED BY <1>o, <1>1, <2>2, <3>1 DEF RowInv, KnownInv, OnScreen
  <2> QED BY <1>o, <2>1, <2>2
<1>10. RowsInv'
  BY <1>7, <1>8, <1>9 DEF RowsInv
<1>11. ASSUME NEW d \in Conns
       PROVE  /\ Has(d, "remove")' => (pc[d] = "destroyed")'
              /\ (Has(d, "add") \/ OnScreen(d) <=> (Live(d) /\ ~Contains(toAdd, d)) \/ Has(d, "remove"))'
  <2>1. OnScreen(d)' <=> \/ OnScreen(d) /\ ~(o.cat = "remove" /\ d = o.id)
                         \/ o.cat = "add" /\ d = o.id
    BY <1>2 DEF OnScreen
  <2>2. /\ Has(d, "add") <=> Has(d, "add")' \/ (d = o.id /\ o.cat = "add")
        /\ Has(d, "remove") <=> Has(d, "remove")' \/ (d = o.id /\ o.cat = "remove")
    BY <1>o
  <2>3. /\ Has(d, "remove") => pc[d] = "destroyed"
        /\ Has(d, "add") \/ OnScreen(d) <=> (Live(d) /\ ~Contains(toAdd, d)) \/ Has(d, "remove")
    BY <1>1 DEF RowInv, KnownInv
  <2>4. Live(d)' <=> Live(d)
    BY <1>1 DEF Live
  <2>5. o.cat = "remove" /\ d = o.id => ~Live(d) /\ ~Has(d, "add")' /\ ~Has(d, "remove")'
    BY <1>o, <2>2, <2>3 DEF Live, Has
  <2> QED BY <1>1, <2>1, <2>2, <2>3, <2>4, <2>5
<1> QED BY <1>6, <1>10, <1>11 DEF KnownInv

LEMMA TimerRows ==
  ASSUME TypeOK, ListInv, RowInv, NEW c \in Conns, OnTimer(c)
  PROVE  OpsInv' /\ RowsInv' /\ KnownInv'
<1>1. /\ gui = "visible" /\ c \in window.closing /\ window'.closing = window.closing \ {c}
      /\ \A d : HasRow(window', d) <=> HasRow(window, d) /\ d # c
  BY TimedIds DEF RowInv
<1>2. PICK k \in 1..m :
        /\ Id(k) = c /\ m' = m - 1
        /\ \A i \in 1..m' : window'.rows[i] = IF i < k THEN window.rows[i] ELSE window.rows[i + 1]
  BY TimedIds DEF RowInv
<1>3. Listening /\ ops' = ops /\ n' = n /\ pc' = pc /\ toAdd' = toAdd /\ m \in Nat
  BY <1>1, Sizes DEF OnTimer, Listening, connVars, queueVars, n
<1>4. \A d : HasRow(window', d) /\ d \notin window'.closing <=> OnScreen(d)
  BY <1>1 DEF OnScreen
<1>5. OpsInv'
  BY <1>3, <1>4 DEF OpsInv, OnScreen, RowInv
<1>6. \A i, j \in 1..m' : Id(i)' = Id(j)' => i = j
  <2>1. \A i \in 1..m' : \/ i < k /\ i \in 1..m /\ Id(i)' = Id(i)
                         \/ i >= k /\ i + 1 \in 1..m /\ Id(i)' = Id(i + 1)
    BY <1>2, <1>3 DEF Id
  <2>2. \A i, j \in 1..m : Id(i) = Id(j) => i = j
    BY <1>3 DEF RowInv, RowsInv
  <2> QED BY <1>2, <1>3, <2>1, <2>2
<1>7. RowsInv'
  BY <1>1, <1>3, <1>6 DEF RowsInv, RowInv
<1>8. \A d \in Conns :
         /\ OnScreen(d)' <=> OnScreen(d)
         /\ Live(d)' <=> Live(d)
         /\ \A k0 : Has(d, k0)' <=> Has(d, k0)
  BY <1>3, <1>4 DEF OnScreen, Live, Has
<1>9. KnownInv'
  BY <1>3, <1>8 DEF KnownInv, RowInv
<1> QED BY <1>5, <1>7, <1>9

LEMMA ShowRows ==
  ASSUME TypeOK, ListInv, RowInv, Show
  PROVE  OpsInv' /\ RowsInv' /\ KnownInv'
<1>1. /\ ops' = <<>> /\ n' = 0 /\ window' = Empty /\ pc' = pc
      /\ toAdd' = Reverse(list) /\ Len(list) \in Nat
  BY Sizes DEF Show, connVars, queueVars, RowInv, GuiInv, n
<1>2. /\ \A d : ~HasRow(window', d) /\ d \notin window'.closing
      /\ m' = 0 /\ 1..n' = {} /\ 1..m' = {}
  BY <1>1 DEF HasRow, Empty, m
<1>3. OpsInv' /\ RowsInv'
  BY <1>2 DEF OpsInv, RowsInv
<1>4. ASSUME NEW d \in Conns, Live(d)' PROVE Contains(toAdd', d)
  <2>1. Contains(list, d)
    BY <1>1, <1>4 DEF ListInv, Live
  <2>2. PICK i \in 1..Len(list) : list[i] = d
    BY <2>1 DEF Contains
  <2>3. (Len(list) - i) + 1 \in 1..Len(list) /\ (Len(list) - ((Len(list) - i) + 1)) + 1 = i
    BY <1>1
  <2>4. Len(toAdd') = Len(list) /\ \A k \in 1..Len(list) : toAdd'[k] = list[(Len(list) - k) + 1]
    BY <1>1 DEF Reverse
  <2> QED BY <2>2, <2>3, <2>4 DEF Contains
<1>5. \A d, k : ~Has(d, k)'
  BY <1>2 DEF Has
<1>6. \A d : ~OnScreen(d)'
  BY <1>2 DEF OnScreen
<1>7. KnownInv'
  BY <1>4, <1>5, <1>6 DEF KnownInv
<1> QED BY <1>3, <1>7

\* The steps that leave what is waiting and what is shown alone.
LEMMA StillRows ==
  ASSUME TypeOK, RowInv, Listening, UNCHANGED <<ops, window, toAdd>>,
         \A c \in Conns : /\ Live(c)' <=> Live(c)
                          /\ pc[c] = "destroyed" => pc'[c] = "destroyed"
  PROVE  OpsInv' /\ RowsInv' /\ KnownInv'
<1>0. n' = n /\ m' = m /\ window.closing \subseteq Conns
  BY DEF n, m, TypeOK
<1>1. OpsInv'
  BY <1>0 DEF OpsInv, OnScreen, RowInv
<1>2. RowsInv'
  BY <1>0 DEF RowsInv, Id, RowInv
<1>3. KnownInv'
  BY <1>0 DEF KnownInv, OnScreen, Has, RowInv
<1> QED BY <1>1, <1>2, <1>3

LEMMA RowStep == TypeOK /\ ListInv /\ RowInv /\ [Next]_vars => RowInv'
<1> SUFFICES ASSUME TypeOK, ListInv, RowInv, [Next]_vars PROVE RowInv'
  OBVIOUS
<1>1. GuiInv'
  BY GuiStep DEF RowInv
<1>2. CASE ~Listening'
  BY <1>1, <1>2 DEF RowInv, OpsInv, RowsInv, KnownInv
<1>3. ASSUME Listening' PROVE OpsInv' /\ RowsInv' /\ KnownInv'
  <2>p. pc \in [Conns -> {"none", "idle", "update", "traffic", "destroyed"}]
    BY DEF TypeOK
  <2>1. ASSUME Listening, UNCHANGED <<ops, window, toAdd, pc>> PROVE OpsInv' /\ RowsInv' /\ KnownInv'
    BY <2>1, StillRows DEF Live
  <2>2. CASE UNCHANGED vars
    BY <1>3, <2>1, <2>2 DEF vars, guiVars, connVars, queueVars, Listening
  <2>3. ASSUME NEW c \in Conns, SetData(c) \/ SetTraffic(c) \/ MoreTraffic(c) PROVE OpsInv' /\ RowsInv' /\ KnownInv'
    <3>1. /\ UNCHANGED <<ops, window, toAdd, gui>> /\ Listening /\ pc[c] = "idle"
          /\ pc' = pc \/ \E p \in {"update", "traffic"} : pc' = [pc EXCEPT ![c] = p]
      BY <1>3, <2>3 DEF SetData, SetTraffic, MoreTraffic, guiVars, queueVars, Listening
    <3>2. \A d \in Conns : /\ Live(d)' <=> Live(d)
                           /\ pc[d] = "destroyed" => pc'[d] = "destroyed"
      BY <2>p, <3>1 DEF Live
    <3> QED BY <3>1, <3>2, StillRows
  <2>4. CASE RegisterDone \/ ShowCount \/ OnUpdateNotify \/ ApplyDone \/ KeyDelete
    BY <1>3, <2>1, <2>4 DEF RegisterDone, ShowCount, OnUpdateNotify, ApplyDone, KeyDelete,
         guiVars, connVars, queueVars, Listening
  <2>5. ~Cancel /\ ~Unregister
    BY <1>3 DEF Cancel, Unregister, Listening
  <2> QED BY <1>3, <2>2, <2>3, <2>4, <2>5, CreateRows, RemoveRows, NotifyRows, RegisterRows, ApplyRows,
            TimerRows, ShowRows DEF Next, Gui, Window, Manager
<1> QED BY <1>1, <1>2, <1>3 DEF RowInv

LEMMA RowInit == Init => RowInv
<1> SUFFICES ASSUME Init PROVE RowInv
  OBVIOUS
<1>1. gui = "hidden" /\ ops = <<>> /\ window = Empty /\ toAdd = <<>> /\ applying = FALSE
  BY DEF Init
<1> QED BY <1>1 DEF RowInv, GuiInv, OpsInv, RowsInv, KnownInv, Listening

\* ATLASSERT(FALSE) of OnUpdateNotify is not reached.
THEOREM RowFoundHolds == Spec => []RowFound
<1>1. TypeOK /\ RowInv => RowFound
  <2> SUFFICES ASSUME TypeOK, RowInv, gui # "unregister",
                      NEW i \in DOMAIN ops, ops[i].cat \in {"update", "remove"}
               PROVE  \/ HasRow(window, ops[i].id) /\ ops[i].id \notin window.closing
                      \/ \E j \in 1..(i - 1) : ops[j].id = ops[i].id /\ ops[j].cat = "add"
    BY DEF RowFound
  <2>1. DOMAIN ops = 1..n
    BY Sizes
  <2>2. gui \in {"hidden", "register", "count", "visible"}
    BY DEF TypeOK
  <2>3. CASE gui = "hidden"
    BY <2>1, <2>3 DEF RowInv, GuiInv, n
  <2>4. CASE Listening
    BY <2>1, <2>4 DEF RowInv, OpsInv, OnScreen
  <2> QED BY <2>2, <2>3, <2>4 DEF Listening
<1>2. Spec => [](TypeOK /\ RowInv)
  BY TypeInit, TypeStep, ListInit, ListStep, RowInit, RowStep, PTL DEF Spec
<1> QED BY <1>1, <1>2, PTL

-----------------------------------------------------------------------------
(* What the window shows: a callback.                                      *)

LEMMA CalledOps ==
  ASSUME TypeOK, NEW c \in Conns, NEW cat \in Categories, NEW count,
         Coalesces(c, cat) \/ Appends(c, cat, count)
  PROVE  \A i \in 1..n' :
           \/ ops'[i].id = c /\ ops'[i].cat = cat /\ ops'[i].data = data[c]
           \/ /\ i \in 1..n /\ ops'[i].id = ops[i].id /\ ops'[i].cat = ops[i].cat
              /\ ops'[i].data = ops[i].data
              /\ ~(ops[i].id = c /\ ops[i].cat = cat /\ cat \in Coalesced)
<1>1. n \in Nat
  BY Sizes
<1>2. CASE Coalesces(c, cat)
  BY <1>1, <1>2 DEF Coalesces
<1>3. CASE Appends(c, cat, count)
  <2>1. \A i \in 1..n' : i \in 1..n \/ i = n + 1
    BY <1>1, <1>3 DEF Appends
  <2>2. cat \in Coalesced => \A i \in 1..n : ~(ops[i].id = c /\ ops[i].cat = cat)
    BY <1>3 DEF Appends, Has
  <2> QED BY <1>3, <2>1, <2>2 DEF Appends
<1> QED BY <1>2, <1>3

LEMMA CalledFresh ==
  ASSUME TypeOK, FreshInv, IdleInv, SpeedInv, Listening, UNCHANGED <<window, data>>,
         NEW c \in Conns, NEW cat \in Categories, NEW count,
         Coalesces(c, cat) \/ Appends(c, cat, count),
         ((\A i \in 1..n : ops[i].id # c) /\ ~HasRow(window, c))
           \/ \A p \in {"idle", "update", "traffic"} :
                pc'[c] = p => pc[c] = p \/ (pc[c] = cat /\ cat \in Coalesced /\ p = "idle"),
         \A d \in Conns \ {c} : pc'[d] = pc[d]
  PROVE  FreshInv' /\ IdleInv' /\ SpeedInv'
<1> DEFINE New == (\A i \in 1..n : ops[i].id # c) /\ ~HasRow(window, c)
<1>p. /\ n \in Nat /\ m \in Nat /\ m' = m /\ DOMAIN window.rows = 1..m
      /\ \A i : Id(i)' = Id(i) /\ \A d : RowOf(d)' = RowOf(d)
  BY Sizes DEF m, Id, RowOf
<1>1. \A i \in 1..n' :
           \/ ops'[i].id = c /\ ops'[i].cat = cat /\ ops'[i].data = data[c]
           \/ /\ i \in 1..n /\ ops'[i].id = ops[i].id /\ ops'[i].cat = ops[i].cat
              /\ ops'[i].data = ops[i].data
              /\ ~(ops[i].id = c /\ ops[i].cat = cat /\ cat \in Coalesced)
  BY CalledOps
<1>2. \A d, k : Has(d, k)' <=> Has(d, k) \/ (d = c /\ k = cat)
  BY CalledHas
<1>3. /\ \A i \in 1..n' : ops'[i].id = c /\ ops'[i].data = data[c] => Row(ops'[i]) = RowOf(c)
      /\ \A i \in 1..n' : ops'[i].id = ops[i].id /\ ops'[i].data = ops[i].data => Row(ops'[i]) = Row(ops[i])
  BY DEF Row, RowOf
<1>r. OfSecond(data[c].traffic, data[c].traffic)
  <2>1. data[c].traffic \in Traffic
    BY DEF TypeOK, DataOf
  <2> QED BY <2>1 DEF OfSecond, Traffic
<1>4. New => \A i \in 1..m : Id(i) # c
  BY <1>p DEF HasRow, Id
<1>5. ASSUME NEW d \in Conns, pc'[d] \in {"idle", "traffic"}
      PROVE  /\ \A i \in 1..n' : ops'[i].id = d /\ ops'[i].cat = "update" => Row(ops'[i]) = RowOf(d)
             /\ ~Has(d, "update")' =>
                  /\ \A i \in 1..n' : ops'[i].id = d /\ ops'[i].cat = "add" => Row(ops'[i]) = RowOf(d)
                  /\ \A i \in 1..m : Id(i) = d => window.rows[i] = RowOf(d)
  <2>1. CASE d = c /\ New
    BY <1>1, <1>3, <1>4, <2>1
  <2>2. CASE d = c /\ ~New /\ pc[c] = "update" /\ cat = "update"
    <3>1. Has(c, "update")' /\ cat \in Coalesced
      BY <1>2, <2>2 DEF Coalesced
    <3> QED BY <1>1, <1>3, <2>2, <3>1
  <2>3. CASE pc[d] \in {"idle", "traffic"}
    <3>1. /\ \A i \in 1..n : ops[i].id = d /\ ops[i].cat = "update" => Row(ops[i]) = RowOf(d)
          /\ ~Has(d, "update") =>
              /\ \A i \in 1..n : ops[i].id = d /\ ops[i].cat = "add" => Row(ops[i]) = RowOf(d)
              /\ \A i \in 1..m : Id(i) = d => window.rows[i] = RowOf(d)
      BY <2>3 DEF FreshInv
    <3>2. ~Has(d, "update")' => ~Has(d, "update")
      BY <1>2
    <3> QED BY <1>1, <1>3, <3>1, <3>2
  <2>4. d # c => pc[d] = pc'[d]
    OBVIOUS
  <2>5. d = c /\ ~New => pc[c] \in {"idle", "traffic"} \/ (pc[c] = "update" /\ cat = "update")
    BY <1>5 DEF Coalesced
  <2> QED BY <1>5, <2>1, <2>2, <2>3, <2>4, <2>5
<1>6. FreshInv'
  BY <1>p, <1>5 DEF FreshInv
<1>7. IdleInv'
  BY <1>p DEF IdleInv
<1>8. ASSUME NEW d \in Conns, pc'[d] \in {"idle", "update"}
      PROVE  /\ \A i \in 1..n' : ops'[i].id = d /\ ops'[i].cat = "traffic" => OfSecond(ops'[i].data.traffic, data[d].traffic)
             /\ ~Has(d, "traffic")' => \A s \in window.speeds : s[1] = d => OfSecond(s[2], data[d].traffic)
  <2>1. CASE d = c /\ New
    <3>1. \A s \in window.speeds : s[1] # c
      BY <2>1 DEF SpeedInv
    <3> QED BY <1>r, <1>1, <2>1, <3>1
  <2>2. CASE d = c /\ ~New /\ pc[c] = "traffic" /\ cat = "traffic"
    <3>1. Has(c, "traffic")' /\ cat \in Coalesced
      BY <1>2, <2>2 DEF Coalesced
    <3> QED BY <1>r, <1>1, <2>2, <3>1
  <2>3. CASE pc[d] \in {"idle", "update"}
    <3>1. /\ \A i \in 1..n : ops[i].id = d /\ ops[i].cat = "traffic" => OfSecond(ops[i].data.traffic, data[d].traffic)
          /\ ~Has(d, "traffic") => \A s \in window.speeds : s[1] = d => OfSecond(s[2], data[d].traffic)
      BY <2>3 DEF SpeedInv
    <3>2. ~Has(d, "traffic")' => ~Has(d, "traffic")
      BY <1>2
    <3> QED BY <1>r, <1>1, <3>1, <3>2
  <2>4. d # c => pc[d] = pc'[d]
    OBVIOUS
  <2>5. d = c /\ ~New => pc[c] \in {"idle", "update"} \/ (pc[c] = "traffic" /\ cat = "traffic")
    BY <1>8 DEF Coalesced
  <2> QED BY <1>8, <2>1, <2>2, <2>3, <2>4, <2>5
<1>9. SpeedInv'
  BY <1>8 DEF SpeedInv
<1> QED BY <1>6, <1>7, <1>9

LEMMA CalledOrder ==
  ASSUME TypeOK, OrderInv, Listening, window' = window,
         NEW c \in Conns, NEW cat \in Categories, NEW count,
         Coalesces(c, cat) \/ Appends(c, cat, count),
         \A d \in Conns : Live(d)' =>
            Live(d) \/ ((\A i \in 1..n : ops[i].id # d) /\ ~HasRow(window, d)),
         \A a, d \in Conns : Newer(a, d) /\ Live(a)' /\ Live(d)' => Newer(a, d)',
         cat = "add" =>
           \A d \in Conns : Live(d)' /\ (Has(d, "add") \/ HasRow(window, d)) => Newer(c, d)'
  PROVE  OrderInv'
<1>p. /\ n \in Nat /\ m \in Nat /\ m' = m /\ DOMAIN window.rows = 1..m
      /\ \A i : Id(i)' = Id(i)
  BY Sizes DEF m, Id
<1>1. /\ \A i \in 1..n' : \/ i \in 1..n /\ ops'[i].id = ops[i].id /\ ops'[i].cat = ops[i].cat
                          \/ i = n + 1 /\ ops'[i].id = c /\ ops'[i].cat = cat
  <2>1. CASE Coalesces(c, cat)
    BY <1>p, <2>1 DEF Coalesces
  <2>2. CASE Appends(c, cat, count)
    <3>1. \A i \in 1..n' : i \in 1..n \/ i = n + 1
      BY <1>p, <2>2 DEF Appends
    <3> QED BY <2>2, <3>1 DEF Appends
  <2> QED BY <2>1, <2>2
<1>2. \A i \in 1..m : HasRow(window, Id(i))
  BY <1>p DEF HasRow, Id
<1>3. ASSUME NEW a \in Conns, NEW d \in Conns, Live(a)', Live(d)'
      PROVE  /\ \A i, j \in 1..m : i < j /\ Id(i) = a /\ Id(j) = d => Newer(a, d)'
             /\ \A i, j \in 1..n' : /\ i < j /\ ops'[j].id = a /\ ops'[j].cat = "add"
                                   /\ ops'[i].id = d /\ ops'[i].cat = "add"
                  => Newer(a, d)'
             /\ \A i \in 1..n', j \in 1..m : ops'[i].id = a /\ ops'[i].cat = "add" /\ Id(j) = d
                  => Newer(a, d)'
  <2>1. ASSUME NEW i \in 1..m, NEW j \in 1..m, i < j, Id(i) = a, Id(j) = d PROVE Newer(a, d)'
    <3>1. Live(a) /\ Live(d)
      BY <1>2, <1>3, <2>1
    <3> QED BY <1>3, <2>1, <3>1 DEF OrderInv
  <2>2. ASSUME NEW i \in 1..n', NEW j \in 1..n', i < j, ops'[j].id = a, ops'[j].cat = "add",
               ops'[i].id = d, ops'[i].cat = "add"
        PROVE  Newer(a, d)'
    <3>1. CASE j \in 1..n /\ ops'[j].id = ops[j].id /\ ops'[j].cat = ops[j].cat
      <4>1. i \in 1..n /\ ops'[i].id = ops[i].id /\ ops'[i].cat = ops[i].cat
        BY <1>p, <1>1, <2>2, <3>1
      <4>2. Live(a) /\ Live(d)
        BY <1>3, <2>2, <3>1, <4>1
      <4> QED BY <1>3, <2>2, <3>1, <4>1, <4>2 DEF OrderInv
    <3>2. CASE j = n + 1 /\ ops'[j].id = c /\ ops'[j].cat = cat
      <4>1. i \in 1..n /\ ops'[i].id = ops[i].id /\ ops'[i].cat = ops[i].cat
        BY <1>p, <1>1, <2>2, <3>2
      <4>2. Has(d, "add")
        BY <2>2, <4>1 DEF Has
      <4> QED BY <1>3, <2>2, <3>2, <4>2
    <3> QED BY <1>1, <3>1, <3>2
  <2>3. ASSUME NEW i \in 1..n', NEW j \in 1..m, ops'[i].id = a, ops'[i].cat = "add", Id(j) = d
        PROVE  Newer(a, d)'
    <3>1. CASE i \in 1..n /\ ops'[i].id = ops[i].id /\ ops'[i].cat = ops[i].cat
      <4>1. Live(a) /\ Live(d)
        BY <1>2, <1>3, <2>3, <3>1
      <4> QED BY <1>3, <2>3, <3>1, <4>1 DEF OrderInv
    <3>2. CASE i = n + 1 /\ ops'[i].id = c /\ ops'[i].cat = cat
      BY <1>2, <1>3, <2>3, <3>2
    <3> QED BY <1>1, <3>1, <3>2
  <2> QED BY <2>1, <2>2, <2>3
<1> QED BY <1>p, <1>3 DEF OrderInv

\* The list keeps its order.
LEMMA NewerCreated ==
  ASSUME TypeOK, NEW c \in Conns, CreateConnectionData(c)
  PROVE  /\ \A a, d \in Conns : Newer(a, d) => Newer(a, d)'
         /\ \A d \in Conns : Contains(list, d) => Newer(c, d)'
<1>1. /\ list' \in Seq(Conns) /\ Len(list') = Len(list) + 1 /\ list'[1] = c
      /\ \A i \in 1..Len(list) : list'[i + 1] = list[i]
      /\ Len(list) \in Nat /\ DOMAIN list = 1..Len(list)
  BY Created DEF TypeOK
<1>2. DOMAIN list' = 1..Len(list')
  BY <1>1
<1>3. 1 \in DOMAIN list' /\ \A i \in 1..Len(list) : i + 1 \in DOMAIN list' /\ 1 < i + 1
  BY <1>1, <1>2
<1>4. ASSUME NEW a \in Conns, NEW d \in Conns, Newer(a, d) PROVE Newer(a, d)'
  <2>1. PICK i \in 1..Len(list), j \in 1..Len(list) : i < j /\ list[i] = a /\ list[j] = d
    BY <1>1, <1>4 DEF Newer
  <2>2. i + 1 < j + 1 /\ list'[i + 1] = a /\ list'[j + 1] = d
    BY <1>1, <2>1
  <2> QED BY <1>3, <2>2 DEF Newer
<1>5. ASSUME NEW d \in Conns, Contains(list, d) PROVE Newer(c, d)'
  <2>1. PICK i \in 1..Len(list) : list[i] = d
    BY <1>5 DEF Contains
  <2>2. list'[i + 1] = d
    BY <1>1, <2>1
  <2> QED BY <1>1, <1>3, <2>2 DEF Newer
<1> QED BY <1>4, <1>5

LEMMA NewerRemoved ==
  ASSUME TypeOK, NEW c \in Conns, RemoveConnectionData(c)
  PROVE  \A a, d \in Conns \ {c} : Newer(a, d) => Newer(a, d)'
<1>1. PICK k \in 1..Len(list) :
        /\ list[k] = c /\ list' \in Seq(Conns) /\ Len(list') = Len(list) - 1
        /\ \A i \in 1..Len(list)-1 : list'[i] = IF i < k THEN list[i] ELSE list[i + 1]
        /\ Len(list) \in Nat
  BY Removed
<1>2. DOMAIN list' = 1..Len(list)-1 /\ DOMAIN list = 1..Len(list)
  BY <1>1 DEF TypeOK
<1>3. ASSUME NEW a \in Conns \ {c}, NEW d \in Conns \ {c}, Newer(a, d) PROVE Newer(a, d)'
  <2>1. PICK i \in 1..Len(list), j \in 1..Len(list) : i < j /\ list[i] = a /\ list[j] = d
    BY <1>2, <1>3 DEF Newer
  <2>2. i # k /\ j # k
    BY <1>1, <2>1
  <2> DEFINE At(x) == IF x < k THEN x ELSE x - 1
  <2>3. \A x \in 1..Len(list) : x # k =>
          At(x) \in 1..Len(list)-1 /\ (At(x) < k => At(x) = x) /\ (~(At(x) < k) => At(x) + 1 = x)
    BY <1>1
  <2>4. At(i) < At(j)
    BY <1>1, <2>1, <2>2
  <2>5. \A x \in 1..Len(list) : x # k => list'[At(x)] = list[x]
    <3> SUFFICES ASSUME NEW x \in 1..Len(list), x # k PROVE list'[At(x)] = list[x]
      OBVIOUS
    <3> HIDE DEF At
    <3>1. list'[At(x)] = IF At(x) < k THEN list[At(x)] ELSE list[At(x) + 1]
      BY <1>1, <2>3
    <3> QED BY <2>3, <3>1
  <2> HIDE DEF At
  <2>6. At(i) \in DOMAIN list' /\ At(j) \in DOMAIN list' /\ list'[At(i)] = a /\ list'[At(j)] = d
    BY <1>2, <2>1, <2>2, <2>3, <2>5
  <2> QED BY <2>4, <2>6 DEF Newer
<1> QED BY <1>3

\* A message with the count of now, or one without a count that changes nothing.
LEMMA CalledCount ==
  ASSUME TypeOK, CountedInv, Listening, gui' = gui, lastCount' = lastCount,
         NEW c \in Conns, NEW cat \in Categories, NEW count,
         Coalesces(c, cat) \/ Appends(c, cat, count),
         cat \in Coalesced => list' = list,
         cat \notin Coalesced => count = Len(list') /\ count \in Nat
  PROVE  CountedInv'
<1>p. Len(messages) \in Nat
  BY Sizes
<1>1. CASE Coalesces(c, cat)
  BY <1>1 DEF Coalesces, CountedInv, Listening
<1>2. CASE Appends(c, cat, count)
  <2> DEFINE k == Len(messages)
  <2>1. /\ Len(messages') = k + 1 /\ \A i \in 1..k : messages'[i] = messages[i]
        /\ messages'[k + 1] = IF cat \in Coalesced THEN NoCount ELSE count
    BY <1>2 DEF Appends
  <2>2. k \in Nat /\ k + 1 \in 1..Len(messages')
    BY <1>p, <2>1
  <2> HIDE DEF k
  <2>3. CASE cat \notin Coalesced
    <3>1. messages'[k + 1] = Len(list') /\ messages'[k + 1] # NoCount
      BY <2>1, <2>3 DEF NoCount
    <3>2. \A i \in 1..Len(messages') : i = k + 1 \/ k + 1 \in i+1..Len(messages')
      BY <2>1, <2>2
    <3>3. \A i \in 1..Len(messages') :
            messages'[i] # NoCount /\ (\A j \in i+1..Len(messages') : messages'[j] = NoCount)
              => messages'[i] = Len(list')
      BY <3>1, <3>2
    <3>4. ~ \A j \in 1..Len(messages') : messages'[j] = NoCount
      BY <2>2, <3>1
    <3> QED BY <3>3, <3>4 DEF CountedInv
  <2>4. CASE cat \in Coalesced
    <3>1. messages'[k + 1] = NoCount /\ list' = list
      BY <2>1, <2>4
    <3>2. ASSUME NEW i \in 1..Len(messages'), messages'[i] # NoCount,
                 \A j \in i+1..Len(messages') : messages'[j] = NoCount
          PROVE  messages'[i] = Len(list')
      <4>1. i \in 1..k
        BY <2>1, <2>2, <3>1, <3>2
      <4>2. \A j \in i+1..k : j \in i+1..Len(messages') /\ j \in 1..k
        BY <2>1, <2>2, <4>1
      <4>3. messages[i] # NoCount /\ \A j \in i+1..k : messages[j] = NoCount
        BY <2>1, <3>2, <4>1, <4>2
      <4>4. messages[i] = Len(list)
        BY <4>1, <4>3 DEF CountedInv, k
      <4> QED BY <2>1, <3>1, <4>1, <4>4
    <3>3. (\A j \in 1..Len(messages') : messages'[j] = NoCount) => \A j \in 1..k : messages[j] = NoCount
      BY <2>1, <2>2
    <3> QED BY <3>1, <3>2, <3>3 DEF CountedInv, k
  <2> QED BY <2>3, <2>4
<1> QED BY <1>1, <1>2

LEMMA CreateData ==
  ASSUME TypeOK, ListInv, RowInv, DataInv, Listening', NEW c \in Conns, CreateConnectionData(c)
  PROVE  DataInv'
<1>p. /\ pc \in [Conns -> {"none", "idle", "update", "traffic", "destroyed"}]
      /\ Len(list) + 1 \in Nat /\ "add" \in Categories /\ "add" \notin Coalesced
      /\ m \in Nat /\ DOMAIN window.rows = 1..m
  BY Sizes DEF TypeOK, Categories, Coalesced
<1>1. /\ gui' = gui /\ gui \in {"count", "visible"} /\ Listening /\ window' = window /\ data' = data
      /\ pc[c] = "none" /\ lastCount' = lastCount
      /\ Callback(c, "add", Len(list) + 1) /\ pc' = [pc EXCEPT ![c] = "idle"]
  BY DEF CreateConnectionData, ListFree, guiVars, Listening
<1>2. Coalesces(c, "add") \/ Appends(c, "add", Len(list) + 1)
  BY <1>p, <1>1, Called
<1>3. (\A i \in 1..n : ops[i].id # c) /\ ~HasRow(window, c)
  BY <1>1, Unknown
<1>4. FreshInv' /\ IdleInv' /\ SpeedInv'
  <2>1. \A d \in Conns \ {c} : pc'[d] = pc[d]
    BY <1>p, <1>1
  <2> QED BY <1>p, <1>1, <1>2, <1>3, <2>1, CalledFresh DEF DataInv
<1>5. \A d \in Conns : Live(d)' => Live(d) \/ d = c
  BY <1>p, <1>1 DEF Live
<1>6. \A a, d \in Conns : Newer(a, d) => Newer(a, d)'
  BY NewerCreated
<1>7. ASSUME NEW d \in Conns, Live(d)', Has(d, "add") \/ HasRow(window, d) PROVE Newer(c, d)'
  <2>1. d # c
    BY <1>3, <1>7 DEF Has
  <2>2. Contains(list, d)
    BY <1>5, <1>7, <2>1 DEF ListInv
  <2> QED BY <2>2, NewerCreated
<1>8. \A d \in Conns : Live(d)' =>
         Live(d) \/ ((\A i \in 1..n : ops[i].id # d) /\ ~HasRow(window, d))
  BY <1>3, <1>5
<1>9. OrderInv'
  BY <1>p, <1>1, <1>2, <1>6, <1>7, <1>8, CalledOrder DEF DataInv
<1>10. CountedInv'
  <2>1. Len(list') = Len(list) + 1
    BY Created
  <2> QED BY <1>p, <1>1, <1>2, <2>1, CalledCount DEF DataInv
<1> QED BY <1>4, <1>9, <1>10 DEF DataInv

LEMMA RemoveData ==
  ASSUME TypeOK, ListInv, RowInv, DataInv, Listening', NEW c \in Conns, RemoveConnectionData(c)
  PROVE  DataInv'
<1>p. /\ pc \in [Conns -> {"none", "idle", "update", "traffic", "destroyed"}]
      /\ Len(list) - 1 \in Nat \cup {NoCount} /\ "remove" \in Categories /\ "remove" \notin Coalesced
  BY Sizes DEF TypeOK, Categories, Coalesced, NoCount
<1>1. /\ gui' = gui /\ gui \in {"count", "visible"} /\ Listening /\ window' = window /\ data' = data
      /\ pc[c] = "idle" /\ lastCount' = lastCount
      /\ Callback(c, "remove", Len(list) - 1) /\ pc' = [pc EXCEPT ![c] = "destroyed"]
  BY DEF RemoveConnectionData, ListFree, guiVars, Listening
<1>2. Coalesces(c, "remove") \/ Appends(c, "remove", Len(list) - 1)
  BY <1>p, <1>1, Called
<1>3. pc'[c] = "destroyed" /\ \A d \in Conns \ {c} : pc'[d] = pc[d]
  BY <1>p, <1>1
<1>4. FreshInv' /\ IdleInv' /\ SpeedInv'
  BY <1>p, <1>1, <1>2, <1>3, CalledFresh DEF DataInv
<1>5. \A d \in Conns : Live(d)' => Live(d) /\ d # c
  BY <1>3 DEF Live
<1>6. \A a, d \in Conns : Newer(a, d) /\ Live(a)' /\ Live(d)' => Newer(a, d)'
  BY <1>5, NewerRemoved
<1>9. OrderInv'
  BY <1>p, <1>1, <1>2, <1>5, <1>6, CalledOrder DEF DataInv
<1>10. CountedInv'
  <2>1. Len(list') = Len(list) - 1 /\ Len(list) - 1 \in Nat
    BY Removed
  <2> QED BY <1>p, <1>1, <1>2, <2>1, CalledCount DEF DataInv
<1> QED BY <1>4, <1>9, <1>10 DEF DataInv

LEMMA NotifyData ==
  ASSUME TypeOK, ListInv, RowInv, DataInv, Listening', NEW c \in Conns, UpdateNotify(c)
  PROVE  DataInv'
<1>p. pc \in [Conns -> {"none", "idle", "update", "traffic", "destroyed"}]
  BY DEF TypeOK
<1>1. /\ gui' = gui /\ gui \in {"count", "visible"} /\ Listening /\ UNCHANGED <<window, data, list>>
      /\ pc[c] \in Coalesced /\ pc[c] \in Categories /\ pc[c] # "add" /\ lastCount' = lastCount
      /\ Callback(c, pc[c], NoCount) /\ pc' = [pc EXCEPT ![c] = "idle"]
  BY DEF UpdateNotify, ListFree, guiVars, Listening, Categories, Coalesced
<1>2. Coalesces(c, pc[c]) \/ Appends(c, pc[c], NoCount)
  BY <1>1, Called
<1>3. pc'[c] = "idle" /\ \A d \in Conns \ {c} : pc'[d] = pc[d]
  BY <1>p, <1>1
<1>4. FreshInv' /\ IdleInv' /\ SpeedInv'
  BY <1>1, <1>2, <1>3, CalledFresh DEF DataInv
<1>5. \A d \in Conns : Live(d)' => Live(d)
  BY <1>1, <1>3 DEF Live, Coalesced
<1>6. \A a, d : Newer(a, d) => Newer(a, d)'
  BY <1>1 DEF Newer
<1>9. OrderInv'
  BY <1>1, <1>2, <1>5, <1>6, CalledOrder DEF DataInv
<1>10. CountedInv'
  BY <1>1, <1>2, CalledCount DEF DataInv
<1> QED BY <1>4, <1>9, <1>10 DEF DataInv

LEMMA RegisterData ==
  ASSUME TypeOK, ListInv, RowInv, DataInv, RegisterOne
  PROVE  DataInv'
<1>p. Len(list) \in Nat /\ "add" \in Categories /\ "add" \notin Coalesced
  BY Sizes DEF Categories, Coalesced
<1>c. PICK c \in Conns :
           /\ c = Head(toAdd) /\ Len(toAdd) \in 1..Len(list) /\ list[Len(toAdd)] = c
           /\ \A i \in 1..Len(toAdd) : Contains(toAdd, list[i])
  BY NextToAdd DEF RowInv
<1>1. /\ gui = "register" /\ gui' = gui /\ Listening /\ UNCHANGED <<window, data, list, pc>>
      /\ Callback(c, "add", Len(list)) /\ lastCount' = lastCount /\ window = Empty
      /\ \A i \in 1..n : ops[i].cat = "add"
  BY <1>c DEF RegisterOne, connVars, Listening, RowInv, GuiInv
<1>2. Coalesces(c, "add") \/ Appends(c, "add", Len(list))
  BY <1>p, <1>1, Called
<1>4. FreshInv' /\ IdleInv' /\ SpeedInv'
  BY <1>p, <1>1, <1>2, CalledFresh DEF DataInv
<1>5. \A d \in Conns : Live(d)' => Live(d)
  BY <1>1 DEF Live
<1>6. \A a, d : Newer(a, d) <=> Newer(a, d)'
  BY <1>1 DEF Newer
<1>7. ASSUME NEW d \in Conns, Live(d)', Has(d, "add") \/ HasRow(window, d) PROVE Newer(c, d)
  <2>1. Has(d, "add") /\ ~Has(d, "remove")
    BY <1>1, <1>7 DEF HasRow, Empty, Has
  <2>2. ~Contains(toAdd, d)
    BY <1>1, <2>1 DEF RowInv, KnownInv
  <2>3. PICK i \in 1..Len(list) : list[i] = d
    BY <1>5, <1>7 DEF ListInv, Contains
  <2>4. Len(toAdd) < i
    BY <1>c, <1>p, <2>2, <2>3, Sizes
  <2>5. DOMAIN list = 1..Len(list)
    BY DEF TypeOK
  <2> QED BY <1>c, <2>3, <2>4, <2>5 DEF Newer
<1>8. \A d \in Conns : Live(d)' /\ (Has(d, "add") \/ HasRow(window, d)) => Newer(c, d)'
  BY <1>6, <1>7
<1>9. OrderInv'
  BY <1>p, <1>1, <1>2, <1>5, <1>6, <1>8, CalledOrder DEF DataInv
<1>10. CountedInv'
  BY <1>p, <1>1, <1>2, CalledCount DEF DataInv
<1> QED BY <1>4, <1>9, <1>10 DEF DataInv

-----------------------------------------------------------------------------
(* What the window shows: an operation is applied.                         *)

\* The rows after it.
LEMMA AppliedRows ==
  ASSUME TypeOK, GuiInv, OpsInv, RowsInv, ApplyOne
  PROVE  \E o \in Ops :
         /\ o = ops[1] /\ 1 \in 1..n /\ n' \in Nat /\ o.cat \in Categories
         /\ \A i \in 1..n' : i + 1 \in 1..n /\ ops'[i] = ops[i + 1]
         /\ \A d, k : Has(d, k) <=> Has(d, k)' \/ (d = o.id /\ k = o.cat)
         /\ o.cat # "add" => HasRow(window, o.id)
         /\ o.cat = "add" => ~HasRow(window, o.id)
         /\ o.id \notin window.closing
         /\ \A i \in 1..n : ops[i].cat = "add" => ~HasRow(window, ops[i].id)
         /\ Row(o).id = o.id /\ Row(o).out = o.data.out /\ Row(o).in = o.data.in
         /\ \/ /\ o.cat = "add" /\ m' = m + 1 /\ window'.rows[1] = Row(o)
               /\ \A i \in 1..m : window'.rows[i + 1] = window.rows[i]
            \/ /\ o.cat = "update" /\ m' = m
               /\ \A i \in 1..m : window'.rows[i] = IF Id(i) = o.id THEN Row(o) ELSE window.rows[i]
            \/ o.cat \in {"traffic", "remove"} /\ m' = m /\ window'.rows = window.rows
         /\ window'.closing = IF o.cat = "remove" THEN window.closing \cup {o.id} ELSE window.closing
         /\ window'.idle = IF o.cat \in {"add", "update"} THEN NotIdle(window, o)
                           ELSE IF o.cat = "remove" THEN window.idle \ {o.id} ELSE window.idle
         /\ window'.speeds = IF o.cat \in {"add", "update"} THEN window.speeds
                             ELSE IF o.cat = "remove" THEN {s \in window.speeds : s[1] # o.id}
                             ELSE {s \in window.speeds : s[1] # o.id} \cup {<<o.id, o.data.traffic>>}
         /\ gui = "visible" /\ Listening
         /\ UNCHANGED <<pc, data, list, messages, gui, lastCount>>
<1>o. PICK o \in Ops :
         /\ o = ops[1] /\ n' = n - 1 /\ 1 \in 1..n /\ gui = "visible" /\ window' = Apply(window, o)
         /\ \A i \in 1..n' : i + 1 \in 1..n /\ ops'[i] = ops[i + 1]
         /\ \A d, k : Has(d, k) <=> Has(d, k)' \/ (d = o.id /\ k = o.cat)
         /\ o.cat # "add" => OnScreen(o.id)
         /\ o.cat = "add" => ~HasRow(window, o.id)
         /\ o.id \notin window.closing
  BY AppliedIds
<1>1. n \in Nat /\ n' \in Nat
  BY <1>o, Sizes
<1>2. o.cat \in Categories /\ (o.cat # "add" => HasRow(window, o.id))
  BY <1>o DEF Ops, OnScreen
<1>3. Row(o).id = o.id /\ Row(o).out = o.data.out /\ Row(o).in = o.data.in
  BY DEF Row
<1>4. Listening /\ UNCHANGED <<pc, data, list, messages, gui, lastCount>>
  BY <1>o DEF Listening, ApplyOne, connVars
<1>5. \A i \in 1..n : ops[i].cat = "add" => ~HasRow(window, ops[i].id)
  BY <1>4 DEF RowsInv
<1>6. CASE o.cat = "add"
  BY <1>o, <1>1, <1>2, <1>3, <1>4, <1>5, <1>6, AppliedAdd
<1>7. CASE o.cat = "update"
  BY <1>o, <1>1, <1>2, <1>3, <1>4, <1>5, <1>7, AppliedUpdate
<1>8. CASE o.cat = "traffic"
  BY <1>o, <1>1, <1>2, <1>3, <1>4, <1>5, <1>8, AppliedTraffic
<1>9. CASE o.cat = "remove"
  BY <1>o, <1>1, <1>2, <1>3, <1>4, <1>5, <1>9, AppliedRemove
<1> QED BY <1>2, <1>6, <1>7, <1>8, <1>9 DEF Categories

LEMMA ApplyFresh ==
  ASSUME TypeOK, RowInv, FreshInv, ApplyOne
  PROVE  FreshInv'
<1>p. n \in Nat /\ m \in Nat /\ \A i \in 1..m : HasRow(window, Id(i))
  BY Sizes DEF HasRow, Id
<1>o. PICK o \in Ops :
         /\ o = ops[1] /\ 1 \in 1..n /\ o.cat \in Categories
         /\ \A i \in 1..n' : i + 1 \in 1..n /\ ops'[i] = ops[i + 1]
         /\ \A d, k : Has(d, k) <=> Has(d, k)' \/ (d = o.id /\ k = o.cat)
         /\ o.cat # "add" => HasRow(window, o.id)
         /\ \A i \in 1..n : ops[i].cat = "add" => ~HasRow(window, ops[i].id)
         /\ Row(o).id = o.id
         /\ \/ /\ o.cat = "add" /\ m' = m + 1 /\ window'.rows[1] = Row(o)
               /\ \A i \in 1..m : window'.rows[i + 1] = window.rows[i]
            \/ /\ o.cat = "update" /\ m' = m
               /\ \A i \in 1..m : window'.rows[i] = IF Id(i) = o.id THEN Row(o) ELSE window.rows[i]
            \/ o.cat \in {"traffic", "remove"} /\ m' = m /\ window'.rows = window.rows
         /\ Listening /\ UNCHANGED <<pc, data>>
  BY AppliedRows DEF RowInv
<1>1. \A d : RowOf(d)' = RowOf(d)
  BY <1>o DEF RowOf
<1>2. ASSUME NEW d \in Conns, pc[d] \in {"idle", "traffic"}
      PROVE  /\ \A i \in 1..n' : ops'[i].id = d /\ ops'[i].cat = "update" => Row(ops'[i]) = RowOf(d)
             /\ ~Has(d, "update")' =>
                  /\ \A i \in 1..n' : ops'[i].id = d /\ ops'[i].cat = "add" => Row(ops'[i]) = RowOf(d)
                  /\ \A i \in 1..m' : window'.rows[i].id = d => window'.rows[i] = RowOf(d)
  <2>1. /\ \A i \in 1..n : ops[i].id = d /\ ops[i].cat = "update" => Row(ops[i]) = RowOf(d)
        /\ ~Has(d, "update") =>
             /\ \A i \in 1..n : ops[i].id = d /\ ops[i].cat = "add" => Row(ops[i]) = RowOf(d)
             /\ \A i \in 1..m : Id(i) = d => window.rows[i] = RowOf(d)
    BY <1>o, <1>2 DEF FreshInv
  <2>2. \A i \in 1..n' : ops'[i].id = d /\ ops'[i].cat = "update" => Row(ops'[i]) = RowOf(d)
    BY <1>o, <2>1
  <2>3. ASSUME ~Has(d, "update")', NEW i \in 1..n', ops'[i].id = d, ops'[i].cat = "add"
        PROVE  Row(ops'[i]) = RowOf(d)
    <3>1. i + 1 \in 1..n /\ ops'[i] = ops[i + 1] /\ ~HasRow(window, d)
      BY <1>o, <2>3
    <3>2. ~Has(d, "update")
      BY <1>o, <2>3, <3>1
    <3> QED BY <2>1, <2>3, <3>1, <3>2
  <2>4. ASSUME ~Has(d, "update")', NEW i \in 1..m', window'.rows[i].id = d
        PROVE  window'.rows[i] = RowOf(d)
    <3>1. CASE o.cat = "add"
      <4>1. ~Has(d, "update")
        BY <1>o, <2>4, <3>1
      <4>2. CASE i = 1
        BY <1>o, <2>1, <3>1, <2>4, <4>1, <4>2
      <4>3. CASE i # 1
        <5>1. i - 1 \in 1..m /\ (i - 1) + 1 = i
          BY <1>p, <1>o, <3>1, <4>3
        <5>2. window'.rows[i] = window.rows[i - 1]
          BY <1>o, <3>1, <5>1
        <5> QED BY <2>1, <2>4, <4>1, <5>1, <5>2 DEF Id
      <4> QED BY <4>2, <4>3
    <3>2. CASE o.cat = "update"
      <4>1. i \in 1..m /\ window'.rows[i] = IF Id(i) = o.id THEN Row(o) ELSE window.rows[i]
        BY <1>o, <3>2
      <4>2. CASE Id(i) = o.id
        BY <1>o, <2>1, <2>4, <3>2, <4>1, <4>2
      <4>3. CASE Id(i) # o.id
        <5>1. Id(i) = d /\ window'.rows[i] = window.rows[i]
          BY <2>4, <4>1, <4>3 DEF Id
        <5>2. ~Has(d, "update")
          BY <1>o, <2>4, <4>3, <5>1
        <5> QED BY <2>1, <4>1, <5>1, <5>2
      <4> QED BY <4>2, <4>3
    <3>3. CASE o.cat \in {"traffic", "remove"}
      <4>1. ~Has(d, "update") /\ i \in 1..m /\ window'.rows[i] = window.rows[i]
        BY <1>o, <2>4, <3>3
      <4> QED BY <2>1, <2>4, <4>1 DEF Id
    <3> QED BY <1>o, <3>1, <3>2, <3>3 DEF Categories
  <2> QED BY <2>2, <2>3, <2>4
<1>3. UNCHANGED pc
  BY <1>o
<1> QED BY <1>1, <1>2, <1>3 DEF FreshInv, Id

LEMMA ApplyIdle ==
  ASSUME TypeOK, RowInv, IdleInv, ApplyOne
  PROVE  IdleInv'
<1>p. m \in Nat /\ \A d : HasRow(window, d) <=> \E i \in 1..m : Id(i) = d
  BY Sizes DEF HasRow, Id
<1>o. PICK o \in Ops :
         /\ o.cat \in Categories
         /\ o.cat # "add" => HasRow(window, o.id)
         /\ o.cat = "add" => ~HasRow(window, o.id)
         /\ o.id \notin window.closing
         /\ Row(o).id = o.id /\ Row(o).out = o.data.out /\ Row(o).in = o.data.in
         /\ \/ /\ o.cat = "add" /\ m' = m + 1 /\ window'.rows[1] = Row(o)
               /\ \A i \in 1..m : window'.rows[i + 1] = window.rows[i]
            \/ /\ o.cat = "update" /\ m' = m
               /\ \A i \in 1..m : window'.rows[i] = IF Id(i) = o.id THEN Row(o) ELSE window.rows[i]
            \/ o.cat \in {"traffic", "remove"} /\ m' = m /\ window'.rows = window.rows
         /\ window'.closing = IF o.cat = "remove" THEN window.closing \cup {o.id} ELSE window.closing
         /\ window'.idle = IF o.cat \in {"add", "update"} THEN NotIdle(window, o)
                           ELSE IF o.cat = "remove" THEN window.idle \ {o.id} ELSE window.idle
         /\ Listening
  BY AppliedRows DEF RowInv
<1> DEFINE Start(r) == r.out = "START" /\ r.in = "START"
<1>1. IsIdle(o.data) <=> Start(Row(o))
  BY <1>o DEF IsIdle
<1>2. \A d \in Conns : d \in window.idle <=>
         d \notin window.closing /\ \E i \in 1..m : Id(i) = d /\ Start(window.rows[i])
  BY <1>o DEF IdleInv
<1>3. o.cat \in {"add", "update"} =>
         \A d : d \in window'.idle <=> IF d = o.id THEN Start(Row(o)) ELSE d \in window.idle
  BY <1>o, <1>1 DEF NotIdle
<1> HIDE DEF Start
<1>4. ASSUME NEW d \in Conns
      PROVE  d \in window'.idle <=>
               /\ d \notin window'.closing
               /\ \E i \in 1..m' : window'.rows[i].id = d /\ Start(window'.rows[i])
  <2>1. CASE o.cat = "add"
    <3>1. 1 \in 1..m' /\ \A i \in 1..m : i + 1 \in 1..m'
      BY <1>p, <1>o, <2>1
    <3>2. \A i \in 1..m' : i = 1 \/ (i - 1 \in 1..m /\ (i - 1) + 1 = i)
      BY <1>p, <1>o, <2>1
    <3>3. \A i \in 1..m' : i = 1 \/ (i - 1 \in 1..m /\ window'.rows[i] = window.rows[i - 1])
      BY <1>o, <2>1, <3>2
    <3>4. (\E i \in 1..m' : window'.rows[i].id = d /\ Start(window'.rows[i])) <=>
            \/ d = o.id /\ Start(Row(o))
            \/ \E i \in 1..m : Id(i) = d /\ Start(window.rows[i])
      BY <1>o, <2>1, <3>1, <3>3 DEF Id
    <3>5. d = o.id => ~ \E i \in 1..m : Id(i) = d
      BY <1>p, <1>o, <2>1
    <3> QED BY <1>o, <1>2, <1>3, <2>1, <3>4, <3>5
  <2>2. CASE o.cat = "update"
    <3>1. \A i \in 1..m' : window'.rows[i] = IF Id(i) = o.id THEN Row(o) ELSE window.rows[i]
      BY <1>o, <2>2
    <3>2. CASE d = o.id
      <4>1. \E i \in 1..m : Id(i) = d
        BY <1>p, <1>o, <2>2, <3>2
      <4>2. (\E i \in 1..m' : window'.rows[i].id = d /\ Start(window'.rows[i])) <=> Start(Row(o))
        BY <1>o, <2>2, <3>1, <3>2, <4>1 DEF Id
      <4> QED BY <1>o, <1>3, <2>2, <3>2, <4>2
    <3>3. CASE d # o.id
      <4>1. (\E i \in 1..m' : window'.rows[i].id = d /\ Start(window'.rows[i])) <=>
              \E i \in 1..m : Id(i) = d /\ Start(window.rows[i])
        BY <1>o, <2>2, <3>1, <3>3 DEF Id
      <4> QED BY <1>o, <1>2, <1>3, <2>2, <3>3, <4>1
    <3> QED BY <3>2, <3>3
  <2>3. CASE o.cat \in {"traffic", "remove"}
    <3>1. (\E i \in 1..m' : window'.rows[i].id = d /\ Start(window'.rows[i])) <=>
            \E i \in 1..m : Id(i) = d /\ Start(window.rows[i])
      BY <1>o, <2>3 DEF Id
    <3> QED BY <1>o, <1>2, <2>3, <3>1
  <2> QED BY <1>o, <2>1, <2>2, <2>3 DEF Categories
<1> QED BY <1>4 DEF IdleInv, Id, Start

LEMMA ApplySpeed ==
  ASSUME TypeOK, RowInv, SpeedInv, ApplyOne
  PROVE  SpeedInv'
<1>o. PICK o \in Ops :
         /\ o = ops[1] /\ 1 \in 1..n /\ o.cat \in Categories
         /\ \A i \in 1..n' : i + 1 \in 1..n /\ ops'[i] = ops[i + 1]
         /\ \A d, k : Has(d, k) <=> Has(d, k)' \/ (d = o.id /\ k = o.cat)
         /\ o.cat # "add" => HasRow(window, o.id)
         /\ o.id \notin window.closing
         /\ window'.closing = IF o.cat = "remove" THEN window.closing \cup {o.id} ELSE window.closing
         /\ window'.speeds = IF o.cat \in {"add", "update"} THEN window.speeds
                             ELSE IF o.cat = "remove" THEN {s \in window.speeds : s[1] # o.id}
                             ELSE {s \in window.speeds : s[1] # o.id} \cup {<<o.id, o.data.traffic>>}
         /\ Listening /\ UNCHANGED <<pc, data>>
  BY AppliedRows DEF RowInv
<1>1. \A d : HasRow(window, d) => HasRow(window', d)
  BY AppliedIds DEF RowInv
<1>2. \A s \in window'.speeds :
        \/ s \in window.speeds /\ (o.cat \in {"traffic", "remove"} => s[1] # o.id)
        \/ s = <<o.id, o.data.traffic>> /\ o.cat = "traffic"
  BY <1>o DEF Categories
<1>3. \A s \in window'.speeds : HasRow(window', s[1]) /\ s[1] \notin window'.closing
  <2> SUFFICES ASSUME NEW s \in window'.speeds PROVE HasRow(window', s[1]) /\ s[1] \notin window'.closing
    OBVIOUS
  <2>1. CASE s \in window.speeds /\ (o.cat \in {"traffic", "remove"} => s[1] # o.id)
    BY <1>o, <1>1, <2>1 DEF SpeedInv
  <2>2. CASE s = <<o.id, o.data.traffic>> /\ o.cat = "traffic"
    BY <1>o, <1>1, <2>2
  <2> QED BY <1>2, <2>1, <2>2
<1>4. ASSUME NEW d \in Conns, pc[d] \in {"idle", "update"}
      PROVE  /\ \A i \in 1..n' : ops'[i].id = d /\ ops'[i].cat = "traffic" => OfSecond(ops'[i].data.traffic, data[d].traffic)
             /\ ~Has(d, "traffic")' => \A s \in window'.speeds : s[1] = d => OfSecond(s[2], data[d].traffic)
  <2>1. /\ \A i \in 1..n : ops[i].id = d /\ ops[i].cat = "traffic" => OfSecond(ops[i].data.traffic, data[d].traffic)
        /\ ~Has(d, "traffic") => \A s \in window.speeds : s[1] = d => OfSecond(s[2], data[d].traffic)
    BY <1>o, <1>4 DEF SpeedInv
  <2>2. ASSUME ~Has(d, "traffic")', NEW s \in window'.speeds, s[1] = d PROVE OfSecond(s[2], data[d].traffic)
    <3>1. CASE s \in window.speeds /\ (o.cat \in {"traffic", "remove"} => s[1] # o.id)
      <4>1. ~Has(d, "traffic")
        BY <1>o, <2>2, <3>1
      <4> QED BY <2>1, <2>2, <3>1, <4>1
    <3>2. CASE s = <<o.id, o.data.traffic>> /\ o.cat = "traffic"
      BY <1>o, <2>1, <2>2, <3>2
    <3> QED BY <1>2, <3>1, <3>2
  <2> QED BY <1>o, <2>1, <2>2
<1>5. UNCHANGED <<pc, data>>
  BY <1>o
<1> QED BY <1>3, <1>4, <1>5 DEF SpeedInv

LEMMA ApplyOrder ==
  ASSUME TypeOK, RowInv, OrderInv, ApplyOne
  PROVE  OrderInv'
<1>p. n \in Nat /\ m \in Nat
  BY Sizes
<1>o. PICK o \in Ops :
         /\ o = ops[1] /\ 1 \in 1..n /\ n' = n - 1
         /\ \A i \in 1..n' : i + 1 \in 1..n /\ ops'[i] = ops[i + 1]
         /\ o.cat = "add" => m' = m + 1 /\ Id(1)' = o.id /\ \A i \in 1..m : Id(i + 1)' = Id(i)
         /\ o.cat # "add" => m' = m /\ \A i \in 1..m : Id(i)' = Id(i)
  BY AppliedIds DEF RowInv
<1>1. Listening /\ UNCHANGED <<pc, list>>
  BY AppliedRows DEF RowInv
<1>2. \A i \in 1..m' : \/ o.cat = "add" /\ i = 1 /\ Id(i)' = o.id
                       \/ o.cat = "add" /\ i > 1 /\ i - 1 \in 1..m /\ Id(i)' = Id(i - 1)
                       \/ o.cat # "add" /\ i \in 1..m /\ Id(i)' = Id(i)
  <2>1. CASE o.cat = "add"
    <3>1. \A i \in 1..m' : i = 1 \/ (i > 1 /\ i - 1 \in 1..m /\ (i - 1) + 1 = i)
      BY <1>p, <1>o, <2>1
    <3> QED BY <1>o, <2>1, <3>1
  <2>2. CASE o.cat # "add"
    BY <1>o, <2>2
  <2> QED BY <2>1, <2>2
<1>3. ASSUME NEW c \in Conns, NEW d \in Conns, Live(c), Live(d)
      PROVE  /\ \A i, j \in 1..m' : i < j /\ Id(i)' = c /\ Id(j)' = d => Newer(c, d)
             /\ \A i, j \in 1..n' : /\ i < j /\ ops'[j].id = c /\ ops'[j].cat = "add"
                                   /\ ops'[i].id = d /\ ops'[i].cat = "add"
                  => Newer(c, d)
             /\ \A i \in 1..n', j \in 1..m' : ops'[i].id = c /\ ops'[i].cat = "add" /\ Id(j)' = d
                  => Newer(c, d)
  <2>1. /\ \A i, j \in 1..m : i < j /\ Id(i) = c /\ Id(j) = d => Newer(c, d)
        /\ \A i, j \in 1..n : /\ i < j /\ ops[j].id = c /\ ops[j].cat = "add"
                              /\ ops[i].id = d /\ ops[i].cat = "add"
             => Newer(c, d)
        /\ \A i \in 1..n, j \in 1..m : ops[i].id = c /\ ops[i].cat = "add" /\ Id(j) = d
             => Newer(c, d)
    BY <1>1, <1>3 DEF OrderInv
  <2>2. ASSUME NEW i \in 1..m', NEW j \in 1..m', i < j, Id(i)' = c, Id(j)' = d PROVE Newer(c, d)
    <3>1. CASE o.cat = "add" /\ i = 1
      <4>1. j - 1 \in 1..m /\ Id(j - 1) = d /\ o.id = c
        BY <1>2, <2>2, <3>1
      <4> QED BY <1>o, <2>1, <3>1, <4>1
    <3>2. CASE o.cat = "add" /\ i # 1
      <4>1. i - 1 \in 1..m /\ j - 1 \in 1..m /\ i - 1 < j - 1 /\ Id(i - 1) = c /\ Id(j - 1) = d
        BY <1>p, <1>o, <1>2, <2>2, <3>2
      <4> QED BY <2>1, <4>1
    <3>3. CASE o.cat # "add"
      BY <1>2, <2>1, <2>2, <3>3
    <3> QED BY <3>1, <3>2, <3>3
  <2>3. ASSUME NEW i \in 1..n', NEW j \in 1..n', i < j, ops'[j].id = c, ops'[j].cat = "add",
               ops'[i].id = d, ops'[i].cat = "add"
        PROVE  Newer(c, d)
    <3>1. i + 1 \in 1..n /\ j + 1 \in 1..n /\ i + 1 < j + 1 /\ ops'[i] = ops[i + 1] /\ ops'[j] = ops[j + 1]
      BY <1>p, <1>o, <2>3
    <3> QED BY <2>1, <2>3, <3>1
  <2>4. ASSUME NEW i \in 1..n', NEW j \in 1..m', ops'[i].id = c, ops'[i].cat = "add", Id(j)' = d
        PROVE  Newer(c, d)
    <3>0. i + 1 \in 1..n /\ ops'[i] = ops[i + 1] /\ 1 < i + 1
      BY <1>p, <1>o
    <3>1. CASE o.cat = "add" /\ j = 1
      <4>1. o.id = d
        BY <1>2, <2>4, <3>1
      <4> QED BY <1>o, <2>1, <2>4, <3>0, <3>1, <4>1
    <3>2. CASE o.cat = "add" /\ j # 1
      BY <1>2, <2>1, <2>4, <3>0, <3>2
    <3>3. CASE o.cat # "add"
      BY <1>2, <2>1, <2>4, <3>0, <3>3
    <3> QED BY <3>1, <3>2, <3>3
  <2> QED BY <2>2, <2>3, <2>4
<1>4. \A c, d : (Live(c)' <=> Live(c)) /\ (Newer(c, d)' <=> Newer(c, d))
  BY <1>1 DEF Live, Newer
<1> QED BY <1>3, <1>4 DEF OrderInv

LEMMA ApplyData ==
  ASSUME TypeOK, ListInv, RowInv, DataInv, ApplyOne
  PROVE  DataInv'
<1>1. UNCHANGED <<list, messages, gui, lastCount>>
  BY AppliedRows DEF RowInv
<1>2. CountedInv'
  BY <1>1 DEF DataInv, CountedInv, Listening
<1> QED BY <1>2, ApplyFresh, ApplyIdle, ApplySpeed, ApplyOrder DEF DataInv

-----------------------------------------------------------------------------
(* What the window shows: a row goes, and every other step.                *)

LEMMA TimerData ==
  ASSUME TypeOK, ListInv, RowInv, DataInv, NEW c \in Conns, OnTimer(c)
  PROVE  DataInv'
<1>1. /\ gui = "visible" /\ c \in window.closing /\ window'.closing = window.closing \ {c}
      /\ window'.idle = window.idle /\ window'.speeds = window.speeds
      /\ \A d : HasRow(window', d) <=> HasRow(window, d) /\ d # c
  BY TimedIds DEF RowInv
<1>2. PICK k \in 1..m :
        /\ Id(k) = c /\ m' = m - 1
        /\ \A i \in 1..m' : window'.rows[i] = IF i < k THEN window.rows[i] ELSE window.rows[i + 1]
  BY TimedIds DEF RowInv
<1>3. /\ Listening /\ m \in Nat
      /\ UNCHANGED <<ops, n, pc, data, list, messages, gui, lastCount>>
  BY <1>1, Sizes DEF OnTimer, Listening, connVars, queueVars, n
<1> DEFINE At(i) == IF i < k THEN i ELSE i + 1
<1>4. /\ \A i \in 1..m' : At(i) \in 1..m /\ window'.rows[i] = window.rows[At(i)]
      /\ \A i, j \in 1..m' : i < j => At(i) < At(j)
  BY <1>2, <1>3
<1>5. \A j \in 1..m : Id(j) # c => \E i \in 1..m' : At(i) = j
  <2> SUFFICES ASSUME NEW j \in 1..m, Id(j) # c PROVE \E i \in 1..m' : At(i) = j
    OBVIOUS
  <2>1. j # k
    BY <1>2
  <2>2. CASE j < k
    <3>1. j \in 1..m' /\ At(j) = j
      BY <1>2, <1>3, <2>2
    <3> QED BY <3>1
  <2>3. CASE j > k
    <3>1. j - 1 \in 1..m' /\ At(j - 1) = j
      BY <1>2, <1>3, <2>3
    <3> QED BY <3>1
  <2> QED BY <1>3, <2>1, <2>2, <2>3
<1> HIDE DEF At
<1>6. /\ \A d : RowOf(d)' = RowOf(d) /\ (Live(d)' <=> Live(d))
      /\ \A d, e : (Has(d, e)' <=> Has(d, e)) /\ (Newer(d, e)' <=> Newer(d, e))
  BY <1>3 DEF RowOf, Live, Has, Newer
<1>7. FreshInv'
  <2>1. \A d \in Conns : pc[d] \in {"idle", "traffic"} =>
          /\ \A i \in 1..n : ops[i].id = d /\ ops[i].cat = "update" => Row(ops[i]) = RowOf(d)
          /\ ~Has(d, "update") =>
               /\ \A i \in 1..n : ops[i].id = d /\ ops[i].cat = "add" => Row(ops[i]) = RowOf(d)
               /\ \A i \in 1..m : window.rows[i].id = d => window.rows[i] = RowOf(d)
    BY <1>3 DEF DataInv, FreshInv, Id
  <2>2. \A d \in Conns : pc[d] \in {"idle", "traffic"} /\ ~Has(d, "update") =>
          \A i \in 1..m' : window'.rows[i].id = d => window'.rows[i] = RowOf(d)
    BY <1>4, <2>1
  <2> QED BY <1>3, <1>6, <2>1, <2>2 DEF FreshInv, Id
<1>8. IdleInv'
  <2> DEFINE Start(r) == r.out = "START" /\ r.in = "START"
  <2>1. \A d \in Conns : d \in window.idle <=>
          d \notin window.closing /\ \E i \in 1..m : window.rows[i].id = d /\ Start(window.rows[i])
    BY <1>3 DEF DataInv, IdleInv, Id
  <2> HIDE DEF Start
  <2>2. \A i \in 1..m' : window'.rows[i].id # c
    <3> SUFFICES ASSUME NEW i \in 1..m' PROVE window'.rows[i].id # c
      OBVIOUS
    <3>1. DOMAIN window'.rows = 1..m'
      <4>1. window'.rows \in Seq(RowData)
        BY TypeStep DEF TypeOK, Next, Window
      <4> QED BY <4>1 DEF m
    <3>2. HasRow(window', window'.rows[i].id)
      BY <3>1 DEF HasRow
    <3> QED BY <1>1, <3>2
  <2>3. ASSUME NEW d \in Conns, d # c
        PROVE  (\E i \in 1..m : window.rows[i].id = d /\ Start(window.rows[i])) <=>
               \E i \in 1..m' : window'.rows[i].id = d /\ Start(window'.rows[i])
    <3>1. ASSUME NEW j \in 1..m, window.rows[j].id = d, Start(window.rows[j])
          PROVE  \E i \in 1..m' : window'.rows[i].id = d /\ Start(window'.rows[i])
      <4>1. PICK i \in 1..m' : At(i) = j
        BY <1>5, <2>3, <3>1 DEF Id
      <4> QED BY <1>4, <3>1, <4>1
    <3> QED BY <1>4, <3>1
  <2>4. \A d \in Conns : d \in window'.idle <=>
          d \notin window'.closing /\ \E i \in 1..m' : window'.rows[i].id = d /\ Start(window'.rows[i])
    BY <1>1, <2>1, <2>2, <2>3
  <2> QED BY <2>4 DEF IdleInv, Id, Start
<1>9. SpeedInv'
  <2>1. \A s \in window.speeds : HasRow(window', s[1]) /\ s[1] \notin window'.closing
    BY <1>1, <1>3 DEF DataInv, SpeedInv
  <2>2. \A d \in Conns : pc[d] \in {"idle", "update"} =>
         /\ \A i \in 1..n : ops[i].id = d /\ ops[i].cat = "traffic" => OfSecond(ops[i].data.traffic, data[d].traffic)
         /\ ~Has(d, "traffic") => \A s \in window.speeds : s[1] = d => OfSecond(s[2], data[d].traffic)
    BY <1>3 DEF DataInv, SpeedInv
  <2> QED BY <1>1, <1>3, <1>6, <2>1, <2>2 DEF SpeedInv
<1>10. OrderInv'
  <2>1. \A a, d \in Conns : Live(a) /\ Live(d) =>
      /\ \A i, j \in 1..m : i < j /\ window.rows[i].id = a /\ window.rows[j].id = d => Newer(a, d)
      /\ \A i, j \in 1..n : /\ i < j /\ ops[j].id = a /\ ops[j].cat = "add"
                            /\ ops[i].id = d /\ ops[i].cat = "add"
           => Newer(a, d)
      /\ \A i \in 1..n, j \in 1..m : ops[i].id = a /\ ops[i].cat = "add" /\ window.rows[j].id = d
           => Newer(a, d)
    BY <1>3 DEF DataInv, OrderInv, Id
  <2>2. \A a, d \in Conns : Live(a) /\ Live(d) =>
      /\ \A i, j \in 1..m' : i < j /\ window'.rows[i].id = a /\ window'.rows[j].id = d => Newer(a, d)
      /\ \A i \in 1..n, j \in 1..m' : ops[i].id = a /\ ops[i].cat = "add" /\ window'.rows[j].id = d
           => Newer(a, d)
    BY <1>4, <2>1
  <2> QED BY <1>3, <1>6, <2>1, <2>2 DEF OrderInv, Id
<1>11. CountedInv'
  BY <1>3 DEF DataInv, CountedInv, Listening
<1> QED BY <1>7, <1>8, <1>9, <1>10, <1>11 DEF DataInv

LEMMA SetsData ==
  ASSUME TypeOK, DataInv, Listening', NEW c \in Conns, SetData(c) \/ SetTraffic(c) \/ MoreTraffic(c)
  PROVE  DataInv'
<1>p. /\ pc \in [Conns -> {"none", "idle", "update", "traffic", "destroyed"}]
      /\ data \in [Conns -> DataOf] /\ data[c] \in DataOf
  BY DEF TypeOK
<1>1. /\ UNCHANGED <<ops, n, m, window, list, messages, gui, lastCount>>
      /\ Listening /\ pc[c] = "idle"
  BY DEF SetData, SetTraffic, MoreTraffic, guiVars, queueVars, Listening, n, m
<1>2. /\ \A d \in Conns \ {c} : pc'[d] = pc[d] /\ data'[d] = data[d]
      /\ \/ pc'[c] = "update" /\ data'[c].traffic = data[c].traffic
         \/ /\ pc'[c] = "traffic" /\ data'[c].out = data[c].out
            /\ data'[c].in = data[c].in /\ data'[c].text = data[c].text
         \/ /\ pc'[c] = "idle" /\ data'[c].out = data[c].out
            /\ data'[c].in = data[c].in /\ data'[c].text = data[c].text
            /\ OfSecond(data[c].traffic, data'[c].traffic)
  <2>1. CASE SetData(c)
    <3>1. PICK d \in Changes(data[c]) : data' = [data EXCEPT ![c] = d]
      BY <2>1 DEF SetData
    <3>2. d.traffic = data[c].traffic
      BY <1>p DEF Changes, DataOf
    <3>3. pc' = [pc EXCEPT ![c] = "update"]
      BY <2>1 DEF SetData
    <3> QED BY <1>p, <3>1, <3>2, <3>3
  <2>2. CASE SetTraffic(c)
    <3>1. /\ data' = [data EXCEPT ![c].traffic = [sec |-> data[c].traffic.sec + 1, bytes |-> 1]]
          /\ pc' = [pc EXCEPT ![c] = "traffic"]
      BY <1>p, <2>2 DEF SetTraffic
    <3> QED BY <1>p, <3>1 DEF DataOf
  <2>3. CASE MoreTraffic(c)
    <3>1. /\ data' = [data EXCEPT ![c].traffic.bytes = data[c].traffic.bytes + 1] /\ pc' = pc
      BY <1>p, <2>3 DEF MoreTraffic
    <3>2. data[c].traffic \in Traffic
      BY <1>p DEF DataOf
    <3>3. /\ data'[c].out = data[c].out /\ data'[c].in = data[c].in /\ data'[c].text = data[c].text
          /\ data'[c].traffic = [data[c].traffic EXCEPT !.bytes = data[c].traffic.bytes + 1]
      BY <1>p, <3>1 DEF DataOf
    <3>4. OfSecond(data[c].traffic, data'[c].traffic)
      BY <3>2, <3>3 DEF OfSecond, Traffic
    <3> QED BY <1>1, <1>p, <3>1, <3>3, <3>4
  <2> QED BY <2>1, <2>2, <2>3
<1>3. /\ \A d, e : (Has(d, e)' <=> Has(d, e)) /\ (Newer(d, e)' <=> Newer(d, e))
      /\ \A i : Id(i)' = Id(i)
      /\ \A d \in Conns : Live(d)' <=> Live(d)
  BY <1>1, <1>2 DEF Has, Newer, Id, Live
<1>4. \A d \in Conns : pc'[d] \in {"idle", "traffic"} => pc[d] \in {"idle", "traffic"} /\ RowOf(d)' = RowOf(d)
  <2> SUFFICES ASSUME NEW d \in Conns, pc'[d] \in {"idle", "traffic"}
               PROVE  pc[d] \in {"idle", "traffic"} /\ RowOf(d)' = RowOf(d)
    OBVIOUS
  <2>1. CASE d # c
    BY <1>2, <2>1 DEF RowOf
  <2>2. CASE d = c
    BY <1>1, <1>2, <2>2 DEF RowOf, Row
  <2> QED BY <2>1, <2>2
<1>5. \A d \in Conns : pc'[d] \in {"idle", "update"} =>
        /\ pc[d] \in {"idle", "update"}
        /\ data'[d].traffic = data[d].traffic \/ OfSecond(data[d].traffic, data'[d].traffic)
  BY <1>1, <1>2
<1>t. ASSUME NEW d \in Conns, pc'[d] \in {"idle", "update"}, NEW t \in Traffic,
             OfSecond(t, data[d].traffic)
      PROVE  OfSecond(t, data'[d].traffic)
  <2>1. data[d] \in DataOf /\ data'[d] \in DataOf
    <3>1. Next
      BY DEF Next, Manager
    <3> QED BY <3>1, TypeStep DEF TypeOK
  <2> QED BY <1>5, <1>t, <2>1 DEF OfSecond, Traffic, DataOf
<1>6. FreshInv'
  BY <1>1, <1>3, <1>4 DEF DataInv, FreshInv
<1>7. IdleInv'
  BY <1>1, <1>3 DEF DataInv, IdleInv
<1>8. SpeedInv'
  <2>1. \A d \in Conns : pc[d] \in {"idle", "update"} =>
         /\ \A i \in 1..n : ops[i].id = d /\ ops[i].cat = "traffic" => OfSecond(ops[i].data.traffic, data[d].traffic)
         /\ ~Has(d, "traffic") => \A s \in window.speeds : s[1] = d => OfSecond(s[2], data[d].traffic)
    BY <1>1 DEF DataInv, SpeedInv
  <2>2. \A s \in window.speeds : HasRow(window, s[1]) /\ s[1] \notin window.closing
    BY <1>1 DEF DataInv, SpeedInv
  <2>3. /\ \A s \in window.speeds : s[2] \in Traffic
        /\ \A i \in 1..n : ops[i].data.traffic \in Traffic
    <3>1. window.speeds \subseteq Conns \X Traffic /\ \A i \in 1..n : ops[i] \in Ops
      BY Sizes DEF TypeOK, n
    <3> QED BY <3>1 DEF Ops, DataOf
  <2>4. \A d \in Conns : pc'[d] \in {"idle", "update"} =>
         /\ pc[d] \in {"idle", "update"}
         /\ \A t \in Traffic : OfSecond(t, data[d].traffic) => OfSecond(t, data'[d].traffic)
    BY <1>5, <1>t
  <2> QED BY <1>1, <1>3, <2>1, <2>2, <2>3, <2>4 DEF SpeedInv
<1>9. OrderInv'
  BY <1>1, <1>3 DEF DataInv, OrderInv
<1>10. CountedInv'
  BY <1>1 DEF DataInv, CountedInv, Listening
<1> QED BY <1>6, <1>7, <1>8, <1>9, <1>10 DEF DataInv

LEMMA StillData ==
  ASSUME TypeOK, DataInv, Listening, UNCHANGED <<ops, window, pc, data, list>>
  PROVE  FreshInv' /\ IdleInv' /\ SpeedInv' /\ OrderInv'
<1>1. /\ n' = n /\ m' = m /\ \A i : Id(i)' = Id(i)
      /\ \A d, e : (Has(d, e)' <=> Has(d, e)) /\ (Newer(d, e)' <=> Newer(d, e))
      /\ \A d : (Live(d)' <=> Live(d)) /\ RowOf(d)' = RowOf(d)
  BY DEF n, m, Id, Has, Newer, Live, RowOf
<1>2. FreshInv' /\ IdleInv'
  BY <1>1 DEF DataInv, FreshInv, IdleInv
<1>3. SpeedInv' /\ OrderInv'
  BY <1>1 DEF DataInv, SpeedInv, OrderInv
<1> QED BY <1>2, <1>3

\* OnUpdateNotify takes a message, and its count if it has one.
LEMMA TakenCount ==
  ASSUME TypeOK, CountedInv, Listening, OnUpdateNotify
  PROVE  CountedInv'
<1>1. /\ messages \in Seq(Counts) /\ messages # <<>> /\ messages' = Tail(messages)
      /\ lastCount' = (IF Head(messages) = NoCount THEN lastCount ELSE Head(messages))
      /\ list' = list /\ gui' = gui
  BY DEF TypeOK, OnUpdateNotify, connVars
<1> DEFINE k == Len(messages)
<1>2. /\ k \in Nat /\ k >= 1 /\ Len(messages') = k - 1 /\ Head(messages) = messages[1]
      /\ \A i \in 1..k-1 : messages'[i] = messages[i + 1]
  BY <1>1, Behead
<1>3. ASSUME NEW i \in 0..k-1, \A j \in i+1..k-1 : messages'[j] = NoCount
      PROVE  \A j \in (i+1)+1..k : messages[j] = NoCount
  <2> SUFFICES ASSUME NEW j \in (i+1)+1..k PROVE messages[j] = NoCount
    OBVIOUS
  <2> HIDE DEF k
  <2>1. j - 1 \in i+1..k-1 /\ j - 1 \in 1..k-1 /\ (j - 1) + 1 = j
    BY <1>2
  <2> QED BY <1>2, <1>3, <2>1
<1>4. ASSUME NEW i \in 0..k-1, messages[i + 1] # NoCount, \A j \in i+1..k-1 : messages'[j] = NoCount
      PROVE  messages[i + 1] = Len(list)
  <2>1. i + 1 \in 1..k
    BY <1>2
  <2> QED BY <1>3, <1>4, <2>1 DEF CountedInv
<1> HIDE DEF k
<1>5. \A i \in 1..Len(messages') :
         messages'[i] # NoCount /\ (\A j \in i+1..Len(messages') : messages'[j] = NoCount)
           => messages'[i] = Len(list')
  BY <1>1, <1>2, <1>4
<1>6. ASSUME gui = "visible", \A j \in 1..Len(messages') : messages'[j] = NoCount
      PROVE  lastCount' = Len(list')
  <2>1. 0 \in 0..k-1 /\ 0 + 1 = 1
    BY <1>2
  <2>2. CASE messages[1] # NoCount
    BY <1>1, <1>2, <1>4, <1>6, <2>1, <2>2
  <2>3. CASE messages[1] = NoCount
    <3>1. \A j \in 1..k : j = 1 \/ j \in (0+1)+1..k
      BY <1>2
    <3>2. \A j \in 1..k : messages[j] = NoCount
      BY <1>2, <1>3, <1>6, <2>1, <2>3, <3>1
    <3> QED BY <1>1, <1>2, <1>6, <2>3, <3>2 DEF CountedInv, k
  <2> QED BY <2>2, <2>3
<1> QED BY <1>1, <1>5, <1>6 DEF CountedInv

LEMMA ShowData ==
  ASSUME TypeOK, RowInv, Show
  PROVE  DataInv'
<1>1. /\ n' = 0 /\ window' = Empty /\ messages' = <<>> /\ gui' = "register" /\ Len(messages') = 0
  BY DEF Show, queueVars, RowInv, GuiInv, n
<1>2. /\ m' = 0 /\ window'.speeds = {} /\ window'.idle = {} /\ 1..n' = {} /\ 1..m' = {}
      /\ 1..Len(messages') = {}
  BY <1>1 DEF Empty, m
<1>3. FreshInv' /\ IdleInv' /\ SpeedInv' /\ OrderInv'
  BY <1>2 DEF FreshInv, IdleInv, SpeedInv, OrderInv
<1>4. CountedInv'
  BY <1>1, <1>2 DEF CountedInv
<1> QED BY <1>3, <1>4 DEF DataInv

LEMMA DataStep == TypeOK /\ ListInv /\ RowInv /\ DataInv /\ [Next]_vars => DataInv'
<1> SUFFICES ASSUME TypeOK, ListInv, RowInv, DataInv, [Next]_vars PROVE DataInv'
  OBVIOUS
<1>1. CASE ~Listening'
  BY <1>1 DEF DataInv, FreshInv, IdleInv, SpeedInv, OrderInv, CountedInv, Listening
<1>2. ASSUME Listening' PROVE DataInv'
  <2>1. ASSUME Listening, UNCHANGED <<ops, window, pc, data, list, messages, gui, lastCount>> PROVE DataInv'
    <3>1. CountedInv'
      BY <2>1 DEF DataInv, CountedInv, Listening
    <3> QED BY <2>1, <3>1, StillData DEF DataInv
  <2>2. CASE UNCHANGED vars
    BY <1>2, <2>1, <2>2 DEF vars, guiVars, connVars, queueVars, Listening
  <2>3. CASE ApplyDone \/ KeyDelete
    BY <1>2, <2>1, <2>3 DEF ApplyDone, KeyDelete, guiVars, connVars, queueVars, Listening
  <2>4. CASE RegisterDone \/ ShowCount
    <3>1. /\ Listening /\ UNCHANGED <<ops, window, pc, data, list, messages>>
          /\ gui' = "count" \/ lastCount' = Len(list)
      BY <2>4 DEF RegisterDone, ShowCount, connVars, queueVars, Listening
    <3>2. CountedInv'
      BY <3>1 DEF DataInv, CountedInv
    <3> QED BY <3>1, <3>2, StillData DEF DataInv
  <2>5. CASE OnUpdateNotify
    <3>1. Listening /\ UNCHANGED <<ops, window, pc, data, list>>
      BY <1>2, <2>5 DEF OnUpdateNotify, connVars, Listening
    <3>2. CountedInv'
      BY <2>5, <3>1, TakenCount DEF DataInv
    <3> QED BY <3>1, <3>2, StillData DEF DataInv
  <2>6. ~Cancel /\ ~Unregister
    BY <1>2 DEF Cancel, Unregister, Listening
  <2> QED BY <1>2, <2>2, <2>3, <2>4, <2>5, <2>6, CreateData, RemoveData, NotifyData, RegisterData,
            ApplyData, TimerData, SetsData, ShowData DEF Next, Gui, Window, Manager
<1> QED BY <1>1, <1>2

LEMMA DataInit == Init => DataInv
BY DEF Init, DataInv, FreshInv, IdleInv, SpeedInv, OrderInv, CountedInv, Listening

\* What the invariant says once things are quiet.
LEMMA QuietShows ==
  ASSUME TypeOK, ListInv, RowInv, DataInv, Quiet
  PROVE  /\ \A c \in Conns : OnScreen(c) <=> Contains(list, c)
         /\ \A i, j \in Shown : i < j => Newer(window.rows[i].id, window.rows[j].id)
         /\ \A i \in Shown : window.rows[i] = RowOf(window.rows[i].id)
         /\ window.idle = {c \in Conns : OnScreen(c) /\ IsIdle(data[c])}
         /\ lastCount = Len(list)
         /\ \A s \in window.speeds : OnScreen(s[1]) /\ OfSecond(s[2], data[s[1]].traffic)
<1>p. /\ m \in Nat /\ DOMAIN window.rows = 1..m /\ \A i \in 1..m : Id(i) \in Conns
      /\ window.idle \subseteq Conns /\ window.speeds \subseteq Conns \X Traffic
      /\ pc \in [Conns -> {"none", "idle", "update", "traffic", "destroyed"}]
  BY Sizes DEF TypeOK
<1>1. /\ gui = "visible" /\ Listening /\ messages = <<>> /\ ops = <<>> /\ n = 0 /\ toAdd = <<>>
  BY DEF Quiet, Listening, RowInv, GuiInv, n
<1>2. \A c, k : ~Has(c, k)
  BY <1>1 DEF Has
<1>3. \A c \in Conns : OnScreen(c) <=> Live(c)
  <2>1. \A c : ~Contains(toAdd, c)
    BY <1>1 DEF Contains
  <2> QED BY <1>1, <1>2, <2>1 DEF RowInv, KnownInv
<1>4. \A c \in Conns : Live(c) => pc[c] = "idle"
  BY <1>p DEF Quiet, Live, Coalesced
<1>5. \A c \in Conns : OnScreen(c) <=> Contains(list, c)
  BY <1>3 DEF ListInv
<1>6. \A i \in Shown : i \in 1..m /\ Id(i) \in Conns /\ Id(i) = window.rows[i].id /\ OnScreen(Id(i))
  BY <1>p DEF Shown, OnScreen, HasRow, Id
<1>7. \A i, j \in Shown : i < j => Newer(window.rows[i].id, window.rows[j].id)
  BY <1>1, <1>3, <1>6 DEF DataInv, OrderInv
<1>8. \A i \in Shown : window.rows[i] = RowOf(window.rows[i].id)
  BY <1>1, <1>2, <1>3, <1>4, <1>6 DEF DataInv, FreshInv
<1>9. ASSUME NEW c \in Conns PROVE c \in window.idle <=> OnScreen(c) /\ IsIdle(data[c])
  <2>1. c \in window.idle <=>
          /\ c \notin window.closing
          /\ \E i \in 1..m : Id(i) = c /\ window.rows[i].out = "START" /\ window.rows[i].in = "START"
    BY <1>1 DEF DataInv, IdleInv
  <2>2. \A i \in 1..m : Id(i) = c /\ c \notin window.closing => i \in Shown
    BY <1>p DEF Shown, Id
  <2>3. RowOf(c).out = data[c].out /\ RowOf(c).in = data[c].in
    BY DEF RowOf, Row
  <2>4. OnScreen(c) <=> c \notin window.closing /\ \E i \in 1..m : Id(i) = c
    BY <1>p DEF OnScreen, HasRow, Id
  <2>5. \A i \in 1..m : Id(i) = c /\ c \notin window.closing => window.rows[i] = RowOf(c)
    BY <1>8, <2>2 DEF Id
  <2> QED BY <2>1, <2>3, <2>4, <2>5 DEF IsIdle
<1>10. window.idle = {c \in Conns : OnScreen(c) /\ IsIdle(data[c])}
  BY <1>p, <1>9
<1>11. lastCount = Len(list)
  <2>1. 1..Len(messages) = {}
    BY <1>1
  <2> QED BY <1>1, <2>1 DEF DataInv, CountedInv
<1>12. ASSUME NEW s \in window.speeds PROVE OnScreen(s[1]) /\ OfSecond(s[2], data[s[1]].traffic)
  <2>1. s[1] \in Conns /\ OnScreen(s[1])
    BY <1>p, <1>1 DEF DataInv, SpeedInv, OnScreen
  <2>2. pc[s[1]] = "idle"
    BY <1>3, <1>4, <2>1
  <2> QED BY <1>1, <1>2, <2>1, <2>2 DEF DataInv, SpeedInv
<1> QED BY <1>5, <1>7, <1>8, <1>10, <1>11, <1>12

\* Once things are quiet the window shows the connections there are, newest
\* first, as they are, and counts them.
THEOREM WindowShowsListHolds == Spec => []WindowShowsList
<1>1. MonitorInv => WindowShowsList
  BY QuietShows DEF MonitorInv, WindowShowsList, RowOf
<1>2. Init => MonitorInv
  BY TypeInit, ListInit, RowInit, DataInit DEF MonitorInv
<1>3. MonitorInv /\ [Next]_vars => MonitorInv'
  BY TypeStep, ListStep, RowStep, DataStep DEF MonitorInv
<1> QED BY <1>1, <1>2, <1>3, PTL DEF Spec

=============================================================================
