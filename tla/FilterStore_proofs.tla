-------------------------- MODULE FilterStore_proofs --------------------------
(***************************************************************************)
(* Safety of FilterStore for any number of filters, edits and connections: *)
(* what is proved is every safety property the run "filters" checks.       *)
(***************************************************************************)
EXTENDS FilterStore, TLAPS

\* Every edit but the one in hand has been given to a thread.
CountOK == saveTime = Len(saves) /\ tree = Len(saves) + (IF gui = "save" THEN 1 ELSE 0)

\* s_cs is held by the one save between TryEnter and Leave, and filter.temp.xml
\* is what that save has made of it.
Inside == {"collect", "check", "write", "rename"}
HolderOK == \A s \in DOMAIN saves : saves[s].pc \in Inside <=> csSave = s
Made(s, closed) == [copy |-> saves[s].copy, n |-> saves[s].done, closed |-> closed]
TempOK == \A s \in DOMAIN saves : /\ saves[s].pc = "write" => temp = Made(s, FALSE)
                                  /\ saves[s].pc = "rename" => temp = Made(s, TRUE)

\* The newest save, when it came across no other: nobody tells it to give up.
AloneOK(s) ==
  /\ saves[s].pc \in {"try", "collect", "check", "write", "rename", "left", "ended"}
  /\ Alive \subseteq {s} /\ (s \in Alive => ~bCancel)
  /\ saves[s].pc \in {"check", "write", "rename"} => saves[s].done = NFilters
  /\ saves[s].pc \in {"left", "ended"} => (saves[s].failed \/ file = Whole(saves[s].copy))
LoneInv == /\ Len(saves) > 0 /\ saves[Len(saves)].alone => AloneOK(Len(saves))
           /\ gui = "gone" => Len(saves) \notin Alive

\* A connection that enumerates holds s_csFilters, and reads the tree as it is.
ConnInv ==
  \A m \in Managers :
    /\ filters[m].time <= saveTime
    /\ pc[m] = "enum" => csFilters = m /\ Len(filters[m].seen) <= NFilters
    /\ pc[m] = "enum" /\ m \notin torn
         => \A i \in 1..Len(filters[m].seen) : filters[m].seen[i] = tree

SaveInv == HolderOK /\ TempOK /\ NoStaleCancel
Inv == TypeOK /\ CountOK /\ SaveInv /\ LoneInv /\ ConnInv /\ FiltersCurrent

-----------------------------------------------------------------------------
(* The steps of a save.                                                    *)

\* Save s becomes r; the others, and what is not the saves', stay.
Becomes(s, r) ==
  /\ s \in DOMAIN saves /\ r \in Saves /\ gui # "gone"
  /\ saves' \in Seq(Saves) /\ Len(saves') = Len(saves) /\ DOMAIN saves' = DOMAIN saves
  /\ saves'[s] = r
  /\ \A o \in DOMAIN saves : o # s => saves'[o] = saves[o]
  /\ r.copy = saves[s].copy /\ r.alone = saves[s].alone
  /\ UNCHANGED <<guiVars, csFilters, saveTime, connVars>>

\* A save replaced by another record is the only one that changes.
LEMMA Replaced ==
  ASSUME saves \in Seq(Saves), NEW s \in DOMAIN saves, NEW r \in Saves,
         saves' = [saves EXCEPT ![s] = r]
  PROVE  /\ saves' \in Seq(Saves) /\ Len(saves') = Len(saves) /\ DOMAIN saves' = DOMAIN saves
         /\ saves'[s] = r /\ \A o \in DOMAIN saves : o # s => saves'[o] = saves[o]
OBVIOUS

\* The record of a save has the values its type says.
LEMMA SaveType ==
  ASSUME TypeOK, NEW s \in DOMAIN saves
  PROVE  /\ saves[s] \in Saves /\ saves[s].copy \in Trees /\ saves[s].done \in 0..NFilters
         /\ saves[s].alone \in BOOLEAN /\ saves[s].failed \in BOOLEAN
         /\ saves[s].pc \in {"try", "refused", "collect", "check", "write", "rename", "left", "ended"}
         /\ s \in Int
<1>1. saves[s] \in Saves
  BY DEF TypeOK
<1> QED
  BY <1>1 DEF TypeOK, Saves

LEMMA GoesBecomes ==
  ASSUME TypeOK, NEW s \in SaveIds, NEW from, NEW to \in {"try", "refused", "collect", "check", "write", "rename", "left", "ended"},
         Goes(s, from, to), UNCHANGED <<guiVars, csFilters, saveTime, connVars>>
  PROVE  saves[s].pc = from /\ Becomes(s, [saves[s] EXCEPT !.pc = to])
<1>1. s \in DOMAIN saves /\ saves[s].pc = from /\ gui # "gone"
  BY DEF Goes
<1> DEFINE r == [saves[s] EXCEPT !.pc = to]
<1>2. r \in Saves /\ r.copy = saves[s].copy /\ r.alone = saves[s].alone
  BY <1>1, SaveType DEF Saves
<1>3. saves' = [saves EXCEPT ![s] = r]
  BY DEF Goes
<1>4. saves \in Seq(Saves)
  BY DEF TypeOK
<1> HIDE DEF r
<1>5. /\ saves' \in Seq(Saves) /\ Len(saves') = Len(saves) /\ DOMAIN saves' = DOMAIN saves
      /\ saves'[s] = r /\ \A o \in DOMAIN saves : o # s => saves'[o] = saves[o]
  BY <1>1, <1>2, <1>3, <1>4, Replaced
<1>6. Becomes(s, r)
  BY <1>1, <1>2, <1>5 DEF Becomes
<1> QED
  BY <1>1, <1>6 DEF r

\* What each action of a save makes of it.
LEMMA ItemBecomes ==
  ASSUME TypeOK, NEW s \in SaveIds, SaveFilterItem(s)
  PROVE  /\ saves[s].pc = "collect"
         /\ \/ /\ bCancel \/ saves[s].done = NFilters
               /\ Becomes(s, [saves[s] EXCEPT !.pc = "check"])
            \/ /\ ~bCancel /\ saves[s].done # NFilters
               /\ Becomes(s, [saves[s] EXCEPT !.done = @ + 1])
<1>1. s \in DOMAIN saves /\ saves[s].pc = "collect" /\ gui # "gone" /\ saves \in Seq(Saves)
  BY DEF SaveFilterItem, TypeOK
<1>2. UNCHANGED <<guiVars, csFilters, saveTime, connVars>>
  BY DEF SaveFilterItem
<1>3. CASE bCancel \/ saves[s].done = NFilters
  <2> DEFINE r == [saves[s] EXCEPT !.pc = "check"]
  <2>1. r \in Saves /\ r.copy = saves[s].copy /\ r.alone = saves[s].alone
    BY <1>1, SaveType DEF Saves
  <2>2. saves' = [saves EXCEPT ![s] = r]
    BY <1>3 DEF SaveFilterItem
  <2> HIDE DEF r
  <2>3. Becomes(s, r)
    BY <1>1, <1>2, <2>1, <2>2, Replaced DEF Becomes
  <2> QED
    BY <1>1, <1>3, <2>3 DEF r
<1>4. CASE ~bCancel /\ saves[s].done # NFilters
  <2> DEFINE r == [saves[s] EXCEPT !.done = @ + 1]
  <2>1. saves[s].done + 1 \in 0..NFilters
    BY <1>1, <1>4, SaveType, StoreConstantsOK
  <2>2. r \in Saves /\ r.copy = saves[s].copy /\ r.alone = saves[s].alone
    BY <1>1, <2>1, SaveType DEF Saves
  <2>3. saves' = [saves EXCEPT ![s] = r]
    BY <1>4 DEF SaveFilterItem
  <2> HIDE DEF r
  <2>4. Becomes(s, r)
    BY <1>1, <1>2, <2>2, <2>3, Replaced DEF Becomes
  <2> QED
    BY <1>1, <1>4, <2>4 DEF r
<1> QED
  BY <1>3, <1>4

LEMMA FailsBecomes ==
  ASSUME TypeOK, NEW s \in SaveIds, NEW p, DiskFailsAt(s, p)
  PROVE  saves[s].pc = p /\ Becomes(s, [saves[s] EXCEPT !.pc = "left", !.failed = TRUE])
<1> DEFINE r == [saves[s] EXCEPT !.pc = "left", !.failed = TRUE]
<1>1. /\ s \in DOMAIN saves /\ saves[s].pc = p /\ gui # "gone" /\ saves \in Seq(Saves)
      /\ UNCHANGED <<guiVars, csFilters, saveTime, connVars>>
  BY DEF DiskFailsAt, TypeOK
<1>2. r \in Saves /\ r.copy = saves[s].copy /\ r.alone = saves[s].alone
  BY <1>1, SaveType DEF Saves
<1>3. saves' = [saves EXCEPT ![s] = r]
  BY DEF DiskFailsAt
<1> HIDE DEF r
<1>4. Becomes(s, r)
  BY <1>1, <1>2, <1>3, Replaced DEF Becomes
<1> QED
  BY <1>1, <1>4 DEF r

LEMMA EndsBecomes ==
  ASSUME TypeOK, NEW s \in SaveIds, ClearCancel(s)
  PROVE  saves[s].pc = "left" /\ Becomes(s, [saves[s] EXCEPT !.pc = "ended", !.done = 0])
<1> DEFINE r == [saves[s] EXCEPT !.pc = "ended", !.done = 0]
<1>1. /\ s \in DOMAIN saves /\ saves[s].pc = "left" /\ gui # "gone" /\ saves \in Seq(Saves)
      /\ UNCHANGED <<guiVars, csFilters, saveTime, connVars>>
  BY DEF ClearCancel, Ends, TypeOK
<1>0. 0 \in 0..NFilters
  BY StoreConstantsOK
<1>2. r \in Saves /\ r.copy = saves[s].copy /\ r.alone = saves[s].alone
  BY <1>0, <1>1, SaveType DEF Saves
<1>3. saves' = [saves EXCEPT ![s] = r]
  BY DEF ClearCancel, Ends
<1> HIDE DEF r
<1>4. Becomes(s, r)
  BY <1>1, <1>2, <1>3, Replaced DEF Becomes
<1> QED
  BY <1>1, <1>4 DEF r

\* The table of a save's steps: its record before and after, and what else it
\* does to s_cs, the flag and the two files.
Moves(s, r, from, to) ==
  /\ saves[s].pc = from /\ r.pc = to
  /\ r.done = saves[s].done /\ r.failed = saves[s].failed
Step(s, r) ==
  /\ Becomes(s, r)
  /\ \/ /\ Moves(s, r, "try", "collect") /\ csSave = 0
        /\ csSave' = s /\ UNCHANGED <<bCancel, temp, file>>
     \/ /\ Moves(s, r, "try", "refused") /\ csSave # 0
        /\ UNCHANGED <<csSave, bCancel, temp, file>>
     \/ /\ Moves(s, r, "refused", "try")
        /\ bCancel' = TRUE /\ UNCHANGED <<csSave, temp, file>>
     \/ /\ Moves(s, r, "collect", "check") /\ (bCancel \/ saves[s].done = NFilters)
        /\ UNCHANGED <<csSave, bCancel, temp, file>>
     \/ /\ saves[s].pc = "collect" /\ r.pc = "collect"
        /\ UNCHANGED <<csSave, bCancel, temp, file>>
     \/ /\ Moves(s, r, "check", "left") /\ bCancel
        /\ csSave' = 0 /\ UNCHANGED <<bCancel, temp, file>>
     \/ /\ Moves(s, r, "check", "write") /\ ~bCancel
        /\ temp' = [copy |-> r.copy, n |-> r.done, closed |-> FALSE]
        /\ UNCHANGED <<csSave, bCancel, file>>
     \/ /\ Moves(s, r, "write", "rename")
        /\ temp' = [temp EXCEPT !.closed = TRUE] /\ UNCHANGED <<csSave, bCancel, file>>
     \/ /\ saves[s].pc \in {"write", "rename"} /\ r.pc = "left" /\ r.failed /\ r.done = saves[s].done
        /\ csSave' = 0 /\ UNCHANGED <<bCancel, temp, file>>
     \/ /\ Moves(s, r, "rename", "left")
        /\ csSave' = 0 /\ temp' = NoFile /\ UNCHANGED bCancel
        /\ file' = [copy |-> temp.copy, n |-> IF temp.closed THEN temp.n ELSE -1]
     \/ /\ saves[s].pc = "left" /\ r.pc = "ended" /\ r.failed = saves[s].failed
        /\ bCancel' = FALSE /\ UNCHANGED <<csSave, temp, file>>

LEMMA SaveSteps ==
  ASSUME TypeOK, NEW s \in SaveIds, Save(s)
  PROVE  \E r \in Saves : Step(s, r)
<1> DEFINE To(p) == [saves[s] EXCEPT !.pc = p]
<1>r. ASSUME NEW from, NEW to \in {"try", "refused", "collect", "check", "write", "rename", "left", "ended"},
             saves[s].pc = from, Becomes(s, To(to))
      PROVE  To(to) \in Saves /\ Moves(s, To(to), from, to) /\ To(to).copy = saves[s].copy
  BY <1>r, SaveType DEF Becomes, Moves, Saves
<1> HIDE DEF To
<1>1. CASE TryEnter(s)
  <2>1. CASE csSave = 0
    <3>1. Goes(s, "try", "collect") /\ csSave' = s /\ UNCHANGED <<guiVars, csFilters, saveTime, bCancel, temp, file, connVars>>
      BY <1>1, <2>1 DEF TryEnter
    <3>2. saves[s].pc = "try" /\ Becomes(s, To("collect"))
      BY <3>1, GoesBecomes DEF To
    <3> QED
      BY <2>1, <3>1, <3>2, <1>r DEF Step
  <2>2. CASE csSave # 0
    <3>1. Goes(s, "try", "refused") /\ UNCHANGED <<guiVars, csFilters, saveTime, csSave, bCancel, temp, file, connVars>>
      BY <1>1, <2>2 DEF TryEnter
    <3>2. saves[s].pc = "try" /\ Becomes(s, To("refused"))
      BY <3>1, GoesBecomes DEF To
    <3> QED
      BY <2>2, <3>1, <3>2, <1>r DEF Step
  <2> QED
    BY <2>1, <2>2
<1>2. CASE Refused(s)
  <2>1. saves[s].pc = "refused" /\ Becomes(s, To("try"))
    BY <1>2, GoesBecomes DEF Refused, To
  <2> QED
    BY <1>2, <2>1, <1>r DEF Step, Refused
<1>3. CASE SaveFilterItem(s)
  <2>0. saves[s].pc = "collect" /\ UNCHANGED <<csSave, bCancel, temp, file>>
    BY <1>3 DEF SaveFilterItem
  <2>1. CASE (bCancel \/ saves[s].done = NFilters) /\ Becomes(s, To("check"))
    BY <2>0, <2>1, <1>r DEF Step
  <2>2. CASE Becomes(s, [saves[s] EXCEPT !.done = @ + 1])
    <3>1. [saves[s] EXCEPT !.done = @ + 1].pc = "collect"
      BY <2>0, <2>2, SaveType DEF Becomes, Saves
    <3> QED
      BY <2>0, <2>2, <3>1 DEF Step, Becomes
  <2> QED
    BY <1>3, <2>1, <2>2, ItemBecomes DEF To
<1>4. CASE CheckCancel(s)
  <2>1. CASE bCancel
    <3>1. Goes(s, "check", "left") /\ csSave' = 0 /\ UNCHANGED <<guiVars, csFilters, saveTime, bCancel, temp, file, connVars>>
      BY <1>4, <2>1 DEF CheckCancel
    <3>2. saves[s].pc = "check" /\ Becomes(s, To("left"))
      BY <3>1, GoesBecomes DEF To
    <3> QED
      BY <2>1, <3>1, <3>2, <1>r DEF Step
  <2>2. CASE ~bCancel
    <3>1. /\ Goes(s, "check", "write") /\ temp' = [copy |-> saves[s].copy, n |-> saves[s].done, closed |-> FALSE]
          /\ UNCHANGED <<guiVars, csFilters, saveTime, csSave, bCancel, file, connVars>>
      BY <1>4, <2>2 DEF CheckCancel
    <3>2. saves[s].pc = "check" /\ Becomes(s, To("write"))
      BY <3>1, GoesBecomes DEF To
    <3>3. /\ To("write") \in Saves /\ Moves(s, To("write"), "check", "write")
          /\ temp' = [copy |-> To("write").copy, n |-> To("write").done, closed |-> FALSE]
      BY <3>1, <3>2, <1>r DEF Moves
    <3> QED
      BY <2>2, <3>1, <3>2, <3>3 DEF Step
  <2> QED
    BY <2>1, <2>2
<1>5. CASE WriteXml(s)
  <2>1. saves[s].pc = "write" /\ Becomes(s, To("rename"))
    BY <1>5, GoesBecomes DEF WriteXml, To
  <2> QED
    BY <1>5, <2>1, <1>r DEF Step, WriteXml
<1>6. CASE WriteFails(s) \/ MoveFails(s)
  <2> DEFINE r == [saves[s] EXCEPT !.pc = "left", !.failed = TRUE]
  <2>1. saves[s].pc \in {"write", "rename"} /\ Becomes(s, r)
    BY <1>6, FailsBecomes DEF WriteFails, MoveFails
  <2>2. r.pc = "left" /\ r.failed /\ r.done = saves[s].done
    BY <2>1, SaveType DEF Becomes, Saves
  <2>3. csSave' = 0 /\ UNCHANGED <<bCancel, temp, file>>
    BY <1>6 DEF WriteFails, MoveFails, DiskFailsAt
  <2> HIDE DEF r
  <2> QED
    BY <2>1, <2>2, <2>3 DEF Step, Becomes
<1>7. CASE MoveFileEx(s)
  <2>1. saves[s].pc = "rename" /\ Becomes(s, To("left"))
    BY <1>7, GoesBecomes DEF MoveFileEx, To
  <2> QED
    BY <1>7, <2>1, <1>r DEF Step, MoveFileEx
<1>8. CASE ClearCancel(s)
  <2> DEFINE r == [saves[s] EXCEPT !.pc = "ended", !.done = 0]
  <2>1. saves[s].pc = "left" /\ Becomes(s, r)
    BY <1>8, EndsBecomes
  <2>2. r.pc = "ended" /\ r.failed = saves[s].failed
    BY <2>1, SaveType DEF Becomes, Saves
  <2>3. bCancel' = FALSE /\ UNCHANGED <<csSave, temp, file>>
    BY <1>8 DEF ClearCancel
  <2> HIDE DEF r
  <2> QED
    BY <2>1, <2>2, <2>3 DEF Step, Becomes
<1> QED
  BY <1>1, <1>2, <1>3, <1>4, <1>5, <1>6, <1>7, <1>8 DEF Save

-----------------------------------------------------------------------------
(* What a step of a save preserves.                                        *)

LEMMA SaveKeepsType ==
  ASSUME TypeOK, CountOK, NEW s \in SaveIds, NEW r \in Saves, Step(s, r)
  PROVE  TypeOK' /\ CountOK'
<1> USE DEF Becomes
<1>1. /\ s \in DOMAIN saves /\ saves' \in Seq(Saves) /\ Len(saves') = Len(saves)
      /\ UNCHANGED <<bound, tree, gui, csFilters, saveTime, pc, filters, torn>>
  BY DEF Step, guiVars, connVars
<1>2. r.copy \in Trees /\ r.done \in 0..NFilters
  BY DEF Saves
<1>3. csSave' \in 0..Len(saves) /\ bCancel' \in BOOLEAN
  <2>1. /\ s \in 0..Len(saves) /\ 0 \in 0..Len(saves)
        /\ csSave \in 0..Len(saves) /\ bCancel \in BOOLEAN
    BY <1>1 DEF TypeOK
  <2>2. csSave' \in {csSave, s, 0} /\ bCancel' \in {bCancel, TRUE, FALSE}
    BY DEF Step
  <2> QED
    BY <2>1, <2>2
<1>4. temp' \in [copy : Trees, n : 0..NFilters, closed : BOOLEAN]
  <2>1. /\ NoFile \in [copy : Trees, n : 0..NFilters, closed : BOOLEAN]
        /\ temp \in [copy : Trees, n : 0..NFilters, closed : BOOLEAN]
    BY StoreConstantsOK DEF NoFile, Trees, TypeOK
  <2>2. [temp EXCEPT !.closed = TRUE] \in [copy : Trees, n : 0..NFilters, closed : BOOLEAN]
    BY <2>1
  <2>3. [copy |-> r.copy, n |-> r.done, closed |-> FALSE]
          \in [copy : Trees, n : 0..NFilters, closed : BOOLEAN]
    BY <1>2
  <2> QED
    BY <2>1, <2>2, <2>3 DEF Step
<1>5. file' \in [copy : Trees, n : -1..NFilters]
  <2>1. /\ temp.copy \in Trees /\ temp.n \in -1..NFilters /\ -1 \in -1..NFilters
        /\ file \in [copy : Trees, n : -1..NFilters]
    BY StoreConstantsOK DEF TypeOK
  <2> QED
    BY <2>1 DEF Step
<1> QED
  BY <1>1, <1>3, <1>4, <1>5 DEF TypeOK, CountOK

LEMMA SaveKeepsHolder ==
  ASSUME TypeOK, SaveInv, NEW s \in SaveIds, NEW r \in Saves, Step(s, r)
  PROVE  SaveInv'
<1>1. /\ s \in DOMAIN saves /\ DOMAIN saves' = DOMAIN saves /\ saves'[s] = r
      /\ \A o \in DOMAIN saves : o # s => saves'[o] = saves[o]
      /\ r.copy = saves[s].copy
  BY DEF Step, Becomes
<1>2. /\ HolderOK /\ TempOK /\ \A o \in DOMAIN saves : o \in Int /\ o # 0
      /\ saves[s].copy \in Trees /\ saves[s].done \in 0..NFilters
  BY <1>1, SaveType, StoreConstantsOK DEF SaveInv, TypeOK
<1>3. HolderOK'
  BY <1>1, <1>2 DEF Step, Moves, HolderOK, Inside
<1>4. TempOK'
  <2>1. ASSUME NEW o \in DOMAIN saves, o # s
        PROVE  /\ saves[o].pc = "write" => temp' = Made(o, FALSE)
               /\ saves[o].pc = "rename" => temp' = Made(o, TRUE)
    <3>1. saves[o].pc \in {"write", "rename"} => csSave = o /\ saves[s].pc \notin Inside
      BY <1>1, <1>2, <2>1 DEF HolderOK, Inside
    <3>2. saves[s].pc \notin Inside => temp' = temp
      BY DEF Step, Moves, Inside
    <3> QED
      BY <1>2, <3>1, <3>2 DEF TempOK
  <2>2. r.pc = "write" => temp' = [copy |-> r.copy, n |-> r.done, closed |-> FALSE]
    BY DEF Step, Moves
  <2>3. r.pc = "rename" => temp' = [copy |-> r.copy, n |-> r.done, closed |-> TRUE]
    <3>1. r.pc = "rename" => /\ saves[s].pc = "write" /\ r.done = saves[s].done
                             /\ temp' = [temp EXCEPT !.closed = TRUE]
      BY DEF Step, Moves
    <3>2. saves[s].pc = "write" => temp = [copy |-> r.copy, n |-> saves[s].done, closed |-> FALSE]
      BY <1>1, <1>2 DEF TempOK, Made
    <3> QED
      BY <3>1, <3>2
  <2> QED
    BY <1>1, <2>1, <2>2, <2>3 DEF TempOK, Made
<1>5. NoStaleCancel'
  <2>1. CASE r.pc = "ended"
    BY <2>1 DEF Step, Moves, NoStaleCancel
  <2>2. CASE r.pc # "ended"
    BY <1>1, <2>2 DEF NoStaleCancel, Alive
  <2> QED
    BY <2>1, <2>2
<1> QED
  BY <1>3, <1>4, <1>5 DEF SaveInv

LEMMA SaveKeepsLone ==
  ASSUME TypeOK, SaveInv, LoneInv, NEW s \in SaveIds, NEW r \in Saves, Step(s, r)
  PROVE  LoneInv'
<1> DEFINE L == Len(saves)
<1>1. /\ s \in DOMAIN saves /\ DOMAIN saves' = DOMAIN saves /\ saves'[s] = r /\ Len(saves') = L
      /\ \A o \in DOMAIN saves : o # s => saves'[o] = saves[o]
      /\ r.copy = saves[s].copy /\ r.alone = saves[s].alone /\ gui' = gui /\ gui # "gone"
  BY DEF Step, Becomes, guiVars
<1>2. /\ HolderOK /\ TempOK /\ L \in Nat /\ DOMAIN saves = 1..L /\ csSave \in 0..L
      /\ bCancel \in BOOLEAN
  BY DEF SaveInv, TypeOK
<1>3. saves[s].pc # "ended" /\ s \in Alive
  BY <1>1 DEF Step, Moves, Alive
<1>4. SUFFICES ASSUME L > 0, saves[L].alone
               PROVE  AloneOK(L)'
  <2>1. L > 0 => saves'[L].alone = saves[L].alone
    BY <1>1, <1>2
  <2> QED
    BY <1>1, <2>1 DEF LoneInv
<1>5. AloneOK(L) /\ L \in DOMAIN saves
  BY <1>2, <1>4 DEF LoneInv
<1>6. s = L /\ ~bCancel
  BY <1>3, <1>5 DEF AloneOK
<1>7. /\ r.pc \in {"collect", "check", "write", "rename", "left", "ended"}
      /\ (r.pc # "ended" => ~bCancel')
      /\ saves[s].pc # "refused" /\ (saves[s].pc = "try" => csSave = 0)
  <2>1. saves[s].pc = "try" => csSave = 0
    <3>1. ASSUME csSave # 0 PROVE csSave \in Alive
      BY <1>2, <3>1 DEF HolderOK, Inside, Alive
    <3>2. csSave = s => saves[s].pc # "try"
      BY <1>1, <1>2 DEF HolderOK, Inside
    <3> QED
      BY <1>5, <1>6, <3>1, <3>2 DEF AloneOK
  <2>2. saves[s].pc # "refused"
    BY <1>5, <1>6 DEF AloneOK
  <2> QED
    BY <1>6, <2>1, <2>2 DEF Step, Moves
<1>8. (Alive \subseteq {L})'
  BY <1>1, <1>5, <1>6 DEF AloneOK, Alive
<1>9. r.pc \in {"check", "write", "rename"} => r.done = NFilters
  BY <1>5, <1>6 DEF Step, Moves, AloneOK
<1>10. r.pc \in {"left", "ended"} => r.failed \/ file' = Whole(r.copy)
  <2>1. CASE saves[s].pc = "check"
    BY <1>6, <2>1 DEF Step, Moves
  <2>2. CASE saves[s].pc = "rename" /\ ~r.failed
    <3>1. temp = [copy |-> r.copy, n |-> NFilters, closed |-> TRUE]
      BY <1>1, <1>2, <1>5, <1>6, <2>2 DEF TempOK, Made, AloneOK
    <3>2. file' = [copy |-> temp.copy, n |-> IF temp.closed THEN temp.n ELSE -1]
      BY <2>2 DEF Step, Moves
    <3> QED
      BY <3>1, <3>2 DEF Whole
  <2>3. CASE saves[s].pc = "left"
    BY <1>1, <1>5, <1>6, <2>3 DEF Step, Moves, AloneOK, Whole
  <2> QED
    BY <2>1, <2>2, <2>3 DEF Step, Moves
<1> QED
  BY <1>1, <1>6, <1>7, <1>8, <1>9, <1>10 DEF AloneOK, Alive, Whole

\* A step of a save touches nothing the connections see.
LEMMA SaveKeepsConn ==
  ASSUME ConnInv, FiltersCurrent, NEW s \in SaveIds, NEW r \in Saves, Step(s, r)
  PROVE  ConnInv' /\ FiltersCurrent'
BY DEF Step, Becomes, guiVars, connVars, ConnInv, FiltersCurrent

LEMMA SaveKeepsInv ==
  ASSUME Inv, NEW s \in SaveIds, Save(s)
  PROVE  Inv'
<1>1. PICK r \in Saves : Step(s, r)
  BY SaveSteps DEF Inv
<1> QED
  BY <1>1, SaveKeepsType, SaveKeepsHolder, SaveKeepsLone, SaveKeepsConn DEF Inv

-----------------------------------------------------------------------------
(* The other steps.                                                        *)

\* An edit changes the tree, and leaves the saves alone.
LEMMA EditKeepsInv ==
  ASSUME Inv, EditLocked \/ OnCheckStateChanged
  PROVE  Inv'
<1>1. /\ gui = "idle" /\ gui' = "save" /\ tree < bound.edits /\ tree' = tree + 1
      /\ UNCHANGED <<bound, saveTime, saves, csSave, bCancel, temp, file, pc, filters>>
  BY DEF EditLocked, OnCheckStateChanged, Changed, saveVars
<1>2. TypeOK'
  <2>1. bound.edits \in 0..MaxEdits /\ tree \in Nat
    BY StoreConstantsOK DEF Inv, TypeOK, Trees
  <2>2. tree' \in Trees
    BY <1>1, <2>1, StoreConstantsOK DEF Trees
  <2>3. torn' \subseteq Managers /\ csFilters' \in Managers \cup {Nobody, "gui"}
    BY DEF Inv, TypeOK, EditLocked, OnCheckStateChanged
  <2> QED
    BY <1>1, <2>2, <2>3 DEF Inv, TypeOK
<1>3. CountOK'
  BY <1>1 DEF Inv, CountOK, TypeOK
<1>4. SaveInv' /\ LoneInv'
  BY <1>1 DEF Inv, SaveInv, HolderOK, TempOK, Made, NoStaleCancel, Alive, LoneInv, AloneOK, Whole
<1>5. ConnInv'
  <2>1. CASE EditLocked
    <3>1. csFilters = Nobody
      BY <2>1 DEF EditLocked
    <3>2. \A m \in Managers : pc[m] # "enum"
      BY <3>1, StoreConstantsOK DEF Inv, ConnInv
    <3> QED
      BY <1>1, <3>2 DEF Inv, ConnInv
  <2>2. CASE OnCheckStateChanged
    <3>1. csFilters' = csFilters /\ \A m \in Managers : pc[m] = "enum" => m \in torn'
      BY <2>2 DEF OnCheckStateChanged
    <3> QED
      BY <1>1, <3>1 DEF Inv, ConnInv
  <2> QED
    BY <2>1, <2>2
<1>6. FiltersCurrent'
  BY <1>1 DEF FiltersCurrent
<1> QED
  BY <1>2, <1>3, <1>4, <1>5, <1>6 DEF Inv

\* What SaveFilter appends: the saves there were, alive as before, and a new one.
LEMMA Appended ==
  ASSUME TypeOK, SaveFilter
  PROVE  LET L == Len(saves) IN
         /\ L \in Nat /\ DOMAIN saves = 1..L
         /\ saves' \in Seq(Saves) /\ Len(saves') = L + 1 /\ DOMAIN saves' = 1..(L + 1)
         /\ \A o \in 1..L : /\ saves'[o].pc = saves[o].pc /\ saves'[o].copy = saves[o].copy
                            /\ saves'[o].done = saves[o].done
         /\ saves'[L + 1].pc = "try" /\ saves'[L + 1].alone = (Alive = {})
<1> DEFINE L == Len(saves)
           f == [s \in DOMAIN saves |-> [saves[s] EXCEPT !.alone = @ /\ s \notin Alive]]
           n == [pc |-> "try", copy |-> tree, done |-> 0, alone |-> Alive = {}, failed |-> FALSE]
<1>1. L \in Nat /\ DOMAIN saves = 1..L /\ saves' = Append(f, n)
  BY DEF TypeOK, SaveFilter
<1>2. n \in Saves /\ n.pc = "try" /\ n.alone = (Alive = {})
  <2>1. tree \in Trees /\ 0 \in 0..NFilters /\ (Alive = {}) \in BOOLEAN
    BY StoreConstantsOK DEF TypeOK
  <2> HIDE DEF Alive
  <2> QED
    BY <2>1 DEF Saves
<1>3. ASSUME NEW o \in 1..L
      PROVE  /\ f[o] \in Saves /\ f[o].pc = saves[o].pc /\ f[o].copy = saves[o].copy
             /\ f[o].done = saves[o].done
  <2>1. f[o] = [saves[o] EXCEPT !.alone = @ /\ o \notin Alive]
    BY <1>1, <1>3
  <2>2. (saves[o].alone /\ o \notin Alive) \in BOOLEAN /\ saves[o] \in Saves
    BY <1>1, <1>3, SaveType
  <2> HIDE DEF f
  <2> QED
    BY <2>1, <2>2 DEF Saves
<1>4. f = [o \in 1..L |-> f[o]]
  BY <1>1
<1> HIDE DEF f, n
<1>5. f \in Seq(Saves) /\ Len(f) = L
  <2>1. f \in [1..L -> Saves]
    BY <1>3, <1>4
  <2> QED
    BY <1>1, <2>1
<1>6. /\ saves' \in Seq(Saves) /\ Len(saves') = L + 1 /\ DOMAIN saves' = 1..(L + 1)
      /\ saves'[L + 1] = n /\ \A o \in 1..L : saves'[o] = f[o]
  BY <1>1, <1>2, <1>5
<1> QED
  BY <1>1, <1>2, <1>3, <1>6

LEMMA SaveFilterKeepsInv ==
  ASSUME Inv, SaveFilter
  PROVE  Inv'
<1> DEFINE L == Len(saves)
<1>1. /\ L \in Nat /\ DOMAIN saves = 1..L
      /\ saves' \in Seq(Saves) /\ Len(saves') = L + 1 /\ DOMAIN saves' = 1..(L + 1)
      /\ \A o \in 1..L : /\ saves'[o].pc = saves[o].pc /\ saves'[o].copy = saves[o].copy
                         /\ saves'[o].done = saves[o].done
      /\ saves'[L + 1].pc = "try" /\ saves'[L + 1].alone = (Alive = {})
  BY Appended DEF Inv
<1>2. /\ gui = "save" /\ gui' = "idle" /\ saveTime' = saveTime + 1
      /\ csFilters' = IF csFilters = "gui" THEN Nobody ELSE csFilters
      /\ UNCHANGED <<tree, bound, csSave, bCancel, temp, file, pc, filters, torn>>
  BY DEF SaveFilter, connVars
<1>3. Alive' = Alive \cup {L + 1} /\ Alive \subseteq 1..L
  BY <1>1 DEF Alive
<1>4. TypeOK' /\ CountOK'
  <2>1. saveTime' = L + 1 /\ tree' = L + 1
    BY <1>1, <1>2 DEF Inv, CountOK
  <2>2. L + 1 \in 0..MaxEdits
    BY <2>1, <1>2 DEF Inv, TypeOK, Trees
  <2>3. csSave' \in 0..(L + 1) /\ csFilters' \in Managers \cup {Nobody, "gui"}
    BY <1>1, <1>2 DEF Inv, TypeOK
  <2> QED
    BY <1>1, <1>2, <2>1, <2>2, <2>3 DEF Inv, TypeOK, CountOK
<1>5. SaveInv'
  <2>1. csSave # L + 1
    BY <1>1 DEF Inv, TypeOK
  <2>2. HolderOK'
    BY <1>1, <1>2, <2>1 DEF Inv, SaveInv, HolderOK, Inside
  <2>3. TempOK'
    BY <1>1, <1>2 DEF Inv, SaveInv, TempOK, Made
  <2> QED
    BY <1>3, <2>2, <2>3 DEF SaveInv, NoStaleCancel
<1>6. LoneInv'
  <2>1. L + 1 \in Alive' /\ gui' # "gone"
    BY <1>2, <1>3
  <2>2. Alive = {} => Alive' = {L + 1} /\ ~bCancel'
    BY <1>2, <1>3 DEF Inv, SaveInv, NoStaleCancel
  <2> QED
    BY <1>1, <2>1, <2>2 DEF LoneInv, AloneOK
<1>7. ConnInv'
  <2>1. \A m \in Managers : m # "gui"
    BY StoreConstantsOK
  <2>2. ASSUME NEW m \in Managers
        PROVE  filters[m].time <= saveTime'
    <3>1. filters[m].time \in 0..MaxEdits /\ saveTime \in 0..MaxEdits
      BY DEF Inv, TypeOK
    <3> QED
      BY <1>2, <3>1 DEF Inv, ConnInv
  <2> QED
    BY <1>2, <2>1, <2>2 DEF Inv, ConnInv
<1>8. FiltersCurrent'
  <2>1. ASSUME NEW m \in Managers
        PROVE  filters[m].time # saveTime'
    <3>1. filters[m].time \in 0..MaxEdits /\ saveTime \in 0..MaxEdits
      BY DEF Inv, TypeOK
    <3> QED
      BY <1>2, <3>1 DEF Inv, ConnInv
  <2> QED
    BY <1>2, <2>1 DEF FiltersCurrent
<1> QED
  BY <1>4, <1>5, <1>6, <1>7, <1>8 DEF Inv

LEMMA ClosingKeepsInv ==
  ASSUME Inv, OnDestroy \/ Exit
  PROVE  Inv'
<1>1. /\ UNCHANGED <<tree, bound, csFilters, saveTime, saves, csSave, bCancel, temp, file, pc, filters, torn>>
      /\ gui # "save" /\ gui' \in {"closing", "gone"} /\ (gui' = "gone" => Len(saves) \notin Alive)
  BY DEF OnDestroy, Exit, saveVars, connVars
<1>2. TypeOK' /\ CountOK'
  BY <1>1 DEF Inv, TypeOK, CountOK
<1>3. SaveInv' /\ LoneInv'
  BY <1>1 DEF Inv, SaveInv, HolderOK, TempOK, Made, NoStaleCancel, Alive, LoneInv, AloneOK, Whole
<1>4. ConnInv' /\ FiltersCurrent'
  BY <1>1 DEF Inv, ConnInv, FiltersCurrent
<1> QED
  BY <1>2, <1>3, <1>4 DEF Inv

\* The steps of a connection leave the tree and the saves alone.
LEMMA ConnectionKeepsSaves ==
  ASSUME Inv, NEW m \in Managers, Connection(m)
  PROVE  CountOK' /\ SaveInv' /\ LoneInv'
<1>1. UNCHANGED <<bound, tree, gui, saveTime, saves, csSave, bCancel, temp, file>>
  BY DEF Connection, ReloadFilters, EnumActiveFilter, guiVars, saveVars
<1> QED
  BY <1>1 DEF Inv, CountOK, SaveInv, HolderOK, TempOK, Made, NoStaleCancel, Alive, LoneInv, AloneOK, Whole

LEMMA ReloadKeepsInv ==
  ASSUME Inv, NEW m \in Managers, ReloadFilters(m)
  PROVE  TypeOK' /\ ConnInv' /\ FiltersCurrent'
<1>1. /\ UNCHANGED <<bound, tree, gui, saveTime, saves, csSave, bCancel, temp, file>>
      /\ csFilters = Nobody /\ csFilters' = m /\ pc' = [pc EXCEPT ![m] = "enum"]
      /\ filters' = [filters EXCEPT ![m].seen = <<>>] /\ torn' = torn \ {m}
  BY DEF ReloadFilters, guiVars, saveVars
<1>2. /\ filters \in [Managers -> [seen : Seq(Trees), time : 0..MaxEdits]]
      /\ pc \in [Managers -> {"idle", "enum"}]
  BY DEF Inv, TypeOK
<1>3. \A o \in Managers : pc[o] # "enum"
  BY <1>1, StoreConstantsOK DEF Inv, ConnInv
<1>4. /\ filters'[m].seen = <<>> /\ filters'[m].time = filters[m].time /\ pc'[m] = "enum"
      /\ \A o \in Managers : o # m => filters'[o] = filters[o] /\ pc'[o] = pc[o]
  BY <1>1, <1>2
<1>5. TypeOK'
  <2>1. filters' \in [Managers -> [seen : Seq(Trees), time : 0..MaxEdits]]
    <3> DEFINE e == [filters[m] EXCEPT !.seen = <<>>]
    <3>1. e \in [seen : Seq(Trees), time : 0..MaxEdits]
      <4>1. filters[m] \in [seen : Seq(Trees), time : 0..MaxEdits] /\ <<>> \in Seq(Trees)
        BY <1>2
      <4> QED
        BY <4>1
    <3>2. filters' = [filters EXCEPT ![m] = e]
      BY <1>1
    <3> HIDE DEF e
    <3> QED
      BY <1>2, <3>1, <3>2
  <2>2. pc' \in [Managers -> {"idle", "enum"}] /\ torn' \subseteq Managers
        /\ csFilters' \in Managers \cup {Nobody, "gui"}
    BY <1>1, <1>2 DEF Inv, TypeOK
  <2> QED
    BY <1>1, <2>1, <2>2 DEF Inv, TypeOK
<1>6. ConnInv'
  <2>1. Len(filters'[m].seen) = 0
    BY <1>4
  <2> QED
    BY <1>1, <1>3, <1>4, <2>1, StoreConstantsOK DEF Inv, ConnInv
<1>7. FiltersCurrent'
  BY <1>1, <1>4 DEF Inv, FiltersCurrent
<1> QED
  BY <1>5, <1>6, <1>7

LEMMA EnumKeepsInv ==
  ASSUME Inv, NEW m \in Managers, EnumActiveFilter(m)
  PROVE  TypeOK' /\ ConnInv' /\ FiltersCurrent'
<1> DEFINE seen == filters[m].seen
<1>1. /\ UNCHANGED <<bound, tree, gui, saveTime, saves, csSave, bCancel, temp, file, torn>>
      /\ pc[m] = "enum" /\ csFilters = m
  BY DEF EnumActiveFilter, guiVars, saveVars, Inv, ConnInv
<1>2. /\ filters \in [Managers -> [seen : Seq(Trees), time : 0..MaxEdits]]
      /\ pc \in [Managers -> {"idle", "enum"}] /\ tree \in Trees /\ saveTime \in 0..MaxEdits
  BY DEF Inv, TypeOK
<1>3. /\ seen \in Seq(Trees) /\ Len(seen) \in Nat /\ Len(seen) <= NFilters
      /\ filters[m].time <= saveTime /\ NFilters \in Nat
      /\ m \notin torn => \A i \in 1..Len(seen) : seen[i] = tree
  BY <1>1, <1>2, StoreConstantsOK DEF Inv, ConnInv
<1>4. \A o \in Managers : o # m => pc[o] = "idle"
  BY <1>1, <1>2 DEF Inv, ConnInv
<1>5. CASE Len(seen) < NFilters
  <2> DEFINE now == Append(seen, tree)
  <2>1. /\ filters' = [filters EXCEPT ![m] = [filters[m] EXCEPT !.seen = now]]
        /\ UNCHANGED <<pc, csFilters>>
    BY <1>5 DEF EnumActiveFilter
  <2>2. /\ now \in Seq(Trees) /\ Len(now) = Len(seen) + 1
        /\ \A i \in 1..Len(seen) : now[i] = seen[i]
        /\ now[Len(seen) + 1] = tree
    BY <1>2, <1>3
  <2> HIDE DEF now
  <2>3. /\ [filters[m] EXCEPT !.seen = now] \in [seen : Seq(Trees), time : 0..MaxEdits]
        /\ filters'[m].seen = now /\ filters'[m].time = filters[m].time
        /\ \A o \in Managers : o # m => filters'[o] = filters[o]
    BY <1>2, <2>1, <2>2
  <2>4. TypeOK'
    BY <1>1, <1>2, <2>1, <2>3 DEF Inv, TypeOK
  <2>5. ASSUME m \notin torn, NEW i \in 1..Len(now)
        PROVE  now[i] = tree
    <3>1. CASE i \in 1..Len(seen)
      <4>1. now[i] = seen[i] /\ seen[i] = tree
        BY <1>3, <2>2, <2>5, <3>1
      <4> QED
        BY <4>1
    <3>2. CASE i \notin 1..Len(seen)
      <4>1. Len(now) = Len(seen) + 1 /\ Len(seen) \in Nat
        BY <1>3, <2>2
      <4>2. i = Len(seen) + 1
        BY <2>5, <3>2, <4>1
      <4> QED
        BY <2>2, <4>2
    <3> QED
      BY <3>1, <3>2
  <2>6. Len(now) <= NFilters
    BY <1>3, <1>5, <2>2
  <2>7. ConnInv'
    BY <1>1, <1>3, <1>4, <2>1, <2>3, <2>5, <2>6 DEF Inv, ConnInv
  <2>8. FiltersCurrent'
    BY <1>1, <2>1, <2>3 DEF Inv, FiltersCurrent
  <2> QED
    BY <2>4, <2>7, <2>8
<1>6. CASE ~(Len(seen) < NFilters)
  <2>1. /\ filters' = [filters EXCEPT ![m] = [filters[m] EXCEPT !.time = saveTime]]
        /\ pc' = [pc EXCEPT ![m] = "idle"] /\ csFilters' = Nobody
    BY <1>6 DEF EnumActiveFilter
  <2>2. /\ [filters[m] EXCEPT !.time = saveTime] \in [seen : Seq(Trees), time : 0..MaxEdits]
        /\ filters'[m].seen = seen /\ filters'[m].time = saveTime /\ pc'[m] = "idle"
        /\ \A o \in Managers : o # m => filters'[o] = filters[o] /\ pc'[o] = pc[o]
    BY <1>2, <2>1
  <2>3. TypeOK'
    BY <1>1, <1>2, <2>1, <2>2 DEF Inv, TypeOK
  <2>4. m \notin torn => seen = [i \in 1..NFilters |-> tree]
    <3> SUFFICES ASSUME m \notin torn PROVE seen = [i \in 1..NFilters |-> tree]
      OBVIOUS
    <3>1. Len(seen) = NFilters
      BY <1>3, <1>6
    <3>2. seen = [i \in 1..NFilters |-> seen[i]]
      BY <1>3, <3>1
    <3>3. \A i \in 1..NFilters : seen[i] = tree
      BY <1>3, <3>1
    <3> HIDE DEF seen
    <3> QED
      BY <3>2, <3>3
  <2>5. ConnInv'
    BY <1>1, <1>2, <1>4, <2>2 DEF Inv, ConnInv
  <2>6. FiltersCurrent'
    BY <1>1, <2>2, <2>4 DEF Inv, FiltersCurrent
  <2> QED
    BY <2>3, <2>5, <2>6
<1> QED
  BY <1>5, <1>6

-----------------------------------------------------------------------------
LEMMA InitInv == Init => Inv
<1> SUFFICES ASSUME Init PROVE Inv
  OBVIOUS
<1>1. saves = <<>> /\ Len(saves) = 0 /\ DOMAIN saves = {} /\ Alive = {}
  BY DEF Init, Alive
<1>2. [i \in 1..NFilters |-> 0] \in Seq(Trees) /\ 0 \in Trees /\ 0 \in 0..NFilters
      /\ NFilters \in -1..NFilters /\ 0 \in 0..MaxEdits
  BY StoreConstantsOK DEF Trees
<1> DEFINE e == [seen |-> [i \in 1..NFilters |-> 0], time |-> 0]
<1>6. /\ filters = [m \in Managers |-> e] /\ pc = [m \in Managers |-> "idle"]
      /\ e.seen = [i \in 1..NFilters |-> 0] /\ e.time = 0 /\ e = [seen |-> e.seen, time |-> e.time]
      /\ saveTime = 0 /\ tree = 0
  BY DEF Init
<1> HIDE DEF e
<1>3. TypeOK
  <2>1. temp \in [copy : Trees, n : 0..NFilters, closed : BOOLEAN]
        /\ file \in [copy : Trees, n : -1..NFilters]
    BY <1>2 DEF Init, NoFile, Whole
  <2>2. filters \in [Managers -> [seen : Seq(Trees), time : 0..MaxEdits]]
    BY <1>2, <1>6
  <2>3. saves \in Seq(Saves) /\ csSave \in 0..Len(saves) /\ bCancel \in BOOLEAN
    <3>1. <<>> \in Seq(Saves) /\ 0 \in 0..0
      OBVIOUS
    <3> QED
      BY <1>1, <3>1 DEF Init
  <2>4. /\ bound \in Bounds /\ tree \in Trees /\ saveTime \in 0..MaxEdits
        /\ gui \in {"idle", "save", "closing", "gone"}
        /\ csFilters \in Managers \cup {Nobody, "gui"}
    BY <1>2, <1>6 DEF Init
  <2>5. pc \in [Managers -> {"idle", "enum"}] /\ torn \subseteq Managers
    BY <1>6 DEF Init
  <2> QED
    BY <2>1, <2>2, <2>3, <2>4, <2>5 DEF TypeOK
<1>4. CountOK /\ SaveInv /\ LoneInv
  BY <1>1 DEF Init, CountOK, SaveInv, HolderOK, TempOK, NoStaleCancel, LoneInv
<1>5. ConnInv /\ FiltersCurrent
  BY <1>6 DEF ConnInv, FiltersCurrent
<1> QED
  BY <1>3, <1>4, <1>5 DEF Inv

LEMMA NextKeepsInv == Inv /\ [Next]_vars => Inv'
<1> SUFFICES ASSUME Inv, [Next]_vars PROVE Inv'
  OBVIOUS
<1>1. CASE Gui
  BY <1>1, EditKeepsInv, SaveFilterKeepsInv, ClosingKeepsInv DEF Gui
<1>2. ASSUME NEW s \in SaveIds, Save(s) PROVE Inv'
  BY <1>2, SaveKeepsInv
<1>3. ASSUME NEW m \in Managers, Connection(m) PROVE Inv'
  <2>1. TypeOK' /\ ConnInv' /\ FiltersCurrent'
    BY <1>3, ReloadKeepsInv, EnumKeepsInv DEF Connection
  <2> QED
    BY <1>3, <2>1, ConnectionKeepsSaves DEF Inv
<1>4. CASE UNCHANGED vars
  <2>1. UNCHANGED <<bound, tree, gui, csFilters, saveTime, saves, csSave, bCancel, temp, file,
                    pc, filters, torn>>
    BY <1>4 DEF vars, guiVars, saveVars, connVars
  <2>2. TypeOK' /\ CountOK'
    BY <2>1 DEF Inv, TypeOK, CountOK
  <2>3. SaveInv' /\ LoneInv'
    BY <2>1 DEF Inv, SaveInv, HolderOK, TempOK, Made, NoStaleCancel, Alive, LoneInv, AloneOK, Whole
  <2>4. ConnInv' /\ FiltersCurrent'
    BY <2>1 DEF Inv, ConnInv, FiltersCurrent
  <2> QED
    BY <2>2, <2>3, <2>4 DEF Inv
<1> QED
  BY <1>1, <1>2, <1>3, <1>4 DEF Next

\* The inductive invariant: the mutual exclusion of the saves, what each has
\* made of the temporary file, and what the connections have read.
THEOREM Invariant == Spec => []Inv
BY InitInv, NextKeepsInv, PTL DEF Spec

\* Every variable has the values its comment says, with any number of filters,
\* edits and connections.
THEOREM TypeCorrect == Spec => []TypeOK
BY Invariant, PTL DEF Inv

\* s_bCancel is never set when no save is left to see it.
THEOREM NoStaleCancelHolds == Spec => []NoStaleCancel
<1>1. Inv => NoStaleCancel
  BY DEF Inv, SaveInv
<1> QED
  BY <1>1, Invariant, PTL

\* A save that came across no other is what filter.xml holds when it has ended,
\* or when the program has: the newest save is joined (OnDestroy).
THEOREM LoneSaveWrittenHolds == Spec => []LoneSaveWritten
<1>1. Inv => LoneSaveWritten
  <2> SUFFICES ASSUME Inv, Len(saves) > 0, saves[Len(saves)].alone,
                      Len(saves) \notin Alive \/ gui = "gone"
               PROVE  saves[Len(saves)].failed \/ file = Whole(saves[Len(saves)].copy)
    BY DEF LoneSaveWritten
  <2>1. Len(saves) \in DOMAIN saves
    BY DEF Inv, TypeOK
  <2>2. Len(saves) \notin Alive
    BY DEF Inv, LoneInv
  <2> QED
    BY <2>1, <2>2 DEF Inv, LoneInv, AloneOK, Alive
<1> QED
  BY <1>1, Invariant, PTL

\* A connection that sees no newer s_lastFiltersSaveTime has the filters of the
\* tree, edits in hand and clicks during its enumeration apart.
THEOREM FiltersCurrentHolds == Spec => []FiltersCurrent
BY Invariant, PTL DEF Inv

\* filter.xml is replaced only by what the thread that replaces it has written.
THEOREM OwnFileRenamedHolds == Spec => OwnFileRenamed
<1> DEFINE Own == \E s \in DOMAIN saves :
                    /\ saves[s].pc = "rename" /\ saves'[s].pc = "left"
                    /\ file' = [copy |-> saves[s].copy, n |-> saves[s].done]
<1>1. Inv /\ [Next]_vars => [file' # file => Own]_vars
  <2> SUFFICES ASSUME Inv, Next, file' # file PROVE Own
    OBVIOUS
  <2>1. PICK s \in SaveIds : Save(s)
    BY DEF Next, Gui, Connection, EditLocked, OnCheckStateChanged, Changed, SaveFilter, OnDestroy,
           Exit, ReloadFilters, EnumActiveFilter, saveVars
  <2>2. PICK r \in Saves : Step(s, r)
    BY <2>1, SaveSteps DEF Inv
  <2>3. /\ s \in DOMAIN saves /\ saves[s].pc = "rename" /\ saves'[s].pc = "left"
        /\ file' = [copy |-> temp.copy, n |-> IF temp.closed THEN temp.n ELSE -1]
    BY <2>2 DEF Step, Moves, Becomes
  <2>4. temp = Made(s, TRUE)
    BY <2>3 DEF Inv, SaveInv, TempOK
  <2> QED
    BY <2>3, <2>4 DEF Made
<1> QED
  BY <1>1, Invariant, PTL DEF Spec, OwnFileRenamed
=============================================================================
