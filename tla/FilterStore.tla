----------------------------- MODULE FilterStore -----------------------------
(***************************************************************************)
(* The filters of CSettings: the tree s_vecpFilters that the GUI edits, the *)
(* detached threads that write it to filter.xml, and the copies the        *)
(* connections work with.                                                  *)
(*                                                                         *)
(* Every edit ends with SaveFilter(): a copy of the tree goes to a new     *)
(* thread, and s_lastFiltersSaveTime tells the connections to enumerate    *)
(* the filters again (_ReloadHeaderFilters, _ReloadFilters).  A save that  *)
(* finds another under way sets s_bCancel and tries again later.           *)
(*                                                                         *)
(* A state of the tree is the number of the edit that made it.  Of a file  *)
(* the model says which state it was written from, and how many filters of *)
(* it; of an enumeration, which state each filter was read from.           *)
(***************************************************************************)
EXTENDS Integers, Sequences

CONSTANTS
  Managers,    \* connections that filter
  NFilters,    \* filters in the tree
  MaxEdits,    \* bound: edits, and so saves
  Bounds,      \* bounds of a behaviour: [managers, edits]
  DiskFails,   \* TRUE: filter.temp.xml may fail to open, to be written or to replace filter.xml
  Nobody

ASSUME StoreConstantsOK ==
  /\ NFilters \in Nat \ {0} /\ MaxEdits \in Nat
  /\ DiskFails \in BOOLEAN /\ Nobody \notin Managers /\ "gui" \notin Managers
  /\ Bounds \subseteq [managers : SUBSET Managers, edits : 0..MaxEdits]

Trees == 0..MaxEdits
SaveIds == 1..MaxEdits
Saves == [pc : {"try", "refused", "collect", "check", "write", "rename", "left", "ended"},
          copy : Trees, done : 0..NFilters, alone : BOOLEAN, failed : BOOLEAN]

VARIABLES
  bound,      \* the bounds of this behaviour
  tree,       \* s_vecpFilters: edits made so far
  gui,        \* where the GUI thread is: "idle", "save", "closing" or "gone"
  csFilters,  \* who holds s_csFilters: Nobody, "gui" or a connection
  saveTime,   \* s_lastFiltersSaveTime
  saves,      \* the threads SaveFilter started, oldest first
  csSave,     \* the save that holds s_cs, or 0
  bCancel,    \* s_bCancel
  temp,       \* filter.temp.xml: [copy, n, closed]
  file,       \* filter.xml: [copy, n]
  pc,         \* where each connection is: "idle" or "enum"
  filters,    \* what each connection enumerated: [seen, time]
  torn        \* connections whose filters changed as they read them (history)

guiVars  == <<tree, gui, bound>>
saveVars == <<saves, csSave, bCancel, temp, file>>
connVars == <<pc, filters, torn>>
vars == <<guiVars, csFilters, saveTime, saveVars, connVars>>

NoFile == [copy |-> 0, n |-> 0, closed |-> TRUE]
Whole(copy) == [copy |-> copy, n |-> NFilters]
Alive == {s \in DOMAIN saves : saves[s].pc # "ended"}

Init ==
  /\ bound \in Bounds
  /\ tree = 0 /\ gui = "idle"
  /\ csFilters = Nobody /\ saveTime = 0
  /\ saves = <<>> /\ csSave = 0 /\ bCancel = FALSE
  /\ temp = NoFile
  /\ file = Whole(0)
  /\ pc = [m \in Managers |-> "idle"]
  /\ filters = [m \in Managers |-> [seen |-> [i \in 1..NFilters |-> 0], time |-> 0]]
  /\ torn = {}

-----------------------------------------------------------------------------
(* The GUI thread.                                                         *)

Changed ==
  /\ gui = "idle" /\ tree < bound.edits
  /\ tree' = tree + 1
  /\ gui' = "save"
  /\ UNCHANGED <<bound, saveTime, saveVars, pc, filters>>

\* The edit window's OK and insertions lock the tree for the change; deleting
\* and dropping keep it locked until SaveFilter has returned.
EditLocked ==
  /\ csFilters = Nobody
  /\ Changed
  /\ csFilters' \in {Nobody, "gui"}
  /\ UNCHANGED torn

\* A click on a check box (or a new label) does not lock it.
OnCheckStateChanged ==
  /\ Changed
  /\ torn' = torn \cup {m \in Managers : pc[m] = "enum"}
  /\ UNCHANGED csFilters

\* The copy, the time, the thread.  (The thread of the save before is detached.)
SaveFilterUntimed ==    \* mutant: s_lastFiltersSaveTime is not set
  /\ gui = "save"
  /\ saves' = Append([s \in DOMAIN saves |-> [saves[s] EXCEPT !.alone = @ /\ s \notin Alive]],
                     [pc |-> "try", copy |-> tree, done |-> 0, alone |-> Alive = {},
                      failed |-> FALSE])
  /\ gui' = "idle"
  /\ csFilters' = IF csFilters = "gui" THEN Nobody ELSE csFilters
  /\ UNCHANGED <<tree, bound, saveTime, csSave, bCancel, temp, file, connVars>>
SaveFilter ==
  /\ gui = "save"
  /\ saves' = Append([s \in DOMAIN saves |-> [saves[s] EXCEPT !.alone = @ /\ s \notin Alive]],
                     [pc |-> "try", copy |-> tree, done |-> 0, alone |-> Alive = {},
                      failed |-> FALSE])
  /\ saveTime' = saveTime + 1
  /\ gui' = "idle"
  /\ csFilters' = IF csFilters = "gui" THEN Nobody ELSE csFilters
  /\ UNCHANGED <<tree, bound, csSave, bCancel, temp, file, connVars>>

\* The filter window is destroyed at the end; it waits for the newest save only.
OnDestroy ==
  /\ gui = "idle" /\ gui' = "closing"
  /\ UNCHANGED <<tree, bound, csFilters, saveTime, saveVars, connVars>>

ExitAtOnce ==           \* mutant: s_threadSaveFilter is not joined
  /\ gui = "closing" /\ gui' = "gone"
  /\ UNCHANGED <<tree, bound, csFilters, saveTime, saveVars, connVars>>
Exit ==
  /\ gui = "closing"
  /\ Len(saves) \notin Alive
  /\ gui' = "gone"
  /\ UNCHANGED <<tree, bound, csFilters, saveTime, saveVars, connVars>>

-----------------------------------------------------------------------------
(* One save: the lambda that SaveFilter runs on a thread.                  *)

Goes(s, from, to) ==
  /\ gui # "gone" /\ s \in DOMAIN saves /\ saves[s].pc = from
  /\ saves' = [saves EXCEPT ![s].pc = to]

TryEnterAlways(s) ==    \* mutant: s_cs is entered although it is held
  /\ Goes(s, "try", "collect") /\ csSave' = s
  /\ UNCHANGED <<guiVars, csFilters, saveTime, bCancel, temp, file, connVars>>
TryEnter(s) ==
  /\ IF csSave = 0
     THEN Goes(s, "try", "collect") /\ csSave' = s
     ELSE Goes(s, "try", "refused") /\ UNCHANGED csSave
  /\ UNCHANGED <<guiVars, csFilters, saveTime, bCancel, temp, file, connVars>>

\* "Another thread is carrying out a save": tell it to give up, and sleep.
Refused(s) ==
  /\ Goes(s, "refused", "try")
  /\ bCancel' = TRUE
  /\ UNCHANGED <<guiVars, csFilters, saveTime, csSave, temp, file, connVars>>

\* SaveFilterItem looks at the flag before each filter, and leaves out the rest.
SaveFilterItem(s) ==
  /\ gui # "gone" /\ s \in DOMAIN saves /\ saves[s].pc = "collect"
  /\ saves' = IF bCancel \/ saves[s].done = NFilters
              THEN [saves EXCEPT ![s].pc = "check"]
              ELSE [saves EXCEPT ![s].done = @ + 1]
  /\ UNCHANGED <<guiVars, csFilters, saveTime, csSave, bCancel, temp, file, connVars>>

\* Then the flag is looked at once more.
CheckCancel(s) ==
  /\ IF bCancel
     THEN Goes(s, "check", "left") /\ csSave' = 0 /\ UNCHANGED temp
     ELSE /\ Goes(s, "check", "write")
          /\ temp' = [copy |-> saves[s].copy, n |-> saves[s].done, closed |-> FALSE]
          /\ UNCHANGED csSave
  /\ UNCHANGED <<guiVars, csFilters, saveTime, bCancel, file, connVars>>

WriteXml(s) ==
  /\ Goes(s, "write", "rename")
  /\ temp' = [temp EXCEPT !.closed = TRUE]
  /\ UNCHANGED <<guiVars, csFilters, saveTime, csSave, bCancel, file, connVars>>

\* Neither opened nor written, or not moved: filter.xml stays as it is.
DiskFailsAt(s, p) ==
  /\ DiskFails /\ gui # "gone" /\ s \in DOMAIN saves /\ saves[s].pc = p
  /\ saves' = [saves EXCEPT ![s].pc = "left", ![s].failed = TRUE]
  /\ UNCHANGED <<guiVars, csFilters, saveTime, bCancel, temp, file, connVars>>
WriteFailsHolding(s) == \* mutant: that return does not leave s_cs
  DiskFailsAt(s, "write") /\ UNCHANGED csSave
WriteFails(s) == DiskFailsAt(s, "write") /\ csSave' = 0

\* Nobody looks whether filter.xml has been replaced.
MoveFails(s) == DiskFailsAt(s, "rename") /\ csSave' = 0

MoveFileEx(s) ==
  /\ Goes(s, "rename", "left")
  /\ file' = [copy |-> temp.copy, n |-> IF temp.closed THEN temp.n ELSE -1]
  /\ temp' = NoFile
  /\ csSave' = 0
  /\ UNCHANGED <<guiVars, csFilters, saveTime, bCancel, connVars>>

\* After s_cs has been left; the copy is deleted.
Ends(s) ==
  /\ gui # "gone" /\ s \in DOMAIN saves /\ saves[s].pc = "left"
  /\ saves' = [saves EXCEPT ![s].pc = "ended", ![s].done = 0]
ClearCancelKeeps(s) ==     \* mutant: the flag is not reset
  /\ Ends(s)
  /\ UNCHANGED <<guiVars, csFilters, saveTime, csSave, bCancel, temp, file, connVars>>
ClearCancel(s) ==
  /\ Ends(s)
  /\ bCancel' = FALSE
  /\ UNCHANGED <<guiVars, csFilters, saveTime, csSave, temp, file, connVars>>

-----------------------------------------------------------------------------
(* A connection, at the start of an exchange or of a body.                 *)

ReloadFilters(m) ==
  /\ gui # "gone" /\ pc[m] = "idle" /\ m \in bound.managers
  /\ filters[m].time # saveTime
  /\ csFilters = Nobody /\ csFilters' = m
  /\ pc' = [pc EXCEPT ![m] = "enum"]
  /\ filters' = [filters EXCEPT ![m].seen = <<>>]
  /\ torn' = torn \ {m}
  /\ UNCHANGED <<guiVars, saveTime, saveVars>>

\* EnumActiveFilter: one filter after the other, then the time.
EnumActiveFilter(m) ==
  /\ gui # "gone" /\ pc[m] = "enum"
  /\ LET seen == filters[m].seen IN
     IF Len(seen) < NFilters
     THEN /\ filters' = [filters EXCEPT ![m].seen = Append(seen, tree)]
          /\ UNCHANGED <<pc, csFilters>>
     ELSE /\ filters' = [filters EXCEPT ![m].time = saveTime]
          /\ pc' = [pc EXCEPT ![m] = "idle"] /\ csFilters' = Nobody
  /\ UNCHANGED <<guiVars, saveTime, saveVars, torn>>

-----------------------------------------------------------------------------
Gui == \/ EditLocked \/ OnCheckStateChanged
       \/ SaveFilter \/ OnDestroy \/ Exit
Save(s) == \/ TryEnter(s) \/ Refused(s) \/ SaveFilterItem(s) \/ CheckCancel(s)
           \/ WriteXml(s) \/ WriteFails(s) \/ MoveFileEx(s) \/ MoveFails(s)
           \/ ClearCancel(s)
Connection(m) == ReloadFilters(m) \/ EnumActiveFilter(m)

Next == \/ Gui
        \/ \E s \in SaveIds : Save(s)
        \/ \E m \in Managers : Connection(m)
\* Every thread gets its turn as long as the process lives.
Fairness == \A s \in SaveIds : WF_vars(Save(s))
Spec == Init /\ [][Next]_vars /\ Fairness

-----------------------------------------------------------------------------
\* Every variable has the values its comment says.
TypeOK ==
  /\ bound \in Bounds
  /\ tree \in Trees /\ gui \in {"idle", "save", "closing", "gone"}
  /\ csFilters \in Managers \cup {Nobody, "gui"} /\ saveTime \in 0..MaxEdits
  /\ saves \in Seq(Saves) /\ csSave \in 0..Len(saves) /\ bCancel \in BOOLEAN
  /\ temp \in [copy : Trees, n : 0..NFilters, closed : BOOLEAN]
  /\ file \in [copy : Trees, n : -1..NFilters]
  /\ pc \in [Managers -> {"idle", "enum"}]
  /\ filters \in [Managers -> [seen : Seq(Trees), time : 0..MaxEdits]]
  /\ torn \subseteq Managers

\* A request to give up is never left behind for a save that begins later, when
\* nobody is there who made it (s_bCancel and the threads that set and reset it).
NoStaleCancel == bCancel => Alive # {}

\* A save that no other save came across is what the file holds, unless the
\* disk failed; at the end of the program too, which waits for it.
LoneSaveWritten ==
  LET last == Len(saves)
  IN (last > 0 /\ (last \notin Alive \/ gui = "gone") /\ saves[last].alone)
       => (saves[last].failed \/ file = Whole(saves[last].copy))

\* filter.xml is only ever replaced by a file that is closed and holds what the
\* thread that renames it has put there: another save never gets in between.
OwnFileRenamed ==
  [][file' # file =>
       \E s \in DOMAIN saves :
         /\ saves[s].pc = "rename" /\ saves'[s].pc = "left"
         /\ file' = [copy |-> saves[s].copy, n |-> saves[s].done]]_vars

\* A connection that has no reason to enumerate again works with the filters of
\* the tree, but for edits not yet saved, and clicks during its enumeration.
FiltersCurrent ==
  \A m \in Managers :
    (pc[m] = "idle" /\ filters[m].time = saveTime /\ gui # "save" /\ m \notin torn)
      => filters[m].seen = [i \in 1..NFilters |-> tree]

\* Every save comes to an end, cancelled or not, however often it is refused and
\* whatever return the one before it took (SaveFilter leaves s_cs on each).
SavesEnd == \A s \in SaveIds :
  s \in DOMAIN saves ~> (s \notin Alive \/ gui = "gone")

\* filter.xml always holds all the filters of the tree it was written from ("all
\* the filters owned", s_vecpFilters): a save that is told to give up leaves no
\* file behind (s_bCancel and its second look in SaveFilter).
FileWhole == file.n = NFilters
=============================================================================
