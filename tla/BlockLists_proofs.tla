-------------------------- MODULE BlockLists_proofs --------------------------
(***************************************************************************)
(* For any number of lists, matchers, edits and added lines.               *)
(***************************************************************************)
EXTENDS BlockLists, SequenceTheorems, TLAPS

\* Who is between LockWatcher and WriteAndWatch owns g_csListChangeWatcher, and
\* nobody but the owner of it takes the watcher out of "off".
WriterInv ==
  \A i \in DOMAIN adds :
    /\ adds[i].pc \in {"locked", "write"} => csWatcher = i
    /\ adds[i].pc = "write" => watch = "off"

\* Lines are numbered up to lineCount; the next one is new.
LinesInv ==
  \A l \in Lists \ Virtual :
    /\ \A x \in memory[l] : x.line <= lineCount[l]
    /\ \A x, y \in memory[l] : x.line = y.line => x = y

Inv == TypeOK /\ WriterInv /\ LinesInv

-----------------------------------------------------------------------------
(* Lemmas about the operators                                              *)

\* What a file has been loaded to: patterns with numbers up to the count, each
\* number once.
LEMMA PatternsNumbered ==
  ASSUME NEW f \in Seq(Lines)
  PROVE  /\ Patterns(f) \in SUBSET [pat : Lines, line : Nat]
         /\ Count(f) \in Nat /\ IsLog(f) \in BOOLEAN
         /\ \A x \in Patterns(f) : x.line <= Count(f)
         /\ \A x, y \in Patterns(f) : x.line = y.line => x = y
BY DEF Patterns, Count, IsLog

\* A step of the thread of line i changes nothing of the others.
LEMMA GoesChanges ==
  ASSUME TypeOK, NEW i \in DOMAIN adds, NEW from, NEW to \in AddPcs, Goes(i, from, to)
  PROVE  /\ adds' \in Seq([list : Lists, line : Lines, pc : AddPcs])
         /\ DOMAIN adds' = DOMAIN adds
         /\ adds[i].pc = from /\ adds'[i].pc = to
         /\ \A j \in DOMAIN adds \ {i} : adds'[j] = adds[j]
<1> DEFINE R == [list : Lists, line : Lines, pc : AddPcs]
<1> DEFINE new == [adds[i] EXCEPT !.pc = to]
<1>1. adds \in Seq(R) /\ DOMAIN adds = 1..Len(adds) /\ i \in 1..Len(adds)
  BY LenProperties DEF TypeOK
<1>2. adds[i] \in R
  BY <1>1, ElementOfSeq
<1>3. new \in R /\ new.pc = to
  BY <1>2
<1>4. adds[i].pc = from /\ adds' = [adds EXCEPT ![i] = new]
  BY DEF Goes
<1>5. adds' \in Seq(R) /\ Len(adds') = Len(adds)
  BY <1>1, <1>3, <1>4, ExceptSeq
<1>6. DOMAIN adds' = DOMAIN adds
  BY <1>4
<1>7. adds'[i] = new /\ \A j \in DOMAIN adds \ {i} : adds'[j] = adds[j]
  BY <1>4
<1> QED BY <1>3, <1>4, <1>5, <1>6, <1>7

-----------------------------------------------------------------------------
LEMMA InitInv == Init => Inv
<1> SUFFICES ASSUME Init PROVE Inv
  OBVIOUS
<1>1. file \in [Lists -> Seq(Lines)]
  <2>1. PICK f \in [Lists -> Contents] :
          file = [l \in Lists |-> IF l \in Virtual THEN <<>> ELSE f[l]]
    BY DEF Init
  <2>2. \A l \in Lists : f[l] \in Seq(Lines) /\ <<>> \in Seq(Lines)
    BY ListConstantsOK
  <2> QED BY <2>1, <2>2
<1>2. \A l \in Lists : /\ memory[l] = Patterns(file[l]) /\ lineCount[l] = Count(file[l])
                       /\ logFile[l] = IsLog(file[l])
  BY DEF Init
<1>3. /\ memory \in [Lists -> SUBSET [pat : Lines, line : Nat]]
      /\ lineCount \in [Lists -> Nat] /\ logFile \in [Lists -> BOOLEAN]
  BY <1>1, PatternsNumbered DEF Init
<1>4. TypeOK
  <2>1. at \in [Matchers -> Seq(Steps)]
    BY DEF Init
  <2>2. adds \in Seq([list : Lists, line : Lines, pc : AddPcs])
    BY DEF Init
  <2>3. /\ stamp \in [Lists -> Nat] /\ edits \in Nat /\ prevLastWriteTime \in [Lists -> Nat]
        /\ unread \subseteq Lists /\ hits \in [Matchers -> Nat]
    BY DEF Init
  <2>4. /\ readers \in [Lists -> SUBSET Matchers]
        /\ exclusive \in [Lists -> BOOLEAN] /\ blocked \in [Lists -> BOOLEAN]
    BY DEF Init
  <2>5. /\ watch \in WatchPcs /\ events \subseteq Lists
        /\ current \in IF watch \in {"watching", "off"} THEN {Nobody} ELSE Lists
        /\ csWatcher \in DOMAIN adds \cup {Nobody} /\ db \in {Watcher, Nobody}
    BY DEF Init, WatchPcs
  <2> QED BY <1>1, <1>3, <2>1, <2>2, <2>3, <2>4, <2>5 DEF TypeOK
<1>5. WriterInv
  BY DEF Init, WriterInv
<1>6. LinesInv
  BY <1>1, <1>2, PatternsNumbered DEF LinesInv
<1> QED BY <1>4, <1>5, <1>6 DEF Inv

-----------------------------------------------------------------------------
(* Every step                                                              *)

\* A matcher's part of the state.
MatcherOK ==
  /\ readers \in [Lists -> SUBSET Matchers]
  /\ at \in [Matchers -> Seq(Steps)] /\ hits \in [Matchers -> Nat]
  /\ blocked \in [Lists -> BOOLEAN]

\* What is left of a filter is one, and its next step is one.
LEMMA FilterSteps ==
  ASSUME TypeOK, NEW m \in Matchers, NEW op, Op(m, op)
  PROVE  /\ Head(at[m]) \in Steps /\ Head(at[m]).list \in Lists /\ Head(at[m]).line \in Lines
         /\ Tail(at[m]) \in Seq(Steps)
<1>1. at[m] \in Seq(Steps) /\ at[m] # <<>>
  BY DEF TypeOK, Op
<1>2. Head(at[m]) \in Steps /\ Tail(at[m]) \in Seq(Steps)
  BY <1>1, HeadTailProperties
<1> QED BY <1>2 DEF Steps

\* A filter that goes on, fails or releases its locks keeps the types.
LEMMA FilterMoves ==
  ASSUME TypeOK, NEW m \in Matchers, NEW op, Op(m, op)
  PROVE  /\ Advance(m) => at' \in [Matchers -> Seq(Steps)] /\ hits' \in [Matchers -> Nat]
         /\ Fail(m) => at' \in [Matchers -> Seq(Steps)] /\ hits' \in [Matchers -> Nat]
         /\ UnlockShared(m) => /\ readers' \in [Lists -> SUBSET Matchers]
                               /\ blocked' \in [Lists -> BOOLEAN]
<1>1. Tail(at[m]) \in Seq(Steps) /\ <<>> \in Seq(Steps)
  BY FilterSteps, EmptySeq
<1>2. at \in [Matchers -> Seq(Steps)] /\ hits \in [Matchers -> Nat]
  BY DEF TypeOK
<1>3. Advance(m) => at' \in [Matchers -> Seq(Steps)] /\ hits' \in [Matchers -> Nat]
  BY <1>1, <1>2 DEF Advance
<1>4. Fail(m) => at' \in [Matchers -> Seq(Steps)] /\ hits' \in [Matchers -> Nat]
  BY <1>1, <1>2 DEF Fail
<1>5. UnlockShared(m) => /\ readers' \in [Lists -> SUBSET Matchers]
                         /\ blocked' \in [Lists -> BOOLEAN]
  BY DEF TypeOK, UnlockShared
<1> QED BY <1>3, <1>4, <1>5

\* What is matched leaves the files, the memory, the watcher and the writers alone.
\* (AddListLine is apart.)
LEMMA MatchTypes ==
  ASSUME TypeOK, NEW m \in Matchers,
         \/ StartFilter(m) \/ List(m) \/ Unless(m) \/ AddBlocks(m) \/ AddNoMore(m)
         \/ Matched(m) \/ IncrementHitPatternCount(m) \/ FilterEnds(m)
  PROVE  /\ MatcherOK'
         /\ UNCHANGED <<diskVars, listVars, exclusive, db, adds, watchVars, csWatcher>>
<1> USE DEF MatcherOK
<1>0. MatcherOK
  BY DEF TypeOK
<1>1. CASE StartFilter(m)
  <2>1. PICK f \in Filters[m] : at' = [at EXCEPT ![m] = f]
    BY <1>1 DEF StartFilter
  <2>2. f \in Seq(Steps)
    BY ListConstantsOK
  <2> QED BY <1>0, <1>1, <2>1, <2>2 DEF StartFilter, lockVars
<1>2. CASE List(m)
  <2>1. Op(m, "lst")
    BY <1>2 DEF List
  <2>2. /\ Tail(at[m]) \in Seq(Steps) /\ Head(at[m]).list \in Lists
    BY <2>1, FilterSteps
  <2>3. CASE UnlockShared(m) /\ Fail(m)
    BY <1>2, <2>1, <2>3, FilterMoves DEF List
  <2>4. CASE /\ readers' = [readers EXCEPT ![Head(at[m]).list] = @ \cup {m}]
             /\ UNCHANGED blocked
             /\ at' = [at EXCEPT ![m] = Tail(@)] /\ hits' = [hits EXCEPT ![m] = @ + 1]
    BY <1>0, <1>2, <2>2, <2>4 DEF List
  <2> QED BY <1>2, <2>3, <2>4 DEF List
<1>3. CASE Unless(m)
  <2>1. Op(m, "unless")
    BY <1>3 DEF Unless
  <2> QED BY <1>0, <1>3, <2>1, FilterMoves DEF Unless
<1>4. CASE AddBlocks(m)
  BY <1>0, <1>4 DEF AddBlocks, WantExclusive
<1>5. CASE AddNoMore(m)
  <2>1. Op(m, "add")
    BY <1>5 DEF AddNoMore
  <2> QED BY <1>0, <1>5, <2>1, FilterMoves DEF AddNoMore, lockVars
<1>6. CASE Matched(m)
  <2>1. Op(m, "end")
    BY <1>6 DEF Matched
  <2> QED BY <1>0, <1>6, <2>1, FilterMoves DEF Matched
<1>7. CASE IncrementHitPatternCount(m)
  BY <1>0, <1>7 DEF IncrementHitPatternCount, lockVars
<1>8. CASE FilterEnds(m)
  <2>1. Op(m, "end")
    BY <1>8 DEF FilterEnds
  <2> QED BY <1>0, <1>8, <2>1, FilterMoves DEF FilterEnds, lockVars
<1> QED BY <1>1, <1>2, <1>3, <1>4, <1>5, <1>6, <1>7, <1>8

LEMMA MatchInv ==
  ASSUME Inv, NEW m \in Matchers,
         \/ StartFilter(m) \/ List(m) \/ Unless(m) \/ AddBlocks(m) \/ AddNoMore(m)
         \/ Matched(m) \/ IncrementHitPatternCount(m) \/ FilterEnds(m)
  PROVE  Inv'
<1>1. MatcherOK' /\ UNCHANGED <<diskVars, listVars, exclusive, db, adds, watchVars, csWatcher>>
  BY MatchTypes DEF Inv
<1>2. TypeOK'
  BY <1>1 DEF Inv, TypeOK, MatcherOK, diskVars, listVars, watchVars
<1>3. WriterInv' /\ LinesInv'
  BY <1>1 DEF Inv, WriterInv, LinesInv, listVars, watchVars
<1> QED BY <1>2, <1>3 DEF Inv

\* The line gets the number after the last one; its thread has nothing yet.
LEMMA AddListLineInv ==
  ASSUME Inv, NEW m \in Matchers, AddListLine(m)
  PROVE  Inv'
<1> DEFINE l == Head(at[m]).list
           p == Head(at[m]).line
           new == [list |-> l, line |-> p, pc |-> "new"]
           R == [list : Lists, line : Lines, pc : AddPcs]
<1>1. TypeOK /\ Op(m, "add") /\ WriterInv
  BY DEF Inv, AddListLine
<1>2. l \in Lists /\ p \in Lines /\ new \in R
  BY <1>1, FilterSteps DEF AddPcs
<1>3. /\ UNCHANGED <<diskVars, logFile, prevLastWriteTime, unread, readers, exclusive, db,
                     watchVars, csWatcher>>
      /\ blocked' = [blocked EXCEPT ![l] = FALSE] /\ Advance(m)
  BY DEF AddListLine
<1>4. adds' = adds \/ adds' = Append(adds, new)
  BY DEF AddListLine
<1>5. \/ /\ memory' = memory
         /\ lineCount' = lineCount \/ lineCount' = [lineCount EXCEPT ![l] = @ + 1]
      \/ /\ memory' = [memory EXCEPT ![l] = @ \cup {[pat |-> p, line |-> lineCount[l] + 1]}]
         /\ IF l \notin Virtual THEN lineCount' = [lineCount EXCEPT ![l] = @ + 1]
                                ELSE lineCount' = lineCount
  BY DEF AddListLine, NewLine
<1>6. /\ memory \in [Lists -> SUBSET [pat : Lines, line : Nat]]
      /\ lineCount \in [Lists -> Nat] /\ adds \in Seq(R)
  BY <1>1 DEF TypeOK
<1>7. /\ adds' \in Seq(R) /\ DOMAIN adds \subseteq DOMAIN adds'
      /\ \A i \in DOMAIN adds' : \/ i \in DOMAIN adds /\ adds'[i] = adds[i]
                                 \/ adds'[i].pc = "new"
  <2>1. CASE adds' = adds
    BY <1>6, <2>1
  <2>2. CASE adds' = Append(adds, new)
    <3>1. new.pc = "new"
      OBVIOUS
    <3> HIDE DEF new, R
    <3>2. /\ adds' \in Seq(R) /\ Len(adds') = Len(adds) + 1 /\ DOMAIN adds = 1..Len(adds)
          /\ DOMAIN adds' = 1..(Len(adds) + 1)
          /\ \A i \in 1..Len(adds) : adds'[i] = adds[i]
          /\ adds'[Len(adds) + 1] = new /\ Len(adds) \in Nat
      BY <1>2, <1>6, <2>2
    <3> QED BY <3>1, <3>2
  <2> QED BY <1>4, <2>1, <2>2
<1> HIDE DEF l, p, new
<1>8. /\ memory' \in [Lists -> SUBSET [pat : Lines, line : Nat]]
      /\ lineCount' \in [Lists -> Nat]
  <2>1. [pat |-> p, line |-> lineCount[l] + 1] \in [pat : Lines, line : Nat]
    BY <1>2, <1>6
  <2>2. PICK e \in [pat : Lines, line : Nat] : e = [pat |-> p, line |-> lineCount[l] + 1]
    BY <2>1
  <2>3. memory' = memory \/ memory' = [memory EXCEPT ![l] = @ \cup {e}]
    BY <1>5, <2>2
  <2>4. memory' \in [Lists -> SUBSET [pat : Lines, line : Nat]]
    BY <1>2, <1>6, <2>3
  <2>5. lineCount' = lineCount \/ lineCount' = [lineCount EXCEPT ![l] = @ + 1]
    BY <1>5
  <2>6. lineCount' \in [Lists -> Nat]
    <3>1. l \in Lists /\ lineCount \in [Lists -> Nat]
      BY <1>2, <1>6
    <3> QED BY <2>5, <3>1
  <2> QED BY <2>4, <2>6
<1>9. TypeOK'
  <2>1. at' \in [Matchers -> Seq(Steps)] /\ hits' \in [Matchers -> Nat]
    BY <1>1, <1>3, FilterMoves
  <2>2. blocked' \in [Lists -> BOOLEAN]
    BY <1>1, <1>2, <1>3 DEF TypeOK
  <2> QED BY <1>1, <1>3, <1>7, <1>8, <2>1, <2>2 DEF TypeOK, diskVars, watchVars
<1>10. WriterInv'
  BY <1>1, <1>3, <1>7 DEF WriterInv, watchVars
<1>11. LinesInv'
  <2> SUFFICES ASSUME NEW k \in Lists \ Virtual
               PROVE  /\ \A x \in memory'[k] : x.line <= lineCount'[k]
                      /\ \A x, y \in memory'[k] : x.line = y.line => x = y
    BY DEF LinesInv
  <2>1. /\ \A x \in memory[k] : x.line <= lineCount[k] /\ x.line \in Nat
        /\ \A x, y \in memory[k] : x.line = y.line => x = y
        /\ lineCount[k] \in Nat
    BY <1>6 DEF Inv, LinesInv
  <2>2. CASE k # l
    BY <1>2, <1>5, <1>6, <2>1, <2>2
  <2>3. CASE memory' = memory
    <3>1. lineCount' = lineCount \/ lineCount' = [lineCount EXCEPT ![l] = @ + 1]
      BY <1>5
    <3>2. lineCount'[k] = lineCount[k] \/ lineCount'[k] = lineCount[k] + 1
      BY <1>6, <3>1
    <3>3. lineCount[k] <= lineCount'[k]
      BY <2>1, <3>2
    <3> QED BY <2>1, <2>3, <3>2, <3>3
  <2>4. CASE k = l /\ memory' # memory
    <3>1. PICK e : e = [pat |-> p, line |-> lineCount[k] + 1]
      OBVIOUS
    <3>2. memory'[k] = memory[k] \cup {e} /\ lineCount'[k] = lineCount[k] + 1
      BY <1>2, <1>5, <1>6, <2>4, <3>1
    <3>3. e.line = lineCount[k] + 1
      BY <3>1
    <3> QED BY <2>1, <3>2, <3>3
  <2> QED BY <2>2, <2>3, <2>4
<1> QED BY <1>9, <1>10, <1>11 DEF Inv

LEMMA AddRecords ==
  ASSUME TypeOK, NEW i \in DOMAIN adds
  PROVE  /\ i \in Nat /\ i # Nobody
         /\ adds[i] \in [list : Lists, line : Lines, pc : AddPcs]
         /\ adds[i].list \in Lists /\ adds[i].line \in Lines
<1> DEFINE R == [list : Lists, line : Lines, pc : AddPcs]
<1>1. adds \in Seq(R)
  BY DEF TypeOK
<1> HIDE DEF R
<1>2. i \in 1..Len(adds) /\ i \in Nat
  BY <1>1, LenProperties
<1>3. adds[i] \in R
  BY <1>1, <1>2, ElementOfSeq
<1> QED BY <1>2, <1>3, ListConstantsOK DEF R

\* The thread of line i; the file it writes is not in memory before it is loaded.
LEMMA AppendInv ==
  ASSUME Inv, NEW i \in DOMAIN adds, Append1(i)
  PROVE  Inv'
<1>0. TypeOK /\ i \in Nat
  BY AddRecords DEF Inv
<1>1. CASE OpenToAppend(i)
  <2>1. "failed" \in AddPcs /\ "open" \in AddPcs
    BY DEF AddPcs
  <2>2. /\ adds' \in Seq([list : Lists, line : Lines, pc : AddPcs])
        /\ DOMAIN adds' = DOMAIN adds /\ adds'[i].pc \in {"failed", "open"}
        /\ \A j \in DOMAIN adds \ {i} : adds'[j] = adds[j]
    <3>1. CASE Goes(i, "new", "failed")
      BY <1>0, <2>1, <3>1, GoesChanges
    <3>2. CASE Goes(i, "new", "open")
      BY <1>0, <2>1, <3>2, GoesChanges
    <3> QED BY <1>1, <3>1, <3>2 DEF OpenToAppend
  <2>3. UNCHANGED <<diskVars, listVars, lockVars, db, at, hits, watchVars, csWatcher>>
    BY <1>1 DEF OpenToAppend
  <2>4. TypeOK'
    BY <1>0, <2>2, <2>3 DEF TypeOK, diskVars, listVars, lockVars, watchVars
  <2> QED BY <2>1, <2>2, <2>3, <2>4 DEF Inv, WriterInv, LinesInv, listVars, watchVars
<1>2. CASE LockWatcher(i)
  <2>1. /\ adds' \in Seq([list : Lists, line : Lines, pc : AddPcs])
        /\ DOMAIN adds' = DOMAIN adds /\ adds'[i].pc = "locked"
        /\ \A j \in DOMAIN adds \ {i} : adds'[j] = adds[j]
    BY <1>0, <1>2, GoesChanges DEF LockWatcher, AddPcs
  <2>2. /\ csWatcher = Nobody /\ csWatcher' = i
        /\ UNCHANGED <<diskVars, listVars, lockVars, db, at, hits, watchVars>>
    BY <1>2 DEF LockWatcher
  <2>3. TypeOK'
    BY <1>0, <2>1, <2>2 DEF TypeOK, diskVars, listVars, lockVars, watchVars
  <2>4. WriterInv'
    <3>1. \A j \in DOMAIN adds : j # Nobody
      BY <1>0, AddRecords
    <3> QED BY <2>1, <2>2, <3>1 DEF Inv, WriterInv
  <2> QED BY <2>2, <2>3, <2>4 DEF Inv, LinesInv, listVars
<1>3. CASE StopWatchDirectory(i)
  <2>1. /\ adds' \in Seq([list : Lists, line : Lines, pc : AddPcs])
        /\ DOMAIN adds' = DOMAIN adds /\ adds[i].pc = "locked" /\ adds'[i].pc = "write"
        /\ \A j \in DOMAIN adds \ {i} : adds'[j] = adds[j]
    BY <1>0, <1>3, GoesChanges DEF StopWatchDirectory, AddPcs
  <2>2. /\ Joined /\ watch' = "off" /\ events' = {}
        /\ UNCHANGED <<diskVars, listVars, lockVars, db, at, hits, current, csWatcher>>
    BY <1>3 DEF StopWatchDirectory
  <2>3. TypeOK'
    BY <1>0, <2>1, <2>2 DEF TypeOK, Joined, WatchPcs, diskVars, listVars, lockVars
  <2>4. WriterInv'
    BY <2>1, <2>2 DEF Inv, WriterInv
  <2> QED BY <2>2, <2>3, <2>4 DEF Inv, LinesInv, listVars
<1>4. CASE WriteAndWatch(i)
  <2>1. /\ adds' \in Seq([list : Lists, line : Lines, pc : AddPcs])
        /\ DOMAIN adds' = DOMAIN adds /\ adds[i].pc = "write" /\ adds'[i].pc = "done"
        /\ \A j \in DOMAIN adds \ {i} : adds'[j] = adds[j]
    BY <1>0, <1>4, GoesChanges DEF WriteAndWatch, AddPcs
  <2>2. /\ file' = [file EXCEPT ![adds[i].list] = Append(@, adds[i].line)]
        /\ stamp' = [stamp EXCEPT ![adds[i].list] = @ + 1]
        /\ watch' = "watching" /\ csWatcher' = Nobody
        /\ UNCHANGED <<edits, listVars, lockVars, db, at, hits, current, events>>
    BY <1>4 DEF WriteAndWatch
  <2>3. csWatcher = i /\ watch = "off"
    BY <2>1 DEF Inv, WriterInv
  <2>4. file' \in [Lists -> Seq(Lines)] /\ stamp' \in [Lists -> Nat]
    <3>1. adds[i].list \in Lists /\ adds[i].line \in Lines
      BY <1>0, AddRecords
    <3>2. file \in [Lists -> Seq(Lines)] /\ stamp \in [Lists -> Nat]
      BY <1>0 DEF TypeOK
    <3>3. PICK f \in Seq(Lines) : f = Append(file[adds[i].list], adds[i].line)
      <4>1. PICK g \in Seq(Lines) : g = file[adds[i].list]
        BY <3>1, <3>2
      <4>2. PICK x \in Lines : x = adds[i].line
        BY <3>1
      <4>3. Append(g, x) \in Seq(Lines)
        OBVIOUS
      <4> QED BY <4>1, <4>2, <4>3
    <3>4. file' = [file EXCEPT ![adds[i].list] = f]
      BY <2>2, <3>3
    <3> QED BY <2>2, <3>1, <3>2, <3>4
  <2>5. TypeOK'
    BY <1>0, <2>1, <2>2, <2>3, <2>4 DEF TypeOK, WatchPcs, listVars, lockVars
  <2>6. WriterInv'
    BY <2>1, <2>2, <2>3 DEF Inv, WriterInv
  <2> QED BY <2>2, <2>5, <2>6 DEF Inv, LinesInv, listVars
<1> QED BY <1>1, <1>2, <1>3, <1>4 DEF Append1

\* A step of the watcher's thread other than ReadFile changes no list.
LEMMA WatchInv ==
  ASSUME Inv, Watching \/ LoadBlocks
  PROVE  Inv'
<1>0. TypeOK /\ watch \in WatchPcs /\ events \subseteq Lists
      /\ current \in (IF watch \in {"watching", "off"} THEN {Nobody} ELSE Lists)
  BY DEF Inv, TypeOK
<1>1. CASE Notified \/ Probe \/ LockDatabase \/ LockList \/ GetFileLastWriteTime \/ LoadBlocks
  <2>1. /\ UNCHANGED <<diskVars, listVars, at, hits, adds, csWatcher, readers>>
        /\ watch = "off" => watch' = "off"
    BY <1>1 DEF Notified, Probe, LockDatabase, LockList, GetFileLastWriteTime, LoadBlocks,
                lockVars, watchVars
  <2>2. /\ watch' \in WatchPcs /\ events' \subseteq Lists
        /\ current' \in (IF watch' \in {"watching", "off"} THEN {Nobody} ELSE Lists)
    BY <1>0, <1>1 DEF Notified, Probe, LockDatabase, LockList, GetFileLastWriteTime, LoadBlocks,
                      watchVars, WatchPcs
  <2>3. exclusive' \in [Lists -> BOOLEAN] /\ blocked' \in [Lists -> BOOLEAN]
        /\ db' \in {Watcher, Nobody}
    BY <1>0, <1>1 DEF Notified, Probe, LockDatabase, LockList, GetFileLastWriteTime, LoadBlocks,
                      WantExclusive, lockVars, TypeOK
  <2>4. TypeOK'
    BY <1>0, <2>1, <2>2, <2>3 DEF TypeOK, diskVars, listVars
  <2> QED BY <2>1, <2>4 DEF Inv, WriterInv, LinesInv, listVars
<1>2. CASE NotAgain
  <2>1. /\ UNCHANGED <<diskVars, listVars, readers, at, hits, adds, events, csWatcher>>
        /\ watch # "off" /\ Unlock
    BY <1>2 DEF NotAgain
  <2>2. TypeOK'
    BY <1>0, <2>1 DEF TypeOK, Unlock, WatchPcs, diskVars, listVars
  <2> QED BY <2>1, <2>2 DEF Inv, WriterInv, LinesInv, listVars
<1>3. CASE StampFirst
  <2>1. /\ UNCHANGED <<diskVars, memory, lineCount, logFile, unread, lockVars, db, at, hits, adds,
                       current, events, csWatcher>>
        /\ watch \in {"stamp", "stamping"} /\ watch' = "read"
        /\ \/ prevLastWriteTime' = [prevLastWriteTime EXCEPT ![current] = 0]
           \/ prevLastWriteTime' = [prevLastWriteTime EXCEPT ![current] = stamp[current]]
    BY <1>3 DEF StampFirst
  <2>2. prevLastWriteTime' \in [Lists -> Nat]
    <3>1. current \in Lists
      BY <1>0, <2>1
    <3>2. stamp[current] \in Nat /\ prevLastWriteTime \in [Lists -> Nat]
      BY <1>0, <3>1 DEF TypeOK
    <3> QED BY <2>1, <3>1, <3>2
  <2>3. TypeOK'
    BY <1>0, <2>1, <2>2 DEF TypeOK, WatchPcs, diskVars, lockVars
  <2> QED BY <2>1, <2>3 DEF Inv, WriterInv, LinesInv
<1>4. CASE ReadFile
  <2>1. /\ UNCHANGED <<diskVars, prevLastWriteTime, readers, at, hits, adds, events, csWatcher>>
        /\ watch = "read" /\ Unlock
        /\ memory' = [memory EXCEPT ![current] = Patterns(file[current])]
        /\ lineCount' = [lineCount EXCEPT ![current] = Count(file[current])]
        /\ logFile' = [logFile EXCEPT ![current] = IsLog(file[current])]
        /\ unread' = unread \ {current}
    BY <1>4 DEF ReadFile, Reloaded
  <2>2. /\ Patterns(file[current]) \in SUBSET [pat : Lines, line : Nat]
        /\ Count(file[current]) \in Nat /\ IsLog(file[current]) \in BOOLEAN
        /\ \A x \in Patterns(file[current]) : x.line <= Count(file[current])
        /\ \A x, y \in Patterns(file[current]) : x.line = y.line => x = y
    <3>1. current \in Lists
      BY <1>0, <2>1
    <3>2. file[current] \in Seq(Lines)
      BY <1>0, <3>1 DEF TypeOK
    <3> QED BY <3>2, PatternsNumbered
  <2>3. /\ memory' \in [Lists -> SUBSET [pat : Lines, line : Nat]]
        /\ lineCount' \in [Lists -> Nat] /\ logFile' \in [Lists -> BOOLEAN]
    BY <1>0, <2>1, <2>2 DEF TypeOK
  <2>4. TypeOK'
    BY <1>0, <2>1, <2>3 DEF TypeOK, Unlock, WatchPcs, diskVars
  <2>5. WriterInv'
    BY <2>1 DEF Inv, WriterInv
  <2>6. LinesInv'
    <3>1. memory \in [Lists -> SUBSET [pat : Lines, line : Nat]] /\ lineCount \in [Lists -> Nat]
      BY <1>0 DEF TypeOK
    <3> QED BY <2>1, <2>2, <3>1 DEF Inv, LinesInv
  <2> QED BY <2>4, <2>5, <2>6 DEF Inv
<1>5. CASE CannotOpen
  <2>1. /\ UNCHANGED <<diskVars, memory, lineCount, logFile, prevLastWriteTime, readers, at, hits,
                       adds, events, csWatcher>>
        /\ watch = "read" /\ Unlock /\ unread' = unread \cup {current}
    BY <1>5 DEF CannotOpen
  <2>2. TypeOK'
    BY <1>0, <2>1 DEF TypeOK, Unlock, WatchPcs, diskVars
  <2> QED BY <2>1, <2>2 DEF Inv, WriterInv, LinesInv
<1> QED BY <1>1, <1>2, <1>3, <1>4, <1>5 DEF Watching

LEMMA EditInv ==
  ASSUME Inv, NEW l \in Lists, Edit(l)
  PROVE  Inv'
<1>1. UNCHANGED <<listVars, lockVars, db, at, hits, adds, watch, current, csWatcher>>
  BY DEF Edit
<1>2. /\ file' \in [Lists -> Seq(Lines)] /\ stamp' \in [Lists -> Nat]
      /\ edits' \in Nat /\ events' \subseteq Lists
  <2>1. PICK f \in Contents : file' = [file EXCEPT ![l] = f]
    BY DEF Edit
  <2>2. f \in Seq(Lines)
    BY ListConstantsOK
  <2>3. file \in [Lists -> Seq(Lines)]
    BY DEF Inv, TypeOK
  <2>4. file' \in [Lists -> Seq(Lines)]
    BY <2>1, <2>2, <2>3
  <2>5. stamp' \in [Lists -> Nat]
    <3>1. stamp \in [Lists -> Nat] /\ stamp' = [stamp EXCEPT ![l] = @ + 1]
      BY DEF Inv, TypeOK, Edit
    <3> QED BY <3>1
  <2>6. edits' \in Nat
    <3>1. edits \in Nat /\ edits' = edits + 1
      BY DEF Inv, TypeOK, Edit
    <3> QED BY <3>1
  <2>7. events' \subseteq Lists
    <3>1. events \subseteq Lists /\ events' = IF watch = "off" THEN events ELSE events \cup {l}
      BY DEF Inv, TypeOK, Edit
    <3> QED BY <3>1
  <2> QED BY <2>4, <2>5, <2>6, <2>7
<1>3. TypeOK'
  BY <1>1, <1>2 DEF Inv, TypeOK, listVars, lockVars
<1> QED BY <1>1, <1>3 DEF Inv, WriterInv, LinesInv, listVars

LEMMA StepInv == Inv /\ [Next]_vars => Inv'
<1> SUFFICES ASSUME Inv, [Next]_vars PROVE Inv'
  OBVIOUS
<1>1. CASE Watching \/ LoadBlocks
  BY <1>1, WatchInv
<1>2. ASSUME NEW m \in Matchers, StartFilter(m) \/ Match(m) \/ AddBlocks(m)
      PROVE  Inv'
  BY <1>2, MatchInv, AddListLineInv DEF Match
<1>3. ASSUME NEW i \in DOMAIN adds, Append1(i) PROVE Inv'
  BY <1>3, AppendInv
<1>4. ASSUME NEW l \in Lists, Edit(l) PROVE Inv'
  BY <1>4, EditInv
<1>5. CASE UNCHANGED vars
  BY <1>5 DEF vars, diskVars, listVars, lockVars, watchVars, Inv, TypeOK, WriterInv, LinesInv
<1> QED BY <1>1, <1>2, <1>3, <1>4, <1>5 DEF Next

\* What Append threads, loads and matches keep together.
LEMMA InvHolds == Spec => []Inv
BY InitInv, StepInv, PTL DEF Spec

\* Every state of the lists, their files and the watcher is well typed.
THEOREM TypeCorrect == Spec => []TypeOK
<1>1. Inv => TypeOK
  BY DEF Inv
<1> QED BY InvHolds, <1>1, PTL

\* While a line is being written no load reads the file and no other thread
\* writes one, for any number of lines added at once.
THEOREM NeverReadsHalfHolds == Spec => []NeverReadsHalf
<1>1. Inv => NeverReadsHalf
  <2> SUFFICES ASSUME Inv, NEW i \in DOMAIN adds, adds[i].pc = "write"
               PROVE  /\ watch = "off"
                      /\ \A j \in DOMAIN adds \ {i} : adds[j].pc # "write"
    BY DEF NeverReadsHalf
  <2> QED BY DEF Inv, WriterInv
<1> QED BY <1>1, InvHolds, PTL

\* No two patterns of a list have the same line number, however loads, edits
\* and added lines follow one another.
THEOREM LinesDistinctHolds == Spec => []LinesDistinct
<1>1. Inv => LinesDistinct
  BY DEF Inv, LinesInv, LinesDistinct
<1> QED BY <1>1, InvHolds, PTL

-----------------------------------------------------------------------------
(* What is in memory is the file                                           *)

\* Every write and every edit moves a file's time forward; the watcher has seen
\* that time or an earlier one.
StampInv ==
  \A l \in Lists : 1 <= stamp[l] /\ prevLastWriteTime[l] <= stamp[l]

\* Only a thread that appends a line stops the watcher.
StoppedInv == adds = <<>> => watch # "off"

\* The watcher's thread has been told of l and has not finished with it.
Told(l) == l \in events \/ (current = l /\ watch \notin {"watching", "off"})

\* The time of l was taken and the file read under it.
LoadedNow(l) ==
  /\ prevLastWriteTime[l] = stamp[l] /\ ~(watch = "read" /\ current = l) /\ ~logFile[l]
  /\ l \notin unread

\* A list loaded at the time of its file has its patterns, and others only by
\* $ADDLST; a list that differs from its file will be looked at.
LoadedInv ==
  \A l \in Lists \ Virtual :
    /\ LoadedNow(l) => Patterns(file[l]) \subseteq memory[l]
    /\ LoadedNow(l) /\ adds = <<>> => memory[l] = Patterns(file[l])
    /\ adds = <<>> /\ ~logFile[l] => memory[l] = Patterns(file[l]) \/ Told(l) \/ l \in unread

FullInv == Inv /\ StampInv /\ StoppedInv /\ LoadedInv

LEMMA InitFull == Init => FullInv
<1> SUFFICES ASSUME Init PROVE FullInv
  OBVIOUS
<1>1. Inv
  BY InitInv
<1>2. StampInv /\ StoppedInv /\ LoadedInv
  BY DEF Init, StampInv, StoppedInv, LoadedInv, LoadedNow
<1> QED BY <1>1, <1>2 DEF FullInv

\* The files and lists as they were, and as many lines added.
LEMMA LoadedKept ==
  ASSUME FullInv, UNCHANGED <<diskVars, listVars>>, adds = <<>> <=> adds' = <<>>,
         \A l \in Lists : (watch = "read" /\ current = l) => (watch' = "read" /\ current' = l),
         \A l \in Lists : adds = <<>> /\ Told(l) => Told(l)',
         adds = <<>> => watch' # "off"
  PROVE  StampInv' /\ StoppedInv' /\ LoadedInv'
BY DEF FullInv, StampInv, StoppedInv, LoadedInv, LoadedNow, diskVars, listVars

\* Filters that match change no list but by AddListLine.
LEMMA MatchLoaded ==
  ASSUME FullInv, NEW m \in Matchers,
         \/ StartFilter(m) \/ List(m) \/ Unless(m) \/ AddBlocks(m) \/ AddNoMore(m)
         \/ Matched(m) \/ IncrementHitPatternCount(m) \/ FilterEnds(m)
  PROVE  StampInv' /\ StoppedInv' /\ LoadedInv'
<1>1. UNCHANGED <<diskVars, listVars, exclusive, db, adds, watchVars, csWatcher>>
  BY MatchTypes DEF FullInv, Inv
<1>2. adds = <<>> => watch # "off"
  BY DEF FullInv, StoppedInv
<1> QED BY <1>1, <1>2, LoadedKept DEF watchVars, Told

\* A pattern more in memory; from then on lines have been added.
LEMMA AddListLineLoaded ==
  ASSUME FullInv, NEW m \in Matchers, AddListLine(m)
  PROVE  StampInv' /\ StoppedInv' /\ LoadedInv'
<1> DEFINE l == Head(at[m]).list
           p == Head(at[m]).line
           new == [list |-> l, line |-> p, pc |-> "new"]
<1>1. TypeOK /\ Op(m, "add")
  BY DEF FullInv, Inv, AddListLine
<1>2. l \in Lists /\ new \in [list : Lists, line : Lines, pc : AddPcs]
  BY <1>1, FilterSteps DEF AddPcs
<1>3. UNCHANGED <<diskVars, logFile, prevLastWriteTime, unread, watchVars>>
  BY DEF AddListLine
<1>4. \A k \in Lists : memory[k] \subseteq memory'[k]
  <2>1. memory \in [Lists -> SUBSET [pat : Lines, line : Nat]]
    BY <1>1 DEF TypeOK
  <2>2. memory' = memory \/ \E e : memory' = [memory EXCEPT ![l] = @ \cup {e}]
    BY DEF AddListLine
  <2> QED BY <1>2, <2>1, <2>2
<1>5. \/ adds' = adds /\ \A k \in Lists \ Virtual : memory'[k] = memory[k]
      \/ adds' = Append(adds, new)
  <2>1. memory \in [Lists -> SUBSET [pat : Lines, line : Nat]]
    BY <1>1 DEF TypeOK
  <2>2. CASE adds' = Append(adds, new)
    BY <2>2
  <2>3. CASE logFile[l] \/ p \in Invalid \/ l \in Virtual
    <3>1. memory' = memory \/ l \in Virtual
      BY <2>3 DEF AddListLine
    <3>2. \A k \in Lists \ Virtual : memory'[k] = memory[k]
      <4>1. memory' = memory \/ \E e : memory' = [memory EXCEPT ![l] = @ \cup {e}]
        BY DEF AddListLine
      <4> QED BY <3>1, <4>1, <2>1
    <3>3. adds' = adds \/ adds' = Append(adds, new)
      BY DEF AddListLine
    <3> QED BY <3>2, <3>3
  <2> QED BY <2>2, <2>3 DEF AddListLine
<1>6. CASE adds' = adds /\ \A k \in Lists \ Virtual : memory'[k] = memory[k]
  BY <1>3, <1>6 DEF FullInv, StampInv, StoppedInv, LoadedInv, LoadedNow, Told, diskVars,
                    watchVars
<1>7. CASE adds' = Append(adds, new)
  <2>1. adds' # <<>>
    <3>1. adds \in Seq([list : Lists, line : Lines, pc : AddPcs])
      BY <1>1 DEF TypeOK
    <3> HIDE DEF new
    <3>2. Len(adds') = Len(adds) + 1 /\ Len(adds) \in Nat
      BY <1>2, <1>7, <3>1
    <3> QED BY <3>2, EmptySeq
  <2> QED BY <1>3, <1>4, <2>1 DEF FullInv, StampInv, StoppedInv, LoadedInv, LoadedNow, diskVars,
                                  watchVars
<1> QED BY <1>5, <1>6, <1>7

\* A line written makes the file newer than what was loaded.
LEMMA AppendLoaded ==
  ASSUME FullInv, NEW i \in DOMAIN adds, Append1(i)
  PROVE  StampInv' /\ StoppedInv' /\ LoadedInv'
<1>1. TypeOK /\ adds[i].list \in Lists
  BY AddRecords DEF FullInv, Inv
<1>2. DOMAIN adds' = DOMAIN adds
  BY DEF Append1, OpenToAppend, LockWatcher, StopWatchDirectory, WriteAndWatch, Goes
<1>3. adds # <<>> /\ adds' # <<>>
  BY <1>2
<1>4. CASE OpenToAppend(i) \/ LockWatcher(i) \/ StopWatchDirectory(i)
  <2>1. UNCHANGED <<diskVars, listVars>>
    BY <1>4 DEF OpenToAppend, LockWatcher, StopWatchDirectory
  <2>2. watch = "read" => UNCHANGED <<watch, current>>
    BY <1>4 DEF OpenToAppend, LockWatcher, StopWatchDirectory, Joined, watchVars
  <2> QED BY <1>3, <2>1, <2>2, LoadedKept
<1>5. CASE WriteAndWatch(i)
  <2>1. /\ file' = [file EXCEPT ![adds[i].list] = Append(@, adds[i].line)]
        /\ stamp' = [stamp EXCEPT ![adds[i].list] = @ + 1]
        /\ UNCHANGED <<listVars, current>> /\ watch = "off" /\ watch' = "watching"
    BY <1>5 DEF WriteAndWatch, Goes, FullInv, Inv, WriterInv
  <2>2. /\ file \in [Lists -> Seq(Lines)] /\ stamp \in [Lists -> Nat]
        /\ prevLastWriteTime \in [Lists -> Nat]
    BY <1>1 DEF TypeOK
  <2>3. \A k \in Lists : \/ file'[k] = file[k] /\ stamp'[k] = stamp[k]
                         \/ stamp'[k] = stamp[k] + 1
    BY <2>1, <2>2
  <2> QED BY <1>3, <2>1, <2>2, <2>3 DEF FullInv, StampInv, StoppedInv, LoadedInv, LoadedNow,
                                        listVars
<1> QED BY <1>4, <1>5 DEF Append1

\* The watcher lets a list go that was loaded at the time of its file, and reads
\* the others.
LEMMA WatchLoaded ==
  ASSUME FullInv, Watching \/ LoadBlocks
  PROVE  StampInv' /\ StoppedInv' /\ LoadedInv'
<1>0. /\ TypeOK /\ (watch \notin {"watching", "off"} => current \in Lists)
      /\ prevLastWriteTime \in [Lists -> Nat] /\ stamp \in [Lists -> Nat]
      /\ memory \in [Lists -> SUBSET [pat : Lines, line : Nat]]
      /\ logFile \in [Lists -> BOOLEAN] /\ (adds = <<>> => watch # "off")
  BY DEF FullInv, Inv, TypeOK, StoppedInv
<1>1. CASE Notified \/ Probe \/ LockDatabase \/ LockList \/ GetFileLastWriteTime \/ LoadBlocks
  <2>1. UNCHANGED <<diskVars, listVars, adds>> /\ (watch # "off" => watch' # "off")
    BY <1>1 DEF Notified, Probe, LockDatabase, LockList, GetFileLastWriteTime, LoadBlocks,
                watchVars
  <2>2. watch = "read" => UNCHANGED watchVars
    BY <1>1 DEF Notified, Probe, LockDatabase, LockList, GetFileLastWriteTime, LoadBlocks
  <2>3. \A l \in Lists : Told(l) => Told(l)'
    <3>1. CASE Notified
      BY <3>1 DEF Notified, Told
    <3>2. CASE ~Notified
      BY <1>1, <3>2 DEF Probe, LockDatabase, LockList, GetFileLastWriteTime, LoadBlocks, watchVars,
                        Told
    <3> QED BY <3>1, <3>2
  <2> QED BY <1>0, <2>1, <2>2, <2>3, LoadedKept DEF watchVars
<1>2. CASE NotAgain
  <2>1. /\ UNCHANGED <<diskVars, listVars, adds, events>>
        /\ watch \in {"stamp", "stamping"} /\ watch' = "watching"
    BY <1>2 DEF NotAgain, Unlock
  <2>2. StampInv' /\ StoppedInv'
    BY <2>1 DEF FullInv, StampInv, StoppedInv, diskVars, listVars
  <2>3. adds = <<>> => OpenFiles = {}
    BY DEF OpenFiles
  <2>4. adds = <<>> /\ ~logFile[current] => prevLastWriteTime[current] = stamp[current]
    BY <1>2, <2>3 DEF NotAgain
  <2>5. LoadedInv'
    <3> SUFFICES ASSUME NEW l \in Lists \ Virtual
                 PROVE  /\ LoadedNow(l)' => Patterns(file'[l]) \subseteq memory'[l]
                        /\ LoadedNow(l)' /\ adds' = <<>> => memory'[l] = Patterns(file'[l])
                        /\ adds' = <<>> /\ ~logFile'[l]
                             => memory'[l] = Patterns(file'[l]) \/ Told(l)' \/ l \in unread'
      BY DEF LoadedInv
    <3>1. LoadedNow(l)' <=> LoadedNow(l)
      BY <2>1 DEF LoadedNow, diskVars, listVars
    <3>2. Told(l) => Told(l)' \/ l = current
      BY <2>1 DEF Told
    <3>3. l = current /\ adds = <<>> /\ ~logFile[l] => LoadedNow(l) \/ l \in unread
      BY <2>1, <2>4 DEF LoadedNow
    <3> QED BY <2>1, <3>1, <3>2, <3>3 DEF FullInv, LoadedInv, diskVars, listVars
  <2> QED BY <2>2, <2>5
<1>3. CASE StampFirst
  <2>1. /\ UNCHANGED <<diskVars, memory, logFile, unread, adds, current, events>>
        /\ watch \in {"stamp", "stamping"} /\ watch' = "read"
        /\ \/ prevLastWriteTime' = [prevLastWriteTime EXCEPT ![current] = 0]
           \/ prevLastWriteTime' = [prevLastWriteTime EXCEPT ![current] = stamp[current]]
    BY <1>3 DEF StampFirst
  <2>2. \A l \in Lists : l # current => prevLastWriteTime'[l] = prevLastWriteTime[l]
    BY <1>0, <2>1
  <2>3. current \in Lists /\ prevLastWriteTime'[current] \in {0, stamp[current]}
    BY <1>0, <2>1
  <2>4. StampInv' /\ StoppedInv'
    BY <1>0, <2>1, <2>2, <2>3 DEF FullInv, StampInv, StoppedInv, diskVars
  <2>5. LoadedInv'
    BY <2>1, <2>2 DEF FullInv, LoadedInv, LoadedNow, Told, diskVars
  <2> QED BY <2>4, <2>5
<1>4. CASE ReadFile
  <2>1. /\ UNCHANGED <<diskVars, prevLastWriteTime, adds, events>>
        /\ watch = "read" /\ watch' = "watching"
        /\ memory' = [memory EXCEPT ![current] = Patterns(file[current])]
        /\ logFile' = [logFile EXCEPT ![current] = IsLog(file[current])]
        /\ unread' = unread \ {current}
    BY <1>4 DEF ReadFile, Reloaded, Unlock
  <2>2. StampInv' /\ StoppedInv'
    BY <2>1 DEF FullInv, StampInv, StoppedInv, diskVars
  <2>3. current \in Lists /\ memory'[current] = Patterns(file'[current])
    BY <1>0, <2>1 DEF diskVars
  <2>4. \A l \in Lists : l # current => memory'[l] = memory[l] /\ logFile'[l] = logFile[l]
    BY <1>0, <2>1
  <2>5. LoadedInv'
    BY <2>1, <2>3, <2>4 DEF FullInv, LoadedInv, LoadedNow, Told, diskVars
  <2> QED BY <2>2, <2>5
<1>5. CASE CannotOpen
  <2>1. /\ UNCHANGED <<diskVars, memory, logFile, prevLastWriteTime, adds, events>>
        /\ watch = "read" /\ watch' = "watching" /\ unread' = unread \cup {current}
    BY <1>5 DEF CannotOpen, Unlock
  <2>2. StampInv' /\ StoppedInv'
    BY <2>1 DEF FullInv, StampInv, StoppedInv, diskVars
  <2>3. LoadedInv'
    BY <2>1 DEF FullInv, LoadedInv, LoadedNow, Told, diskVars
  <2> QED BY <2>2, <2>3
<1> QED BY <1>1, <1>2, <1>3, <1>4, <1>5 DEF Watching

\* An edit makes the file newer than what was loaded, and the watcher is told.
LEMMA EditLoaded ==
  ASSUME FullInv, NEW l \in Lists, Edit(l)
  PROVE  StampInv' /\ StoppedInv' /\ LoadedInv'
<1>1. /\ UNCHANGED <<listVars, adds, watch, current>>
      /\ events' = IF watch = "off" THEN events ELSE events \cup {l}
      /\ stamp' = [stamp EXCEPT ![l] = @ + 1]
      /\ \E f \in Contents : file' = [file EXCEPT ![l] = f]
  BY DEF Edit
<1>2. /\ file \in [Lists -> Seq(Lines)] /\ stamp \in [Lists -> Nat]
      /\ prevLastWriteTime \in [Lists -> Nat]
  BY DEF FullInv, Inv, TypeOK
<1>3. \A k \in Lists : k # l => file'[k] = file[k] /\ stamp'[k] = stamp[k]
  BY <1>1, <1>2
<1>4. stamp'[l] = stamp[l] + 1
  BY <1>1, <1>2
<1>5. adds = <<>> => l \in events'
  BY <1>1 DEF FullInv, StoppedInv
<1>6. StampInv' /\ StoppedInv'
  BY <1>1, <1>2, <1>3, <1>4 DEF FullInv, StampInv, StoppedInv, listVars
<1>7. LoadedInv'
  BY <1>1, <1>2, <1>3, <1>4, <1>5 DEF FullInv, StampInv, LoadedInv, LoadedNow, Told, listVars
<1> QED BY <1>6, <1>7

LEMMA StepFull == FullInv /\ [Next]_vars => FullInv'
<1> SUFFICES ASSUME FullInv, [Next]_vars PROVE FullInv'
  OBVIOUS
<1>0. Inv'
  BY StepInv DEF FullInv
<1> SUFFICES StampInv' /\ StoppedInv' /\ LoadedInv'
  BY <1>0 DEF FullInv
<1>1. CASE Watching \/ LoadBlocks
  BY <1>1, WatchLoaded
<1>2. ASSUME NEW m \in Matchers, StartFilter(m) \/ Match(m) \/ AddBlocks(m)
      PROVE  StampInv' /\ StoppedInv' /\ LoadedInv'
  BY <1>2, MatchLoaded, AddListLineLoaded DEF Match
<1>3. ASSUME NEW i \in DOMAIN adds, Append1(i) PROVE StampInv' /\ StoppedInv' /\ LoadedInv'
  BY <1>3, AppendLoaded
<1>4. ASSUME NEW l \in Lists, Edit(l) PROVE StampInv' /\ StoppedInv' /\ LoadedInv'
  BY <1>4, EditLoaded
<1>5. CASE UNCHANGED vars
  BY <1>5 DEF vars, diskVars, listVars, watchVars, FullInv, StampInv, StoppedInv, LoadedInv,
              LoadedNow, Told
<1> QED BY <1>1, <1>2, <1>3, <1>4, <1>5 DEF Next

\* A list loaded at its file's last write time has every pattern of the file,
\* and without $ADDLST it is the file whenever nothing is under way, for any
\* number of lists, matchers, edits and added lines.
THEOREM MemoryIsFileHolds == Spec => []MemoryIsFile
<1>1. FullInv => MemoryIsFile
  <2> SUFFICES ASSUME FullInv, NEW l \in Lists \ (Virtual \cup unread)
               PROVE  /\ LoadedNow(l) => Patterns(file[l]) \subseteq memory[l]
                      /\ Quiet /\ adds = <<>> /\ ~logFile[l] => memory[l] = Patterns(file[l])
    BY DEF MemoryIsFile, LoadedNow
  <2> QED BY DEF FullInv, LoadedInv, Told, Quiet
<1> QED BY <1>1, InitFull, StepFull, PTL DEF Spec
=============================================================================
