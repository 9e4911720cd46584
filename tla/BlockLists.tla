----------------------------- MODULE BlockLists -----------------------------
(***************************************************************************)
(* The lists of patterns behind $LST and $ADDLST: the copy in memory       *)
(* (HashedListCollection), the file, and the directory watcher that loads  *)
(* the file again.  Threads: managers that match filters, the watcher's    *)
(* thread, and a detached thread per line that $ADDLST adds.               *)
(*                                                                         *)
(* Each list has a boost::shared_mutex: a match of $LST holds it shared    *)
(* until everything after it has matched, AddListLine and LoadList take it *)
(* exclusively.  A line is a token; whether it is a pattern is Invalid.    *)
(* An added line is neither empty nor a comment.                           *)
(* The white list of a list is part of the list.  Of the database of hits  *)
(* only the lock is here.                                                  *)
(***************************************************************************)
EXTENDS Naturals, Sequences

CONSTANTS
  Lines,      \* lines of a list
  Lists,      \* names of lists
  Virtual,    \* those without a file
  Matchers,   \* threads that match filters
  Filters,    \* per thread: what its filters do, sequences of [op, list, line]
  Contents,   \* what a file may hold, sequences of lines
  Invalid,    \* lines that are no pattern: malformed, empty, comments
  LogMark,    \* the line that makes a list a log file
  MaxAdds,    \* bound: lines added
  MaxEdits,   \* bound: edits of a file by somebody else
  Watcher, Nobody

Steps == [op : {"lst", "unless", "add", "end"}, list : Lists, line : Lines]

ASSUME ListConstantsOK ==
  /\ Virtual \subseteq Lists
  /\ LogMark \in Invalid /\ Invalid \subseteq Lines
  /\ Contents \subseteq Seq(Lines)
  /\ Filters \in [Matchers -> SUBSET Seq(Steps)]
  /\ MaxAdds \in Nat /\ MaxEdits \in Nat
  /\ Nobody \notin Nat /\ Nobody \notin Lists

VARIABLES
  file,       \* lines of the file of a list
  stamp,      \* its last write time
  edits,      \* edits made
  memory,     \* patterns with their lines
  lineCount, logFile, prevLastWriteTime,
  unread,     \* lists whose file could not be opened when last they were loaded (history)
  readers,    \* who holds the mutex shared
  exclusive,  \* it is held exclusively, by the watcher
  blocked,    \* boost's exclusive_waiting_blocked: no new readers
  db,         \* owner of the database's lock
  at,         \* per matcher: what is left of the filter
  hits,       \* per matcher: length of matchListLog
  adds,       \* threads that append: [list, line, pc]
  watch,      \* where the watcher's thread is
  current,    \* the list it was told of, Nobody when it waits
  events,     \* changes it will be told of
  csWatcher   \* owner of g_csListChangeWatcher

diskVars  == <<file, stamp, edits>>
listVars  == <<memory, lineCount, logFile, prevLastWriteTime, unread>>
lockVars  == <<readers, exclusive, blocked>>
watchVars == <<watch, current, events>>
vars == <<diskVars, listVars, lockVars, db, at, hits, adds, watchVars, csWatcher>>

-----------------------------------------------------------------------------
(* Loading                                                                 *)

IsLog(f) == Len(f) > 0 /\ f[1] = LogMark
Patterns(f) ==
  IF IsLog(f) THEN {}
  ELSE {[pat |-> f[i], line |-> i] : i \in {j \in DOMAIN f : f[j] \notin Invalid}}
Count(f) == IF IsLog(f) THEN 0 ELSE Len(f)

\* After LoadSettings: every file has been loaded.
Init ==
  /\ \E f \in [Lists -> Contents] : file = [l \in Lists |-> IF l \in Virtual THEN <<>> ELSE f[l]]
  /\ stamp = [l \in Lists |-> 1] /\ edits = 0
  /\ memory = [l \in Lists |-> Patterns(file[l])]
  /\ lineCount = [l \in Lists |-> Count(file[l])]
  /\ logFile = [l \in Lists |-> IsLog(file[l])]
  /\ prevLastWriteTime = [l \in Lists |-> IF l \in Virtual THEN 0 ELSE 1]
  /\ unread = {}
  /\ readers = [l \in Lists |-> {}]
  /\ exclusive = [l \in Lists |-> FALSE] /\ blocked = [l \in Lists |-> FALSE]
  /\ db = Nobody /\ csWatcher = Nobody
  /\ at = [m \in Matchers |-> <<>>] /\ hits = [m \in Matchers |-> 0]
  /\ adds = <<>>
  /\ watch = "watching" /\ current = Nobody /\ events = {}

-----------------------------------------------------------------------------
(* Matching a filter                                                       *)

CanRead(l)  == ~exclusive[l] /\ ~blocked[l]
CanWrite(l) == ~exclusive[l] /\ readers[l] = {}
Op(m, op)   == at[m] # <<>> /\ Head(at[m]).op = op
Holding(m)  == {l \in Lists : m \in readers[l]}

UnlockShared(m) ==
  /\ readers' = [l \in Lists |-> readers[l] \ {m}]
  /\ blocked' = [l \in Lists |-> blocked[l] /\ readers[l] # {m}]

Advance(m) == at' = [at EXCEPT ![m] = Tail(@)] /\ UNCHANGED hits
Fail(m)    == at' = [at EXCEPT ![m] = <<>>] /\ hits' = [hits EXCEPT ![m] = 0]

StartFilter(m) ==
  /\ at[m] = <<>>
  /\ \E f \in Filters[m] : at' = [at EXCEPT ![m] = f]
  /\ UNCHANGED <<diskVars, listVars, lockVars, db, hits, adds, watchVars, csWatcher>>

\* $LST(l): what follows is matched with the lock held.
List(m) ==
  /\ Op(m, "lst")
  /\ LET l == Head(at[m]).list IN
       /\ CanRead(l)
       /\ \/ /\ memory[l] # {}
             /\ readers' = [readers EXCEPT ![l] = @ \cup {m}] /\ UNCHANGED blocked
             /\ at' = [at EXCEPT ![m] = Tail(@)] /\ hits' = [hits EXCEPT ![m] = @ + 1]
          \/ UnlockShared(m) /\ Fail(m)
  /\ UNCHANGED <<diskVars, listVars, exclusive, db, adds, watchVars, csWatcher>>

UnlessHolds(m) ==    \* mutant: the lock is kept
  /\ Op(m, "unless")
  /\ LET l == Head(at[m]).list IN
       /\ CanRead(l)
       /\ \/ Advance(m) /\ readers' = [readers EXCEPT ![l] = @ \cup {m}] /\ UNCHANGED blocked
          \/ memory[l] # {} /\ UnlockShared(m) /\ Fail(m)
  /\ UNCHANGED <<diskVars, listVars, exclusive, db, adds, watchVars, csWatcher>>
\* (^$LST(l)): the lock is released before what follows.
Unless(m) ==
  /\ Op(m, "unless")
  /\ LET l == Head(at[m]).list IN
       /\ CanRead(l)
       /\ \/ Advance(m) /\ UNCHANGED <<readers, blocked>>
          \/ memory[l] # {} /\ UnlockShared(m) /\ Fail(m)
  /\ UNCHANGED <<diskVars, listVars, exclusive, db, adds, watchVars, csWatcher>>

WantExclusive(l) ==
  /\ ~CanWrite(l) /\ ~blocked[l]
  /\ blocked' = [blocked EXCEPT ![l] = TRUE]

AddBlocks(m) ==
  /\ Op(m, "add") /\ WantExclusive(Head(at[m]).list)
  /\ UNCHANGED <<diskVars, listVars, readers, exclusive, db, at, hits, adds, watchVars, csWatcher>>

NewLineLast(l) == lineCount[l]    \* mutant: the number of the last line
NewLine(l)     == lineCount[l] + 1

AddListLine(m) ==
  /\ Op(m, "add") /\ Len(adds) < MaxAdds
  /\ LET l == Head(at[m]).list
         p == Head(at[m]).line
         taken == logFile[l] \/ p \notin Invalid IN
       /\ CanWrite(l)
       /\ blocked' = [blocked EXCEPT ![l] = FALSE]
       /\ memory' = IF logFile[l] \/ p \in Invalid THEN memory
                    ELSE [memory EXCEPT ![l] = @ \cup {[pat |-> p, line |-> NewLine(l)]}]
       /\ IF taken /\ l \notin Virtual
          THEN /\ lineCount' = [lineCount EXCEPT ![l] = @ + 1]
               /\ adds' = Append(adds, [list |-> l, line |-> p, pc |-> "new"])
          ELSE UNCHANGED <<lineCount, adds>>
  /\ Advance(m)
  /\ UNCHANGED <<diskVars, logFile, prevLastWriteTime, unread, readers, exclusive, db, watchVars,
                 csWatcher>>

\* The bound is reached: as if $ADDLST were not there.
AddNoMore(m) ==
  /\ Op(m, "add") /\ Len(adds) = MaxAdds /\ Advance(m)
  /\ UNCHANGED <<diskVars, listVars, lockVars, db, adds, watchVars, csWatcher>>

Matched(m) ==
  /\ Op(m, "end") /\ Holding(m) # {} /\ UnlockShared(m)
  /\ UNCHANGED <<diskVars, listVars, exclusive, db, at, hits, adds, watchVars, csWatcher>>

IncrementHitPatternCount(m) ==
  /\ Op(m, "end") /\ Holding(m) = {} /\ hits[m] > 0 /\ db = Nobody
  /\ hits' = [hits EXCEPT ![m] = @ - 1]
  /\ UNCHANGED <<diskVars, listVars, lockVars, db, at, adds, watchVars, csWatcher>>

FilterEnds(m) ==
  /\ Op(m, "end") /\ Holding(m) = {} /\ hits[m] = 0 /\ Advance(m)
  /\ UNCHANGED <<diskVars, listVars, lockVars, db, adds, watchVars, csWatcher>>

-----------------------------------------------------------------------------
(* The thread that appends a line to the file                              *)

OpenFiles == {adds[i].list : i \in {j \in DOMAIN adds : adds[j].pc \in {"open", "locked", "write"}}}

\* Opened with share mode 0 by the watcher's thread.
Exclusively(l) == watch \in {"probing", "stamping"} /\ current = l
Goes(i, from, to) == adds[i].pc = from /\ adds' = [adds EXCEPT ![i].pc = to]

OpenToAppend(i) ==
  /\ Goes(i, "new", IF Exclusively(adds[i].list) THEN "failed" ELSE "open")
  /\ UNCHANGED <<diskVars, listVars, lockVars, db, at, hits, watchVars, csWatcher>>

LockWatcher(i) ==
  /\ csWatcher = Nobody /\ csWatcher' = i /\ Goes(i, "open", "locked")
  /\ UNCHANGED <<diskVars, listVars, lockVars, db, at, hits, watchVars>>

Joined == watch \in {"watching", "off"}
StopDetached(i) ==    \* mutant: the thread is not joined
  /\ Goes(i, "locked", "write")
  /\ watch' = IF Joined THEN "off" ELSE watch
  /\ events' = {}
  /\ UNCHANGED <<diskVars, listVars, lockVars, db, at, hits, current, csWatcher>>
\* The exit event comes first: changes not yet told of are not told any more.
StopWatchDirectory(i) ==
  /\ Joined /\ Goes(i, "locked", "write")
  /\ watch' = "off" /\ events' = {}
  /\ UNCHANGED <<diskVars, listVars, lockVars, db, at, hits, current, csWatcher>>

WriteAndWatch(i) ==
  /\ Goes(i, "write", "done")
  /\ file' = [file EXCEPT ![adds[i].list] = Append(@, adds[i].line)]
  /\ stamp' = [stamp EXCEPT ![adds[i].list] = @ + 1]
  /\ watch' = "watching" /\ csWatcher' = Nobody
  /\ UNCHANGED <<edits, listVars, lockVars, db, at, hits, current, events>>

-----------------------------------------------------------------------------
(* The watcher's thread: the callback and LoadList                         *)

Notified ==
  /\ watch = "watching" /\ watch' = "probe"
  /\ \E l \in events : current' = l /\ events' = events \ {l}
  /\ UNCHANGED <<diskVars, listVars, lockVars, db, at, hits, adds, csWatcher>>

ProbeForEver ==    \* mutant: there is no kMaxRetry
  /\ \/ watch = "probe" /\ current \notin OpenFiles /\ watch' = "probing"
     \/ watch = "probing" /\ watch' = "wantDb"
  /\ UNCHANGED <<diskVars, listVars, lockVars, db, at, hits, adds, current, events, csWatcher>>
\* Tries to open the file alone, for three seconds; goes on in any case.
Probe ==
  /\ \/ watch = "probe" /\ watch' = IF current \in OpenFiles THEN "wantDb" ELSE "probing"
     \/ watch = "probing" /\ watch' = "wantDb"
  /\ UNCHANGED <<diskVars, listVars, lockVars, db, at, hits, adds, current, events, csWatcher>>

LockDatabase ==
  /\ watch = "wantDb" /\ watch' = "wantList"
  /\ db = Nobody /\ db' = Watcher
  /\ UNCHANGED <<diskVars, listVars, lockVars, at, hits, adds, current, events, csWatcher>>

LockList ==
  /\ watch = "wantList" /\ CanWrite(current) /\ watch' = "stamp"
  /\ exclusive' = [exclusive EXCEPT ![current] = TRUE]
  /\ UNCHANGED <<diskVars, listVars, readers, blocked, db, at, hits, adds, current, events,
                 csWatcher>>

LoadBlocks ==
  /\ watch = "wantList" /\ WantExclusive(current)
  /\ UNCHANGED <<diskVars, listVars, readers, exclusive, db, at, hits, adds, watchVars, csWatcher>>

Unlock ==
  /\ watch' = "watching" /\ current' = Nobody /\ db' = Nobody
  /\ exclusive' = [exclusive EXCEPT ![current] = FALSE]
  /\ blocked' = [blocked EXCEPT ![current] = FALSE]

NotAgain ==    \* a log file, or not written since
  /\ \/ watch = "stamp" /\ logFile[current]
     \/ watch = "stamp" /\ current \in OpenFiles /\ prevLastWriteTime[current] = 0
     \/ watch = "stamping" /\ prevLastWriteTime[current] = stamp[current]
  /\ Unlock
  /\ UNCHANGED <<diskVars, listVars, readers, at, hits, adds, events, csWatcher>>

GetFileLastWriteTime ==
  /\ watch = "stamp" /\ ~logFile[current] /\ current \notin OpenFiles
  /\ watch' = "stamping"
  /\ UNCHANGED <<diskVars, listVars, lockVars, db, at, hits, adds, current, events, csWatcher>>

\* A file that cannot be opened alone has the time 0.
StampFirst ==
  /\ \/ /\ watch = "stamp" /\ ~logFile[current] /\ current \in OpenFiles
        /\ prevLastWriteTime[current] # 0
        /\ prevLastWriteTime' = [prevLastWriteTime EXCEPT ![current] = 0]
     \/ /\ watch = "stamping" /\ prevLastWriteTime[current] # stamp[current]
        /\ prevLastWriteTime' = [prevLastWriteTime EXCEPT ![current] = stamp[current]]
  /\ watch' = "read"
  /\ UNCHANGED <<diskVars, memory, lineCount, logFile, unread, lockVars, db, at, hits, adds,
                 current, events, csWatcher>>

ReloadedMore(l) == memory[l] \cup Patterns(file[l])    \* mutant: Clear is not called
Reloaded(l)     == Patterns(file[l])

ReadFile ==
  /\ watch = "read" /\ Unlock
  /\ memory' = [memory EXCEPT ![current] = Reloaded(current)]
  /\ lineCount' = [lineCount EXCEPT ![current] = Count(file[current])]
  /\ logFile' = [logFile EXCEPT ![current] = IsLog(file[current])]
  /\ unread' = unread \ {current}
  /\ UNCHANGED <<diskVars, prevLastWriteTime, readers, at, hits, adds, events, csWatcher>>

\* Another program has the file: the list stays as it is, under the new time.
CannotOpen ==
  /\ watch = "read" /\ Unlock
  /\ unread' = unread \cup {current}
  /\ UNCHANGED <<diskVars, memory, lineCount, logFile, prevLastWriteTime, readers, at, hits, adds,
                 events, csWatcher>>

-----------------------------------------------------------------------------
\* Somebody edits the file of a list.
Edit(l) ==
  /\ l \notin Virtual /\ edits < MaxEdits /\ ~Exclusively(l)
  /\ \E f \in Contents : file' = [file EXCEPT ![l] = f]
  /\ stamp' = [stamp EXCEPT ![l] = @ + 1] /\ edits' = edits + 1
  /\ events' = IF watch = "off" THEN events ELSE events \cup {l}
  /\ UNCHANGED <<listVars, lockVars, db, at, hits, adds, watch, current, csWatcher>>

Match(m)  == \/ List(m) \/ Unless(m) \/ AddListLine(m) \/ AddNoMore(m)
             \/ Matched(m) \/ IncrementHitPatternCount(m) \/ FilterEnds(m)
Append1(i) == \/ OpenToAppend(i) \/ LockWatcher(i) \/ StopWatchDirectory(i) \/ WriteAndWatch(i)
Watching  == \/ Notified \/ Probe \/ LockDatabase \/ LockList \/ NotAgain
             \/ GetFileLastWriteTime \/ StampFirst \/ ReadFile \/ CannotOpen

Next == \/ Watching
        \/ LoadBlocks
        \/ \E m \in Matchers : StartFilter(m) \/ Match(m) \/ AddBlocks(m)
        \/ \E i \in DOMAIN adds : Append1(i)
        \/ \E l \in Lists : Edit(l)
Spec == Init /\ [][Next]_vars

\* Threads are scheduled; who waits for a lock that is free again and again
\* gets it.  Nobody has to begin a match.
FairSpec ==
  /\ Spec
  /\ SF_vars(Watching) /\ WF_vars(LoadBlocks)
  /\ \A m \in Matchers : SF_vars(Match(m)) /\ WF_vars(AddBlocks(m))
  /\ \A i \in 1..MaxAdds : SF_vars(i \in DOMAIN adds /\ Append1(i))

-----------------------------------------------------------------------------
WatchPcs == {"watching", "off", "probe", "probing", "wantDb", "wantList", "stamp", "stamping",
             "read"}
AddPcs   == {"new", "open", "failed", "locked", "write", "done"}

TypeOK ==
  /\ file \in [Lists -> Seq(Lines)] /\ stamp \in [Lists -> Nat] /\ edits \in Nat
  /\ memory \in [Lists -> SUBSET [pat : Lines, line : Nat]]
  /\ lineCount \in [Lists -> Nat] /\ logFile \in [Lists -> BOOLEAN]
  /\ prevLastWriteTime \in [Lists -> Nat] /\ unread \subseteq Lists
  /\ readers \in [Lists -> SUBSET Matchers]
  /\ exclusive \in [Lists -> BOOLEAN] /\ blocked \in [Lists -> BOOLEAN]
  /\ at \in [Matchers -> Seq(Steps)] /\ hits \in [Matchers -> Nat]
  /\ adds \in Seq([list : Lists, line : Lines, pc : AddPcs])
  /\ watch \in WatchPcs /\ events \subseteq Lists
  /\ current \in IF watch \in {"watching", "off"} THEN {Nobody} ELSE Lists
  /\ csWatcher \in DOMAIN adds \cup {Nobody} /\ db \in {Watcher, Nobody}

Appending == {i \in DOMAIN adds : adds[i].pc \notin {"done", "failed"}}
Quiet == watch = "watching" /\ events = {} /\ Appending = {}

\* A hit is recorded under the number of a line: no two patterns of a list have
\* the same, however loads and $ADDLST follow one another.
LinesDistinct ==
  \A l \in Lists \ Virtual : \A x, y \in memory[l] : x.line = y.line => x = y

\* While a line is being written nobody loads a list, nor does another thread
\* write: the watcher is stopped and joined first.
NeverReadsHalf ==
  \A i \in DOMAIN adds :
    adds[i].pc = "write" => /\ watch = "off"
                            /\ \A j \in DOMAIN adds \ {i} : adds[j].pc # "write"

\* A list that was loaded at the last write time has every pattern of the file;
\* without $ADDLST it is the file as soon as things are quiet.  Not so a list
\* whose file could not be opened: it is not tried again until the next edit.
MemoryIsFile ==
  \A l \in Lists \ (Virtual \cup unread) :
    /\ prevLastWriteTime[l] = stamp[l] /\ ~(watch = "read" /\ current = l) /\ ~logFile[l]
         => Patterns(file[l]) \subseteq memory[l]
    /\ Quiet /\ adds = <<>> /\ ~logFile[l] => memory[l] = Patterns(file[l])

\* Filters that keep a list locked only while they match others, each list once,
\* come to an end, whatever is loaded or appended: no threads wait for each
\* other's locks.
MatchEnds == \A m \in Matchers : at[m] # <<>> ~> at[m] = <<>>

\* A thread that appends ends, though it has to wait for the watcher's callback.
AppendsEnd == \A i \in 1..MaxAdds : i \in Appending ~> i \notin Appending

\* "If it is a valid match pattern, it is also immediately taken into account by
\* all $LST commands that use this list" (syntax.html:559).
AddedStays ==
  Quiet => \A i \in DOMAIN adds :
             /\ adds[i].pc = "done" /\ adds[i].line \notin Invalid /\ ~logFile[adds[i].list]
             /\ \E j \in DOMAIN file[adds[i].list] : file[adds[i].list][j] = adds[i].line
             => \E x \in memory[adds[i].list] : x.pat = adds[i].line
=============================================================================
