------------------------------- MODULE Matcher -------------------------------
(***************************************************************************)
(* CMatcher and its search tree: what a filter pattern matches.            *)
(*                                                                         *)
(* A pattern is the sequence of its nodes.  In the program every node is   *)
(* linked to the node on its right (setNextNode) and, when it has matched,  *)
(* asks it to go on; here the nodes still to be asked are the rest of the   *)
(* sequence.  A text is a sequence of characters; position k stands between *)
(* its characters k and k + 1, as the pointers of the program do.          *)
(*                                                                         *)
(* What a pattern remembers for the replacement (\0-\9, \#) is left out:   *)
(* the nodes that remember match what they would without.  So are $LST,    *)
(* $URL, $ASK and $TST, and an && in the left side of another.             *)
(***************************************************************************)
EXTENDS Integers, Sequences, SequencesExt

Digits == <<"0", "1", "2", "3", "4", "5", "6", "7", "8", "9">>
Quotes == {"'", "\""}
Blank == {" "}

\* U+3061 is one of the characters whose low byte is that of an ASCII letter.
Wide == "W"
LowByte(c) == IF c = Wide THEN "a" ELSE c
LowBytes == Range(Digits) \cup Quotes \cup Blank \cup {"a", "b", "-", "<", ">"}

\* The nodes.
Char(c)           == [id |-> "CHARS", set |-> {c}, allow |-> TRUE]
Chars(s)          == [id |-> "CHARS", set |-> s, allow |-> TRUE]
NotChars(s)       == [id |-> "CHARS", set |-> s, allow |-> FALSE]
AnyChar           == NotChars({})
String(s)         == [id |-> "STRING", str |-> s]
Space             == [id |-> "SPACE"]
Number(lo, hi)    == [id |-> "RANGE", lo |-> lo, hi |-> hi, allow |-> TRUE]
Star              == [id |-> "STAR"]
Or(alts)          == [id |-> "OR", alts |-> alts]
And(l, r)         == [id |-> "AND", l |-> l, r |-> r]
AndAnd(l, r)      == [id |-> "ANDAND", l |-> l, r |-> r]
Recorder          == [id |-> "RECORDER"]
Repeat(p, lo, hi) == [id |-> "REPEAT", p |-> p, lo |-> lo, hi |-> hi, iterate |-> FALSE]
RepeatLess(p, lo, hi) == [id |-> "REPEAT", p |-> p, lo |-> lo, hi |-> hi, iterate |-> TRUE]
Negate(p)         == [id |-> "NEGATE", p |-> p]
AV(p)             == [id |-> "AV", p |-> p, quoted |-> FALSE]
AVQ(p)            == [id |-> "AV", p |-> p, quoted |-> TRUE]
Nest(l, m, r)     == [id |-> "NEST", l |-> l, m |-> m, r |-> r, inest |-> FALSE]
INest(l, m, r)    == [id |-> "NEST", l |-> l, m |-> m, r |-> r, inest |-> TRUE]
Command(what)     == [id |-> "COMMAND", what |-> what]

-----------------------------------------------------------------------------
(* mayMatch: the characters a match can begin with, and whether it can      *)
(* match without consuming any.                                            *)

RECURSIVE MayMatch(_)

CharsTab(n) == IF n.allow THEN {LowByte(c) : c \in n.set}
                          ELSE LowBytes \ {LowByte(c) : c \in n.set}
BothAlways(l, r) ==     \* mutant: although one side may match nothing
  [tab |-> l.tab \cap r.tab, empty |-> l.empty /\ r.empty]
Both(l, r) ==
  [tab |-> IF l.empty \/ r.empty
           THEN (IF r.empty THEN l.tab ELSE {}) \cup (IF l.empty THEN r.tab ELSE {})
           ELSE l.tab \cap r.tab,
   empty |-> l.empty /\ r.empty]

\* Each is given its node n, the nodes behind it, and what those say.
MaySpace(next) == [tab |-> Blank \cup next.tab, empty |-> next.empty]
MayRange == [tab |-> Range(Digits) \cup Quotes \cup {"-"}, empty |-> FALSE]
MayStar(rest, next) == [tab |-> LowBytes, empty |-> rest = <<>> \/ next.empty]
MayOr(n, rest) ==
  LET each == {MayMatch(n.alts[a] \o rest) : a \in DOMAIN n.alts}
  IN [tab |-> UNION {m.tab : m \in each}, empty |-> \E m \in each : m.empty]
MayAnd(n, rest) == Both(MayMatch(n.l \o rest), MayMatch(n.r \o rest))
MayAndAnd(n, rest) == Both(MayMatch(n.l \o <<Recorder>> \o rest), MayMatch(n.r))
MayRepeat(n, next) ==
  LET m == MayMatch(n.p)
  IN IF m.empty /\ n.lo > 0 THEN [tab |-> m.tab, empty |-> FALSE]
     ELSE [tab |-> m.tab \cup next.tab, empty |-> next.empty]
MayAV(n) == LET m == MayMatch(n.p) IN [tab |-> Quotes \cup m.tab, empty |-> m.empty]
\* b is asked only if a may match nothing.
Chain(a, b) == [tab |-> a.tab \cup (IF a.empty THEN b.tab ELSE {}), empty |-> a.empty /\ b.empty]
MayNest(n, rest) ==
  IF n.inest THEN Chain(MayMatch(n.m), MayMatch(rest))
  ELSE Chain(MayMatch(n.l), Chain(MayMatch(n.m), Chain(MayMatch(n.r), MayMatch(rest))))

MayMatch(p) ==
  IF p = <<>> THEN [tab |-> {}, empty |-> TRUE]
  ELSE
  LET n == Head(p)
      rest == Tail(p)
      next == MayMatch(rest)
  IN CASE n.id = "CHARS"  -> [tab |-> CharsTab(n), empty |-> FALSE]
       [] n.id = "STRING" -> [tab |-> {LowByte(n.str[1])}, empty |-> FALSE]
       [] n.id = "SPACE"  -> MaySpace(next)
       [] n.id = "RANGE"  -> MayRange
       [] n.id = "STAR"   -> MayStar(rest, next)
       [] n.id = "OR"     -> MayOr(n, rest)
       [] n.id = "AND"    -> MayAnd(n, rest)
       [] n.id = "ANDAND" -> MayAndAnd(n, rest)
       [] n.id = "REPEAT" -> MayRepeat(n, next)
       [] n.id = "AV"     -> MayAV(n)
       [] n.id = "NEST"   -> MayNest(n, rest)
       [] OTHER           -> next        \* RECORDER, NEGATE, COMMAND

\* CMatcher::mayMatch
Table(m) == IF m.empty THEN LowBytes ELSE m.tab
OkayChars(p) == Table(MayMatch(p))

-----------------------------------------------------------------------------
(* match: the end of the match, or Fail; the farthest position scanned as   *)
(* far as the nodes report it (MatchData::reached); the commands executed,  *)
(* whether or not the match succeeds; and what the recorder of && holds.   *)

Fail == -1
Later(k, h) == IF k < h THEN h ELSE k
Sooner(k, h) == IF h < k THEN h ELSE k
Nothing == [at |-> 0, end |-> Fail]

Ended(k) == [end |-> k, reached |-> 0, did |-> {}, left |-> Nothing]
Failed == Ended(Fail)
FailedAt(k) == [Failed EXCEPT !.reached = k]
OK(r) == r.end # Fail

UpdateReached(r, k) == [r EXCEPT !.reached = Later(@, k)]

\* s has been asked after r, and it is s that decides.
After(r, s) ==
  [end |-> s.end, reached |-> Later(r.reached, s.reached), did |-> r.did \cup s.did,
   left |-> IF s.left.end > r.left.end THEN s.left ELSE r.left]

Skip(t, i, j, set) ==         \* the first position from i whose character is not in set
  CHOOSE k \in i..Later(i, j) : /\ \A h \in (i + 1)..k : t[h] \in set
                                /\ k >= j \/ t[k + 1] \notin set
Find(t, i, j, set) == CHOOSE k \in i..Later(i, j) : /\ \A h \in (i + 1)..k : t[h] \notin set
                                                    /\ k >= j \/ t[k + 1] \in set

CharAt(t, i, j, set) == i < j /\ t[i + 1] \in set
Common(t, i, j, s) == CHOOSE k \in 0..Len(s) : /\ i + k <= Later(i, j)
                                               /\ \A h \in 1..k : t[i + h] = s[h]
                                               /\ k = Len(s) \/ i + k >= j \/ t[i + k + 1] # s[k + 1]
Value(t, i, k) == FoldLeft(LAMBDA v, c : 10 * v + (CHOOSE d \in 1..10 : Digits[d] = c) - 1,
                           0, SubSeq(t, i + 1, k))

RECURSIVE Match(_, _, _, _), Alternatives(_, _, _, _, _), Stars(_, _, _, _),
          Repeated(_, _, _, _, _, _, _), Levels(_, _, _, _, _, _)

\* The alternatives of an Or, one after the other.
Alternatives(t, alts, rest, i, j) ==
  IF alts = <<>> THEN Failed
  ELSE LET r == Match(t, Head(alts) \o rest, i, j)
       IN IF OK(r) THEN r ELSE After(r, Alternatives(t, Tail(alts), rest, i, j))

\* The positions a * may end at, one after the other, but for the last.
StarsShort(t, rest, k, j) ==   \* mutant: one position too few
  LET r == Match(t, rest, k, j)
  IN IF OK(r) THEN UpdateReached(r, k)
     ELSE IF k + 2 < j THEN After(r, Stars(t, rest, k + 1, j))
          ELSE UpdateReached(r, j)
Stars(t, rest, k, j) ==
  LET r == Match(t, rest, k, j)
  IN IF OK(r) THEN UpdateReached(r, k)
     ELSE IF k + 1 < j THEN After(r, Stars(t, rest, k + 1, j))
          ELSE UpdateReached(r, j)

\* The loop of CNode_Repeat: count times matched, to position i.  "seen" is what
\* has been asked before, "checked" that the next node has been asked at i.
Repeated(t, n, rest, i, j, count, seen) ==
  LET ask  == n.iterate /\ rest # <<>> /\ count >= n.lo
      next == Match(t, rest, i, j)
      one  == Match(t, n.p, i, j)
      so   == IF ask THEN After(seen, next) ELSE seen
      full == count >= n.hi
  IN IF full THEN After(seen, next)
     ELSE IF ask /\ OK(next) THEN so
     ELSE IF ~OK(one)
          THEN IF count < n.lo \/ ask THEN After(After(so, one), Failed)
                                      ELSE After(After(so, one), next)
     ELSE IF one.end = i THEN After(After(so, one), next)
     ELSE Repeated(t, n, rest, one.end, j, count + 1, After(so, one))

\* The scan of CNode_Nest for the tag that closes level 1.
Tag(t, p, k, j) == IF k < j /\ LowByte(t[k + 1]) \in OkayChars(p) THEN Match(t, p, k, j) ELSE Failed
Levels(t, n, k, right, j, s) ==
  LET r == Tag(t, n.r, k, j)
      l == Tag(t, n.l, k, j)
  IN IF k >= j \/ s.level = 0 THEN [s EXCEPT !.at = k, !.right = right]
     ELSE IF r.end > k
          THEN Levels(t, n, r.end, k, j, [s EXCEPT !.level = @ - 1, !.seen = After(@, r)])
     ELSE IF l.end > k
          THEN Levels(t, n, l.end, right, j,
                      [s EXCEPT !.level = @ + 1, !.seen = After(After(@, r), l)])
     ELSE Levels(t, n, k + 1, right, j, [s EXCEPT !.seen = After(After(@, r), l)])

\* The digits stand from k1 to k2; a quote in front must be closed behind them.
RangeBehind(t, n, rest, i, j, quote, minus, k1, k2) ==
  LET num == (IF minus THEN -1 ELSE 1) * Value(t, k1, k2)
      k3 == IF quote THEN k2 + 1 ELSE k2
  IN IF k1 = k2 THEN FailedAt(k1)
     ELSE IF quote /\ ~CharAt(t, k2, j, {t[i + 1]}) THEN Failed
     ELSE IF (n.lo <= num /\ num <= n.hi) # n.allow THEN Failed
     ELSE UpdateReached(Match(t, rest, k3, j), k3)
MatchRange(t, n, rest, i, j) ==
  LET quote == CharAt(t, i, j, Quotes)
      minus == CharAt(t, IF quote THEN i + 1 ELSE i, j, {"-"})
      k1 == i + (IF quote THEN 1 ELSE 0) + (IF minus THEN 1 ELSE 0)
  IN RangeBehind(t, n, rest, i, j, quote, minus, k1, Skip(t, k1, j, Range(Digits)))

MatchAV(t, n, rest, i, j) ==
  LET quote == CharAt(t, i, j, Quotes)
      close == Find(t, i + 1, j, {t[i + 1]})
      begin == IF quote /\ ~n.quoted THEN i + 1 ELSE i
      end == IF quote THEN IF n.quoted /\ close < j THEN close + 1 ELSE close
                      ELSE Find(t, i, j, Blank \cup {">"})
      after == IF quote /\ ~n.quoted /\ close < j THEN end + 1 ELSE end
      inner == Match(t, n.p, begin, end)
  IN IF i < j /\ ~quote /\ end = i THEN Failed
     ELSE IF inner.end # end THEN After(inner, Failed)
     ELSE After(inner, UpdateReached(Match(t, rest, after, j), after))

\* Behind the opening tag, at endL: s is what the scan for the closing one says.
NestInner(t, n, rest, endL, j, s) ==
  LET inner == Match(t, n.m, endL, s.right)
      seen == IF n.m = <<>> THEN s.seen ELSE After(s.seen, inner)
  IN IF s.level > 0 THEN After(s.seen, FailedAt(s.at))
     ELSE IF n.m # <<>> /\ inner.end # s.right THEN After(seen, Failed)
     ELSE After(seen, Match(t, rest, IF n.inest THEN s.right ELSE s.at, j))
NestBehind(t, n, rest, endL, j, l) ==
  NestInner(t, n, rest, endL, j,
            Levels(t, n, endL, endL, j, [at |-> endL, right |-> endL, level |-> 1, seen |-> l]))

\* The character at i is looked at even if it is the stop.  What stands behind the
\* text decides nothing: a left side that is not empty fails there in any case.
MatchNest(t, n, rest, i, j) ==
  LET l == Match(t, n.l, i, j)
  IN IF n.inest THEN NestBehind(t, n, rest, i, j, Failed)
     ELSE IF i < Len(t) /\ LowByte(t[i + 1]) \notin OkayChars(n.l) THEN Failed
     ELSE IF ~OK(l) THEN l
     ELSE NestBehind(t, n, rest, l.end, j, l)

MatchChars(t, n, rest, i, j) ==
  IF i < j /\ ((t[i + 1] \in n.set) = n.allow)
  THEN UpdateReached(Match(t, rest, i + 1, j), i + 1) ELSE Failed

MatchString(t, n, rest, i, j) ==
  LET k == Common(t, i, j, n.str)
  IN IF k < Len(n.str) THEN FailedAt(i + k) ELSE UpdateReached(Match(t, rest, i + k, j), i + k)

MatchSpace(t, rest, i, j) ==
  LET k == Skip(t, i, j, Blank) IN UpdateReached(Match(t, rest, k, j), k)

\* Everything first, if what follows may match nothing.
MatchStar(t, rest, i, j) ==
  LET all == IF rest = <<>> THEN Ended(j) ELSE Match(t, rest, j, j)
      first == rest = <<>> \/ MayMatch(rest).empty
  IN IF first /\ OK(all) THEN UpdateReached([all EXCEPT !.end = j], j)
     ELSE IF first THEN After(all, Stars(t, rest, i, j)) ELSE Stars(t, rest, i, j)

MatchAnd(t, n, rest, i, j) ==
  LET l == Match(t, n.l \o rest, i, j)
      r == Match(t, n.r \o rest, i, j)
  IN IF ~OK(l) THEN l
     ELSE IF ~OK(r) THEN After(l, r)
     ELSE [After(l, r) EXCEPT !.end = Later(l.end, r.end)]

\* The right side must match exactly what the left side has, says the recorder.
MatchAndAnd(t, n, rest, i, j) ==
  LET l == Match(t, n.l \o <<Recorder>> \o rest, i, j)
      r == Match(t, n.r, i, l.left.at)
      s == IF OK(l) THEN After(l, r) ELSE l
  IN [s EXCEPT !.left = Nothing,
               !.end = IF OK(l) /\ r.end = l.left.at THEN l.left.end ELSE Fail]
MatchRecorder(t, rest, i, j) ==
  LET r == Match(t, rest, i, j) IN IF OK(r) THEN [r EXCEPT !.left = [at |-> i, end |-> r.end]] ELSE r

MatchNegate(t, n, rest, i, j) ==
  LET r == Match(t, n.p, i, j) IN After(r, IF OK(r) THEN Failed ELSE Match(t, rest, i, j))

Match(t, p, i, j) ==
  IF p = <<>> THEN Ended(i)
  ELSE
  LET n == Head(p)
      rest == Tail(p)
  IN CASE n.id = "CHARS"    -> MatchChars(t, n, rest, i, j)
       [] n.id = "STRING"   -> MatchString(t, n, rest, i, j)
       [] n.id = "SPACE"    -> MatchSpace(t, rest, i, j)
       [] n.id = "RANGE"    -> MatchRange(t, n, rest, i, j)
       [] n.id = "STAR"     -> MatchStar(t, rest, i, j)
       [] n.id = "OR"       -> Alternatives(t, n.alts, rest, i, j)
       [] n.id = "AND"      -> MatchAnd(t, n, rest, i, j)
       [] n.id = "ANDAND"   -> MatchAndAnd(t, n, rest, i, j)
       [] n.id = "RECORDER" -> MatchRecorder(t, rest, i, j)
       [] n.id = "REPEAT"   -> Repeated(t, n, rest, i, j, 0, Failed)
       [] n.id = "NEGATE"   -> MatchNegate(t, n, rest, i, j)
       [] n.id = "AV"       -> MatchAV(t, n, rest, i, j)
       [] n.id = "NEST"     -> MatchNest(t, n, rest, i, j)
       [] n.id = "COMMAND"  -> [Match(t, rest, i, j) EXCEPT !.did = @ \cup {n.what}]

\* CMatcher::match begins with reached = start.
CMatcherMatch(t, p, i, j) == UpdateReached(Match(t, p, i, j), i)
=============================================================================
