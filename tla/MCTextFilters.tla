---------------------------- MODULE MCTextFilters ----------------------------
\* Bodies of a few characters and filters of every kind, in an encoding of two
\* bytes for what is not ASCII or in JIS; and what the documentation makes of a
\* filter and of a list of filters, to compare with.
EXTENDS TextFilters, Matcher

-----------------------------------------------------------------------------
(* Encodings.                                                              *)

WideBytes(enc) == IF enc = "jis" THEN <<"ESC", "$", "B", "j1", "j2", "ESC", "(", "B">>
                                 ELSE <<"lead", "trail">>
MCEncode(enc, t) == FlattenSeq([k \in DOMAIN t |-> IF t[k] = Wide THEN WideBytes(enc) ELSE <<t[k]>>])
MCDecode(enc, b) ==
  LET w == Len(WideBytes(enc))
      f[n \in 1..(Len(b) + w)] ==
        CASE n > Len(b) -> <<>>
          [] n + w - 1 <= Len(b) /\ SubSeq(b, n, n + w - 1) = WideBytes(enc) -> <<Wide>> \o f[n + w]
          [] OTHER -> <<IF b[n] \in {"ESC", "$", "lead", "trail"} THEN Broken ELSE b[n]>> \o f[n + 1]
  IN f[1]
\* The second byte of a Shift-JIS character may look like ASCII.
MCASCII(enc, b) == b # "lead" /\ (b = "trail" => enc = "sjis")

MCMatchAt(t, p, i, j) == CMatcherMatch(t, p, i, j)
MCOkay(p) == OkayChars(p)
MCLowByteOf(c) == LowByte(c)

-----------------------------------------------------------------------------
(* Filters and bodies.                                                     *)

A == Char("a")
B == Char("b")
AA == String(<<"a", "a">>)
AB == String(<<"a", "b">>)

Simple(p) == [special |-> "no", pattern |-> p, bounds |-> <<>>, width |-> 9, multi |-> FALSE,
              repl |-> <<"1">>, off |-> FALSE]
Bounded(b, p) == [Simple(p) EXCEPT !.bounds = b]
Narrow(p, w) == [Simple(p) EXCEPT !.width = w]
Multi(f, r) == [f EXCEPT !.multi = TRUE, !.repl = r]
Special(what) == [Simple(<<A>>) EXCEPT !.special = what, !.repl = <<"2">>]
Put(f, r) == [f EXCEPT !.repl = r]
Off(f) == [f EXCEPT !.off = TRUE]

Bodies(chars, n) == UNION {[1..k -> chars] : k \in 0..n}
With(bodies, filters, encs, binary, bypass, coded) ==
  [body : bodies, filters : filters, enc : encs, binary : binary, bypass : bypass, coded : coded]
Plain(bodies, filters) == With(bodies, filters, {"utf8"}, {FALSE}, {FALSE}, {FALSE})
Coded(bodies, filters, encs) == With(bodies, filters, encs, {FALSE}, {FALSE}, {TRUE})
Each(patterns) == {<<Simple(p)>> : p \in patterns}

Letters == Bodies({"a", "b"}, 4)
Runs == {
  <<AB>>, <<A, AnyChar, B>>, <<A, Star, B>>, <<A, Star>>, <<Star, AB>>,
  <<Or(<<<<AB, A>>, <<A, A>>>>), B>>, <<NotChars({"b"}), B>>,
  <<Repeat(<<A>>, 1, 2), B>>, <<RepeatLess(<<A>>, 0, 9), AB>>, <<Repeat(<<A>>, 0, 9), AB>>,
  <<And(<<Star, AB>>, <<A, AnyChar>>)>>, <<And(<<Repeat(<<A>>, 0, 1)>>, <<B>>)>>, <<And(<<A>>, <<AA>>), B>>,
  <<AndAnd(<<A, Star, B>>, <<AnyChar, AnyChar, AnyChar>>)>>,
  <<Negate(<<AB>>), A>>, <<A, Negate(<<AnyChar>>)>>, <<Negate(<<A>>)>> }
Few == {<<AB>>, <<A, Star, B>>, <<Repeat(<<A>>, 1, 2), B>>, <<B, Negate(<<A>>)>>, <<Negate(<<A>>)>>}
Values == {
  <<A, AV(<<Star>>)>>, <<A, AV(<<String(<<"a">>), Star>>), A>>, <<A, AVQ(<<Star, A, Star>>)>>,
  <<AV(<<Repeat(<<A>>, 0, 9)>>), Space, A>>, <<A, Space, AV(<<Negate(<<AA>>), Star>>)>> }
Tags == {
  <<Nest(<<Char("<")>>, <<>>, <<Char(">")>>)>>, <<Nest(<<Char("<")>>, <<Star, A>>, <<Char(">")>>), A>>,
  <<Char("<"), INest(<<Char("<")>>, <<Star, A, Star>>, <<Char(">")>>), Char(">")>> }
Commanding == {
  <<A, Command("STOP"), B>>, <<A, Command("KILL"), B>>, <<AB, Command("KILL")>>, <<Command("STOP"), AB>> }
WidePatterns == {<<AB>>, <<Char(Wide), Star, A>>, <<A, AnyChar, B>>, <<AnyChar, A>>}

Two == {<<Simple(p), Put(Simple(q), <<"2">>)>> : p \in Few, q \in Few}
Inserting == {<<Multi(Simple(p), r), Put(Simple(q), <<"2">>)>> :
                p \in Few \ {<<Negate(<<A>>)>>}, q \in Few, r \in {<<"a">>, <<>>}}
Specials == {<<Special("start"), Off(Simple(q)), Simple(p), Special("end")>> : p \in Few, q \in Few}
Within == {<<Bounded(b, p)>> : b \in Few, p \in Few}
Windows == {<<Narrow(p, w)>> : p \in Few, w \in 1..3}

MCCases == UNION {
  Plain(Letters, UNION {Each(Runs), Two, Inserting, Specials, Within, Windows}),
  Plain(Bodies({"a", "b"}, 3), {<<Simple(p), Put(Simple(<<AB>>), <<"2">>)>> : p \in Commanding}),
  Plain(Bodies({"a", "'", " "}, 4), Each(Values)),
  Plain(Bodies({"a", "<", ">"}, 4), Each(Tags)),
  With(Bodies({"a", "b", Wide}, 3), Each(WidePatterns), {"utf8", "sjis", "jis"}, {FALSE}, {FALSE},
       {FALSE}),
  Coded(Bodies({"a", "b", Wide}, 3), Each({<<AB>>, <<Char(Wide), Star, A>>}), {"utf8", "jis"}),
  Coded(Bodies({"a", "b"}, 3), UNION {Two, Inserting}, {"utf8"}),
  With(Bodies({"a", Wide}, 2), Each({<<A>>}), {"utf8"}, BOOLEAN, BOOLEAN, BOOLEAN) }

MCPatterns == UNION {Runs, Few, Values, Tags, Commanding, WidePatterns, {<<A>>}}
MCAlphabet == {"a", "b", "1", "2", "W", " ", "<", ">", "'"}

\* What the theorem about the filters asks of a matcher: its matches end between
\* their start and the position they may go to.
ASSUME MatchesEndWithin ==
  \A group \in {<<Bodies({"a", "b"}, 3), Runs \cup Few \cup Commanding>>,
                <<Bodies({"a", "'", " "}, 3), Values>>, <<Bodies({"a", "<", ">"}, 3), Tags>>} :
    \A t \in group[1], p \in group[2] : \A i \in 0..Len(t) : \A j \in i..Len(t) :
      MCMatchAt(t, p, i, j).end \in {Fail} \cup (i..j)

-----------------------------------------------------------------------------
(* What a pattern means: the positions a match from i may end at.           *)

RECURSIVE Ends(_, _, _, _)
Ends(t, p, i, j) ==
  IF p = <<>> THEN {i}
  ELSE
  LET n == Head(p)
      rest == Tail(p)
      Go(S) == UNION {Ends(t, rest, k, j) : k \in S}
      step(S) == UNION {Ends(t, n.p, k, j) : k \in S}
      times[m \in 0..(Len(t) + 1)] == IF m = 0 THEN {i} ELSE step(times[m - 1])
  IN CASE n.id = "CHARS" -> IF i < j /\ ((t[i + 1] \in n.set) = n.allow) THEN Go({i + 1}) ELSE {}
       [] n.id = "STRING" -> Go({k \in i..j : SubSeq(t, i + 1, k) = n.str})
       [] n.id = "STAR" -> Go(i..j)
       [] n.id = "OR" -> UNION {Ends(t, n.alts[a] \o rest, i, j) : a \in DOMAIN n.alts}
       [] n.id = "AND" -> {Later(x, y) : x \in Ends(t, n.l \o rest, i, j), y \in Ends(t, n.r \o rest, i, j)}
       [] n.id = "ANDAND" -> Go({k \in Ends(t, n.l, i, j) : k \in Ends(t, n.r, i, k)})
       [] n.id = "REPEAT" -> Go(UNION {times[m] : m \in n.lo..Sooner(n.hi, Len(t) + 1)})
       [] n.id = "NEGATE" -> IF Ends(t, n.p, i, j) = {} THEN Go({i}) ELSE {}
       [] OTHER -> {}

\* "+ is blind"; && takes the first match of its left side.
Blind(p) == \E k \in DOMAIN p : p[k].id = "ANDAND" \/ (p[k].id = "REPEAT" /\ ~p[k].iterate)
FirstState == fed = 0 /\ ~decided
Asked == {fs[k] : k \in {k \in DOMAIN fs : fs[k].special = "no"}}

\* A pattern matches only what it means, and whatever it means unless it is
\* blind ("+ consumes as much text as is possible, never less"), through all the
\* chained calls and the attempts that * makes.
MatchMeans ==
  FirstState =>
    \A f \in Asked, i \in 0..Len(case.body) :
      f.pattern \in Runs \cup Few =>
        LET r == CMatcherMatch(case.body, f.pattern, i, Len(case.body))
            ends == Ends(case.body, f.pattern, i, Len(case.body))
        IN /\ r.end = Fail \/ r.end \in ends
           /\ (r.end = Fail /\ ~Blind(f.pattern)) => ends = {}

\* "If !tab[text[start]] the engine knows there cannot be any match at start".
NoStartMissed ==
  FirstState =>
    \A f \in Asked : \A i \in 0..(Len(case.body) - 1) :
      CMatcherMatch(case.body, f.pattern, i, Len(case.body)).end # Fail
        => LowByte(case.body[i + 1]) \in OkayChars(f.pattern)

\* A bounds pattern works "as if you used as a match pattern (bounds)&&(match)",
\* though two matchers run, one after the other.
BoundsAsAndAnd ==
  FirstState =>
    \A f \in Asked, i \in 0..Len(case.body) :
      f.bounds # <<>> =>
        LET two == FilterMatch(f, case.body, TRUE, i)
            one == FilterMatch(Simple(<<AndAnd(f.bounds, f.pattern)>>), case.body, TRUE, i)
        IN two.ret = one.ret /\ two.end = one.end

-----------------------------------------------------------------------------
(* What a list of filters makes of a text that is there as a whole: from     *)
(* position i with filter k next, some of them bypassed.                    *)

RECURSIVE Whole(_, _, _, _)
Whole(t, i, k, off) ==
  LET f == fs[k]
      r == FilterMatch(f, t, TRUE, i)
      off2 == IF "STOP" \in r.did THEN off \cup {k} ELSE off
      behind == SubSeq(t, r.end + 1, Len(t))
  IN CASE k > Len(fs) /\ i = Len(t) -> <<>>
       [] k > Len(fs) /\ i < Len(t) -> <<t[i + 1]>> \o Whole(t, i + 1, 1, off)
       [] k \in off \/ (k <= Len(fs) /\ r.ret = 0) -> Whole(t, i, k + 1, off2)
       [] k \notin off /\ k <= Len(fs) /\ r.ret = 1 ->
            IF f.multi THEN Whole(f.repl \o behind, 0, k + 1, off2)
            ELSE f.repl \o Whole(t, r.end, IF r.end = i THEN k + 1 ELSE 1, off2)

Filtered == IF case.bypass \/ case.binary THEN Body
            ELSE Encode(case.enc, Whole(case.body, 0, 1, {k \in DOMAIN fs : fs[k].off}))

\* A command is executed also by an attempt that then waits for more: these
\* filters do depend on how the body is cut (see the README).
Commanded == \E k \in DOMAIN fs : fs[k].pattern \in Commanding

\* The browser gets what the filters make of the whole body, however the network
\* has cut it: the waiting, the resumption "same filter, same position", the
\* bytes kept back, the characters cut in half, the pieces that decompress to
\* nothing and the table of first characters change nothing.  And nothing is sent
\* that what arrives later could change.  (But where ConvertAnyway has lost
\* bytes, see the README.)
BodyFiltered ==
  ~Commanded /\ ~lost => /\ pc = "over" => out = Filtered
                         /\ IsPrefix(out, Filtered)
=============================================================================
