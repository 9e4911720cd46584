----------------------------- MODULE TextFilters -----------------------------
(***************************************************************************)
(* CTextBuffer and CTextFilter: the text filters of one body.              *)
(*                                                                         *)
(* The body arrives in pieces that the network cuts anywhere (DataFeed),   *)
(* and ends with DataDump.  The buffer waits until the character set can   *)
(* be told, decodes what ends with a whole character, and tries every      *)
(* filter at every position; a filter that could match differently if more *)
(* arrived makes everything wait: "when more data arrives, same filter,    *)
(* same position".                                                         *)
(*                                                                         *)
(* How a pattern matches and how bytes become characters are parameters;   *)
(* MCTextFilters gives them the search tree of Matcher and two encodings.  *)
(***************************************************************************)
EXTENDS Integers, Sequences

CONSTANTS
  Cases,        \* what may be filtered: [body, filters, enc, binary, bypass, coded]
  Patterns,     \* the patterns filters may have
  Alphabet,     \* the characters a text may have
  MatchAt(_, _, _, _), \* CMatcher::match of a text, a pattern, start and stop
  Okay(_),      \* CMatcher::mayMatch: the low bytes a match may begin with
  LowByteOf(_), \* what that table is indexed with
  Encode(_, _), \* the converter of an encoding: bytes of a text
  Decode(_, _), \* and back; half a character becomes Broken
  ASCII(_, _),  \* is this byte, of this encoding, between 1 and 0x7E?
  Broken,
  DetectSize,   \* kMaxBufferForCharaCodeSearch
  MaxDecrement  \* kMaxDecriment of _findEndPoint

Filters == [special : {"no", "start", "end"}, pattern : Patterns, bounds : Patterns \cup {<<>>},
            width : Nat, multi : BOOLEAN, repl : Seq(Alphabet), off : BOOLEAN]
Commands == {"STOP", "KILL"}

ASSUME CasesOK ==
  Cases \subseteq [body : Seq(Alphabet), filters : Seq(Filters),
                   enc : {"utf8", "sjis", "jis"}, binary : BOOLEAN, bypass : BOOLEAN,
                   coded : BOOLEAN]

VARIABLES
  case,       \* the case: the body, the filters and the settings
  fed,        \* bytes of the body fed so far
  empty,      \* the last piece was empty
  lost,       \* bytes were cleared that are nowhere else (history)
  pc,         \* "feed", "filter" or "over"
  buffer,     \* m_buffer: bytes
  tail,       \* m_tailBuffer: bytes after the last whole character
  decided,    \* m_bCharaCodeDectated
  dump,       \* m_bDataDump, and isComplete of the filters
  uni,        \* m_unicodeBuffer
  index, done, cur,   \* where the filters are: position, text sent, m_currentFilter
  bypassed,   \* filters that are bypassed
  killed,     \* m_owner.killed, set by a filter
  out         \* what m_output was fed: bytes

inVars == <<case, fed, empty, lost, buffer, tail, decided, dump>>
atVars == <<index, done, cur>>
vars == <<inVars, pc, uni, atVars, bypassed, killed, out>>

fs == case.filters
Body == Encode(case.enc, case.body)
Piece(from, to) == Encode(case.enc, SubSeq(uni, from + 1, to))

-----------------------------------------------------------------------------
\* _findEndPoint: how many bytes of b are decoded now, or -1.  It looks at no
\* more than MaxDecrement bytes, and never at the first one.
EndPointAll(b) == Len(b)       \* mutant: all of them
EndPoint(b) ==
  LET seen == {k \in 2..Len(b) : k > Len(b) - MaxDecrement}
      ends == IF case.enc = "jis"
              THEN {k + 2 : k \in {h \in seen : h + 2 <= Len(b)
                                     /\ SubSeq(b, h, h + 2) = <<"ESC", "(", "B">>}}
              ELSE {k \in seen : ASCII(case.enc, b[k])}
  IN IF ends = {} THEN -1 ELSE CHOOSE k \in ends : \A h \in ends : h <= k

\* The character a filter is worth trying at (okayChars).
OkayAt(f, c) ==
  \/ f.special = "start"
  \/ /\ f.special = "no"
     /\ LowByteOf(c) \in Okay(f.pattern)
     /\ f.bounds # <<>> => LowByteOf(c) \in Okay(f.bounds)

\* What was scanned to the end of an incomplete text might go on differently.
MayGoOnNever(r, t, complete) == FALSE   \* mutant: the text is taken to be complete
MayGoOn(r, t, complete) == r.reached = Len(t) /\ ~complete

Outcome(ret, end, did) == [ret |-> ret, end |-> end, did |-> did]

\* CTextFilter::match of the whole pattern, or of the pattern within its bounds.
PatternSays(f, t, complete, stop, did, r) ==
  IF MayGoOn(r, t, complete) THEN Outcome(-1, 0, did \cup r.did)
  ELSE IF r.end # -1 /\ (f.bounds # <<>> => r.end = stop) THEN Outcome(1, r.end, did \cup r.did)
  ELSE Outcome(0, 0, did \cup r.did)
PatternMatch(f, t, complete, i, stop, did) ==
  PatternSays(f, t, complete, stop, did, MatchAt(t, f.pattern, i, stop))

BoundsSayLoose(f, t, complete, i, b) ==   \* mutant: the match may end before the bounds
  IF MayGoOn(b, t, complete) THEN Outcome(-1, 0, b.did)
  ELSE IF b.end = -1 THEN Outcome(0, 0, b.did)
  ELSE PatternMatch([f EXCEPT !.bounds = <<>>], t, complete, i, b.end, b.did)
BoundsSay(f, t, complete, i, b) ==
  IF MayGoOn(b, t, complete) THEN Outcome(-1, 0, b.did)
  ELSE IF b.end = -1 THEN Outcome(0, 0, b.did)
  ELSE PatternMatch(f, t, complete, i, b.end, b.did)
BoundedMatch(f, t, complete, i, stop) ==
  BoundsSay(f, t, complete, i, MatchAt(t, f.bounds, i, stop))

FilterMatch(f, t, complete, i) ==
  LET stop == IF i + f.width < Len(t) THEN i + f.width ELSE Len(t)
  IN IF f.special = "start"    THEN Outcome(1, i, {"STOP"})
     ELSE IF f.special = "end" THEN IF complete /\ i = Len(t) THEN Outcome(1, i, {"STOP"})
                                                              ELSE Outcome(0, 0, {})
     ELSE IF f.bounds # <<>>   THEN BoundedMatch(f, t, complete, i, stop)
     ELSE PatternMatch(f, t, complete, i, stop, {})

-----------------------------------------------------------------------------
\* DataReset.  A filter is off when the URL is not for it.
Init ==
  /\ case \in Cases
  /\ fed = 0 /\ empty = FALSE /\ lost = FALSE /\ pc = "feed"
  /\ buffer = <<>> /\ tail = <<>> /\ decided = FALSE /\ dump = FALSE
  /\ uni = <<>> /\ index = 0 /\ done = 0 /\ cur = 1
  /\ bypassed = {k \in DOMAIN fs : fs[k].off}
  /\ killed = FALSE /\ out = <<>>

\* DataFeed, up to the filters.
WaitWith(b) == /\ buffer' = b /\ tail' = <<>>
               /\ UNCHANGED <<uni, atVars, pc, out, lost>>
PassOn(b, last) == /\ out' = out \o b /\ buffer' = <<>>
                   /\ pc' = IF last THEN "over" ELSE "feed"
                   /\ UNCHANGED <<tail, uni, atVars, lost>>
Convert(b, k) == /\ uni' = uni \o Decode(case.enc, SubSeq(b, 1, k))
                 /\ index' = 0 /\ done' = 0 /\ pc' = "filter"
                 /\ UNCHANGED <<cur, out>>
ConvertTo(b, k) == /\ Convert(b, k)
                   /\ tail' = SubSeq(b, k + 1, Len(b)) /\ buffer' = <<>>
                   /\ UNCHANGED lost

\* An empty piece does not wait for an end point: what is before the bytes that
\* _findEndPoint looked at is converted, and they are not kept.
ConvertAnyway(b) ==
  LET k == Len(b) - 1 - MaxDecrement
  IN /\ Convert(b, IF k > 0 THEN k ELSE 0)
     /\ tail' = <<>> /\ buffer' = IF k > 0 THEN <<>> ELSE b
     /\ lost' = (lost \/ k > 0)

Receive(bytes, last) ==
  LET b == buffer \o (IF decided THEN tail ELSE <<>>) \o bytes
  IN /\ pc = "feed"
     /\ dump' = last
     /\ decided' = (decided \/ Len(b) >= DetectSize \/ last)
     /\ CASE ~decided'                    -> WaitWith(b)
          [] decided' /\ case.binary      -> PassOn(b, last)
          [] OTHER -> IF last THEN ConvertTo(b, Len(b))
                      ELSE IF EndPoint(b) # -1 THEN ConvertTo(b, EndPoint(b))
                      ELSE IF bytes # <<>> THEN WaitWith(b) ELSE ConvertAnyway(b)
     /\ UNCHANGED <<case, bypassed, killed>>

\* The decompressor of a coded body may have nothing yet, or nothing more.
\* Bound: there are no two empty pieces in a row.
DataFeed ==
  \E n \in 0..(Len(Body) - fed) :
    /\ n = 0 => case.coded /\ ~empty
    /\ Receive(SubSeq(Body, fed + 1, fed + n), FALSE)
    /\ fed' = fed + n /\ empty' = (n = 0)
DataDump ==
  /\ fed = Len(Body)
  /\ Receive(<<>>, TRUE)
  /\ UNCHANGED <<fed, empty>>

-----------------------------------------------------------------------------
(* The two loops of DataFeed: the filter cur at the position index.        *)

Filtering == pc = "filter" /\ ~case.bypass
Worth == cur \notin bypassed /\ (index < Len(uni) => OkayAt(fs[cur], uni[index + 1]))

SkipFilter ==
  /\ Filtering /\ cur <= Len(fs) /\ ~Worth
  /\ cur' = cur + 1
  /\ UNCHANGED <<inVars, pc, uni, index, done, bypassed, killed, out>>

\* The filter is tried: its result r, and what its commands do.
Tries(r) ==
  /\ Filtering /\ cur <= Len(fs) /\ Worth
  /\ bypassed' = IF "STOP" \in r.did THEN bypassed \cup {cur} ELSE bypassed
  /\ killed' = (killed \/ "KILL" \in r.did)
  /\ UNCHANGED inVars
Result == FilterMatch(fs[cur], uni, dump, index)

\* "No more processing."
Over == pc' = "over" /\ uni' = <<>> /\ index' = 0 /\ done' = 0 /\ UNCHANGED cur

NeedsMoreForgets ==      \* mutant: the next data begins with the first filter again
  LET r == Result
  IN /\ Tries(r) /\ r.ret = -1
     /\ out' = out \o Piece(done, index)
     /\ IF killed' THEN Over
        ELSE /\ uni' = SubSeq(uni, index + 1, Len(uni))
             /\ index' = 0 /\ done' = 0 /\ cur' = 1 /\ pc' = "feed"
NeedsMore ==
  LET r == Result
  IN /\ Tries(r) /\ r.ret = -1
     /\ out' = out \o Piece(done, index)
     /\ IF killed' THEN Over
        ELSE /\ uni' = SubSeq(uni, index + 1, Len(uni))
             /\ index' = 0 /\ done' = 0 /\ pc' = "feed" /\ UNCHANGED cur

\* The replacement is sent and the filters go on behind the occurrence, all of
\* them; or, behind an empty one, those that come after.
Replaces ==
  LET r == Result
  IN /\ Tries(r) /\ r.ret = 1 /\ (killed' \/ ~fs[cur].multi)
     /\ out' = out \o Piece(done, index) \o Encode(case.enc, fs[cur].repl)
     /\ IF killed' THEN Over
        ELSE /\ done' = r.end /\ index' = r.end
             /\ cur' = IF r.end = index THEN cur + 1 ELSE 1
             /\ UNCHANGED <<pc, uni>>

\* With multiple matches the replacement takes the place of the occurrence.
InsertsAtEnd ==          \* mutant: behind the text that is in the buffer
  LET r == Result
  IN /\ Tries(r) /\ r.ret = 1 /\ ~killed' /\ fs[cur].multi
     /\ out' = out \o Piece(done, index)
     /\ uni' = SubSeq(uni, r.end + 1, Len(uni)) \o fs[cur].repl
     /\ index' = 0 /\ done' = 0 /\ cur' = cur + 1
     /\ UNCHANGED pc
Inserts ==
  LET r == Result
  IN /\ Tries(r) /\ r.ret = 1 /\ ~killed' /\ fs[cur].multi
     /\ out' = out \o Piece(done, index)
     /\ uni' = fs[cur].repl \o SubSeq(uni, r.end + 1, Len(uni))
     /\ index' = 0 /\ done' = 0 /\ cur' = cur + 1
     /\ UNCHANGED pc

Fails ==
  LET r == Result
  IN /\ Tries(r) /\ r.ret = 0
     /\ IF killed' THEN Over /\ out' = out \o Piece(done, index)
        ELSE cur' = cur + 1 /\ UNCHANGED <<pc, uni, index, done, out>>

NextPositionStays ==     \* mutant: the position does not move
  /\ Filtering /\ cur > Len(fs) /\ index < Len(uni)
  /\ cur' = 1
  /\ UNCHANGED <<inVars, pc, uni, index, done, bypassed, killed, out>>
NextPosition ==
  /\ Filtering /\ cur > Len(fs) /\ index < Len(uni)
  /\ index' = index + 1 /\ cur' = 1
  /\ UNCHANGED <<inVars, pc, uni, done, bypassed, killed, out>>

\* "We processed all the available data": the rest is sent.
SendRest ==
  /\ pc = "filter"
  /\ case.bypass \/ (cur > Len(fs) /\ index = Len(uni))
  /\ out' = out \o Piece(done, Len(uni))
  /\ uni' = <<>> /\ index' = 0 /\ done' = 0 /\ cur' = IF case.bypass THEN cur ELSE 1
  /\ pc' = IF dump THEN "over" ELSE "feed"
  /\ UNCHANGED <<inVars, bypassed, killed>>

Filter == SkipFilter \/ NeedsMore \/ Replaces \/ Inserts \/ Fails \/ NextPosition \/ SendRest
Finished == pc = "over" /\ UNCHANGED vars
Next == DataFeed \/ DataDump \/ Filter \/ Finished

\* WF_vars(Next) in the form TLC evaluates in time: but for Finished, Next can be
\* taken until pc = "over" (TLC finds no deadlock).
Goes == []<>(pc = "over") \/ []<><<TRUE>>_vars
Spec == Init /\ [][Next]_vars /\ Goes

-----------------------------------------------------------------------------
\* The filters stay within the buffer: what is sent ends before the position,
\* the position before the end of the text.
TypeOK ==
  /\ pc \in {"feed", "filter", "over"} /\ fed \in Nat
  /\ decided \in BOOLEAN /\ dump \in BOOLEAN /\ killed \in BOOLEAN
  /\ uni \in Seq(Alphabet \cup {Broken})
  /\ cur \in 1..(Len(fs) + 1) /\ bypassed \subseteq DOMAIN fs
  /\ index \in 0..Len(uni) /\ done \in 0..index

\* Filtering a body comes to an end, also where filters match nothing or what
\* they have put into the text themselves (the loops of DataFeed).
BodyEnds == <>(pc = "over")
=============================================================================
