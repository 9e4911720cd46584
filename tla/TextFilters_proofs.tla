-------------------------- MODULE TextFilters_proofs --------------------------
\* What TextFilters does for every matcher, every pair of converters and every
\* list of filters: the filters stay within the text, however it is cut.
EXTENDS TextFilters, SequenceTheorems, TLAPS

Texts == Seq(Alphabet \cup {Broken})

\* What CTextFilter::match relies on: the end of a match is where it began, or
\* behind, and not past "stop".
MatcherOK ==
  \A t \in Texts, p \in Patterns : \A i \in 0..Len(t) : \A j \in i..Len(t) :
    MatchAt(t, p, i, j).end \in {-1} \cup (i..j)

\* The converter makes bytes of a text, and characters or half characters of
\* bytes.
ConverterOK ==
  /\ \A enc, t : Len(Encode(enc, t)) \in Nat
  /\ \A enc, b : Decode(enc, b) \in Texts

CaseInv == case \in Cases
Inv == TypeOK /\ CaseInv

LEMMA FilterOK ==
  ASSUME Inv, cur <= Len(fs)
  PROVE  /\ fs \in Seq(Filters) /\ cur \in DOMAIN fs /\ fs[cur] \in Filters
         /\ fs[cur].repl \in Texts
<1>1. fs \in Seq(Filters)
  BY CasesOK DEF Inv, CaseInv, fs
<1>2. cur \in 1..Len(fs) /\ Len(fs) \in Nat
  BY <1>1, LenProperties DEF Inv, TypeOK
<1>3. cur \in DOMAIN fs /\ fs[cur] \in Filters
  BY <1>1, <1>2, ElementOfSeq, LenProperties
<1>4. fs[cur].repl \in Seq(Alphabet)
  BY <1>3 DEF Filters
<1> QED BY <1>1, <1>3, <1>4 DEF Texts

\* A match of a filter ends between its position and the end of the text.
LEMMA PatternMatchEnds ==
  ASSUME MatcherOK, NEW f \in Filters, NEW t \in Texts, NEW complete \in BOOLEAN, NEW did,
         NEW i \in 0..Len(t), NEW stop \in i..Len(t),
         PatternMatch(f, t, complete, i, stop, did).ret = 1
  PROVE  PatternMatch(f, t, complete, i, stop, did).end \in i..Len(t)
<1> DEFINE r == MatchAt(t, f.pattern, i, stop)
<1>1. Len(t) \in Nat
  BY LenProperties DEF Texts
<1>2. f.pattern \in Patterns
  BY DEF Filters
<1>3. r.end \in {-1} \cup (i..stop)
  BY <1>2 DEF MatcherOK
<1>4. r.end # -1 /\ PatternMatch(f, t, complete, i, stop, did).end = r.end
  BY DEF PatternMatch, PatternSays, Outcome
<1> QED BY <1>1, <1>3, <1>4

LEMMA FilterMatchEnds ==
  ASSUME MatcherOK, NEW f \in Filters, NEW t \in Texts, NEW complete \in BOOLEAN, NEW i \in 0..Len(t),
         FilterMatch(f, t, complete, i).ret = 1
  PROVE  FilterMatch(f, t, complete, i).end \in i..Len(t)
<1> DEFINE stop == IF i + f.width < Len(t) THEN i + f.width ELSE Len(t)
<1>1. Len(t) \in Nat /\ f.width \in Nat /\ i \in i..Len(t)
  BY LenProperties DEF Texts, Filters
<1>2. stop \in i..Len(t)
  BY <1>1
<1> HIDE DEF stop
<1>3. CASE f.special \in {"start", "end"}
  <2> DEFINE r == FilterMatch(f, t, complete, i)
  <2>1. CASE f.special = "start"
    <3>1. r = Outcome(1, i, {"STOP"})
      BY <2>1 DEF FilterMatch
    <3> QED BY <1>1, <3>1 DEF Outcome
  <2>2. CASE f.special = "end"
    <3>1. r = IF complete /\ i = Len(t) THEN Outcome(1, i, {"STOP"}) ELSE Outcome(0, 0, {})
      BY <2>2 DEF FilterMatch
    <3>2. r = Outcome(1, i, {"STOP"})
      BY <3>1 DEF Outcome
    <3> QED BY <1>1, <3>2 DEF Outcome
  <2> QED BY <1>3, <2>1, <2>2
<1>4. CASE f.special \notin {"start", "end"} /\ f.bounds = <<>>
  <2>1. FilterMatch(f, t, complete, i) = PatternMatch(f, t, complete, i, stop, {})
    BY <1>4 DEF FilterMatch, stop
  <2> QED BY <1>2, <2>1, PatternMatchEnds
<1>5. CASE f.special \notin {"start", "end"} /\ f.bounds # <<>>
  <2> DEFINE b == MatchAt(t, f.bounds, i, stop)
  <2>1. FilterMatch(f, t, complete, i) = BoundedMatch(f, t, complete, i, stop)
    BY <1>5 DEF FilterMatch, stop
  <2>2. f.bounds \in Patterns
    BY <1>5 DEF Filters
  <2>3. b.end \in {-1} \cup (i..stop)
    BY <1>2, <2>2 DEF MatcherOK
  <2>4. /\ b.end # -1
        /\ BoundedMatch(f, t, complete, i, stop) = PatternMatch(f, t, complete, i, b.end, b.did)
    BY <2>1 DEF BoundedMatch, BoundsSay, Outcome
  <2>5. b.end \in i..Len(t)
    BY <1>1, <1>2, <2>3, <2>4
  <2> HIDE DEF b
  <2> QED BY <2>1, <2>4, <2>5, PatternMatchEnds
<1> QED BY <1>3, <1>4, <1>5

LEMMA InitInv == Init => Inv
<1> SUFFICES ASSUME Init PROVE Inv
  OBVIOUS
<1>1. case \in Cases /\ fs \in Seq(Filters)
  BY CasesOK DEF Init, fs
<1>2. Len(fs) \in Nat /\ <<>> \in Texts /\ Len(<<>>) = 0
  BY <1>1, LenProperties DEF Texts
<1>3. cur \in 1..(Len(fs) + 1) /\ uni \in Texts /\ index \in 0..Len(uni) /\ done \in 0..index
  BY <1>2 DEF Init
<1> QED BY <1>1, <1>3 DEF Init, Inv, TypeOK, CaseInv, Texts

LEMMA ReceiveInv ==
  ASSUME ConverterOK, Inv, NEW bytes, NEW last \in BOOLEAN, Receive(bytes, last), fed' \in Nat
  PROVE  Inv'
<1> DEFINE b == buffer \o (IF decided THEN tail ELSE <<>>) \o bytes
<1>1. /\ UNCHANGED <<case, bypassed, killed>> /\ dump' = last
      /\ decided' = (decided \/ Len(b) >= DetectSize \/ last)
  BY DEF Receive
<1>2. decided' \in BOOLEAN /\ dump' \in BOOLEAN
  BY <1>1 DEF Inv, TypeOK
<1>3. \/ WaitWith(b) \/ PassOn(b, last)
      \/ \E k : Convert(b, k)
  BY DEF Receive, ConvertTo, ConvertAnyway
<1> HIDE DEF b
<1>4. uni \in Texts /\ Len(fs) \in Nat
  <2>1. fs \in Seq(Filters)
    BY CasesOK DEF Inv, CaseInv, fs
  <2> QED BY <2>1, LenProperties DEF Inv, TypeOK, Texts
<1>5. UNCHANGED cur /\ pc' \in {"feed", "filter", "over"}
  <2>1. CASE WaitWith(b)
    BY <2>1 DEF WaitWith, atVars, Inv, TypeOK
  <2>2. CASE PassOn(b, last)
    BY <2>2 DEF PassOn, atVars
  <2>3. CASE \E k : Convert(b, k)
    BY <2>3 DEF Convert
  <2> QED BY <1>3, <2>1, <2>2, <2>3
<1>6. uni' \in Texts /\ index' \in 0..Len(uni') /\ done' \in 0..index'
  <2>1. CASE UNCHANGED <<uni, index, done>>
    BY <1>4, <2>1 DEF Inv, TypeOK
  <2>2. CASE \E k : Convert(b, k)
    <3>1. PICK k : Convert(b, k)
      BY <2>2
    <3> DEFINE d == Decode(case.enc, SubSeq(b, 1, k))
    <3>2. d \in Texts
      BY DEF ConverterOK
    <3>3. uni' = uni \o d /\ index' = 0 /\ done' = 0
      BY <3>1 DEF Convert
    <3> HIDE DEF d
    <3>4. uni' \in Texts
      BY <1>4, <3>2, <3>3, ConcatProperties DEF Texts
    <3>5. Len(uni') \in Nat
      BY <3>4, LenProperties DEF Texts
    <3> QED BY <3>3, <3>4, <3>5
  <2> QED BY <1>3, <2>1, <2>2 DEF WaitWith, PassOn, atVars
<1>7. fs' = fs
  BY <1>1 DEF fs
<1> QED BY <1>1, <1>2, <1>5, <1>6, <1>7 DEF Inv, TypeOK, CaseInv, Texts

LEMMA FilterInv ==
  ASSUME MatcherOK, Inv, Filter
  PROVE  Inv'
<1>t. /\ uni \in Texts /\ Len(uni) \in Nat /\ index \in 0..Len(uni) /\ done \in 0..index
      /\ cur \in 1..(Len(fs) + 1) /\ Len(fs) \in Nat /\ dump \in BOOLEAN
  <2>1. fs \in Seq(Filters)
    BY CasesOK DEF Inv, CaseInv, fs
  <2> QED BY <2>1, LenProperties DEF Inv, TypeOK, Texts
<1>i. UNCHANGED inVars
  BY DEF Filter, SkipFilter, NeedsMore, Replaces, Inserts, Fails, NextPosition, SendRest, Tries
<1>f. fs' = fs /\ case' = case /\ fed' = fed /\ decided' = decided /\ dump' = dump
  BY <1>i DEF inVars, fs
<1>e. <<>> \in Texts /\ Len(<<>>) = 0 /\ 0 \in 0..0
  BY DEF Texts
<1>p. pc' \in {"feed", "filter", "over"}
  BY DEF Filter, SkipFilter, NeedsMore, Replaces, Inserts, Fails, NextPosition, SendRest, Over, Inv, TypeOK
<1>b. bypassed' \subseteq DOMAIN fs
  <2>1. CASE UNCHANGED bypassed
    BY <2>1 DEF Inv, TypeOK
  <2>2. CASE bypassed' = bypassed \cup {cur} /\ cur <= Len(fs)
    BY <2>2, FilterOK DEF Inv, TypeOK
  <2> QED BY <2>1, <2>2 DEF Filter, SkipFilter, NeedsMore, Replaces, Inserts, Fails, NextPosition, SendRest, Tries
<1>k. killed' \in BOOLEAN
  BY DEF Filter, SkipFilter, NeedsMore, Replaces, Inserts, Fails, NextPosition, SendRest, Tries, Inv, TypeOK
<1>1. SUFFICES /\ uni' \in Texts /\ cur' \in 1..(Len(fs) + 1)
               /\ index' \in 0..Len(uni') /\ done' \in 0..index'
  BY <1>f, <1>p, <1>b, <1>k DEF Inv, TypeOK, CaseInv, Texts
<1>2. CASE SkipFilter
  BY <1>2, <1>t DEF SkipFilter
<1>3. CASE Over
  BY <1>3, <1>e, <1>t DEF Over
<1>4. CASE NeedsMore /\ ~Over
  <2>1. /\ uni' = SubSeq(uni, index + 1, Len(uni)) /\ index' = 0 /\ done' = 0 /\ cur' = cur
    BY <1>4 DEF NeedsMore
  <2>2. uni' \in Texts
    BY <1>t, <2>1, SubSeqProperties DEF Texts
  <2>3. Len(uni') \in Nat
    BY <2>2, LenProperties DEF Texts
  <2> QED BY <1>t, <2>1, <2>2, <2>3
<1>5. CASE Replaces /\ ~Over
  <2> DEFINE r == Result
  <2>1. cur <= Len(fs) /\ r.ret = 1
    BY <1>5 DEF Replaces, Tries
  <2>2. r.end \in index..Len(uni)
    BY <1>t, <2>1, FilterOK, FilterMatchEnds DEF Result
  <2>3. done' = r.end /\ index' = r.end /\ uni' = uni /\ cur' \in {cur + 1, 1}
    BY <1>5 DEF Replaces
  <2> HIDE DEF r
  <2> QED BY <1>t, <2>1, <2>2, <2>3
<1>6. CASE Inserts
  <2> DEFINE r == Result
  <2>1. cur <= Len(fs) /\ r.ret = 1
    BY <1>6 DEF Inserts, Tries
  <2>2. r.end \in index..Len(uni)
    BY <1>t, <2>1, FilterOK, FilterMatchEnds DEF Result
  <2>3. /\ uni' = fs[cur].repl \o SubSeq(uni, r.end + 1, Len(uni))
        /\ index' = 0 /\ done' = 0 /\ cur' = cur + 1
    BY <1>6 DEF Inserts
  <2> HIDE DEF r
  <2>4. SubSeq(uni, r.end + 1, Len(uni)) \in Texts
    BY <1>t, <2>2, SubSeqProperties DEF Texts
  <2>5. uni' \in Texts
    BY <2>1, <2>3, <2>4, FilterOK, ConcatProperties DEF Texts
  <2>6. Len(uni') \in Nat
    BY <2>5, LenProperties DEF Texts
  <2>7. 0 \in 0..Len(uni') /\ 0 \in 0..0 /\ cur + 1 \in 1..(Len(fs) + 1)
    BY <1>t, <2>1, <2>6
  <2> QED BY <2>3, <2>5, <2>7
<1>7. CASE Fails /\ ~Over
  <2>1. cur <= Len(fs)
    BY <1>7 DEF Fails, Tries
  <2>2. cur' = cur + 1 /\ UNCHANGED <<uni, index, done>>
    BY <1>7 DEF Fails
  <2> QED BY <1>t, <2>1, <2>2
<1>8. CASE NextPosition
  <2>1. index < Len(uni) /\ index' = index + 1 /\ cur' = 1 /\ UNCHANGED <<uni, done>>
    BY <1>8 DEF NextPosition
  <2> QED BY <1>t, <2>1
<1>9. CASE SendRest
  <2>1. uni' = <<>> /\ index' = 0 /\ done' = 0 /\ cur' \in {cur, 1}
    BY <1>9 DEF SendRest
  <2> QED BY <1>e, <1>t, <2>1
<1> QED BY <1>2, <1>3, <1>4, <1>5, <1>6, <1>7, <1>8, <1>9 DEF Filter

\* For every matcher that ends its matches within the text it is given, every
\* character set and every list of filters: m_currentFilter, the position and
\* the end of what is sent stay within the list and the buffer, however the body
\* is cut and whatever the filters put in its place.
THEOREM TypeCorrect ==
  ASSUME MatcherOK, ConverterOK
  PROVE  Spec => []TypeOK
<1>1. Inv /\ [Next]_vars => Inv'
  <2> SUFFICES ASSUME Inv, [Next]_vars PROVE Inv'
    OBVIOUS
  <2>1. CASE DataFeed
    <3>1. PICK n \in 0..(Len(Body) - fed) :
            Receive(SubSeq(Body, fed + 1, fed + n), FALSE) /\ fed' = fed + n
      BY <2>1 DEF DataFeed
    <3>2. Len(Body) \in Nat /\ fed \in Nat
      BY DEF ConverterOK, Body, Inv, TypeOK
    <3>3. fed' \in Nat
      BY <3>1, <3>2
    <3> QED BY <3>1, <3>3, ReceiveInv
  <2>2. CASE DataDump
    BY <2>2, ReceiveInv DEF DataDump, Inv, TypeOK
  <2>3. CASE Filter
    BY <2>3, FilterInv
  <2>4. CASE UNCHANGED vars \/ Finished
    BY <2>4 DEF Finished, vars, inVars, atVars, Inv, TypeOK, CaseInv, fs
  <2> QED BY <2>1, <2>2, <2>3, <2>4 DEF Next
<1>2. Inv => TypeOK
  BY DEF Inv
<1> QED BY InitInv, <1>1, <1>2, PTL DEF Spec
=============================================================================
