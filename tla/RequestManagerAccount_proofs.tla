-------------------- MODULE RequestManagerAccount_proofs --------------------
(***************************************************************************)
(* An exchange takes from the website what it was sent for, and all of it: *)
(* when both machines are back at STEP_START nothing of the last response  *)
(* is left anywhere.  So a body is read the way its head says, and the     *)
(* idle clock runs only between exchanges.  The same towards the website:  *)
(* _ProcessOut takes from the browser one whole request after the other,   *)
(* and what a website gets is for it.                                      *)
(***************************************************************************)
EXTENDS RequestManagerStream_proofs

\* A website that answers what it is asked and nothing else, with no body where
\* there cannot be one; and no filter that fetches a response a second time.
\* (A 103 makes the proxy take the rest of the response for the next one, and
\* the headers of a response that $RDIR gave up stay: both break what follows.)
Orderly ==
  /\ MaxStray = 0 /\ "103" \notin Interims /\ "rdir" \notin InFilters
  /\ \A a \in Responses : a.code # "200" => a.frame = "none"

\* Outside tunnels, those that the proxy makes and those it looks into.
Guarded == Orderly /\ ~brSecure /\ outStep # "TUNNELING"

-----------------------------------------------------------------------------
(* What may be left of the answer to request r, of method m.  The website  *)
(* may leave at any time, so the rest may break off anywhere.              *)

InterimLine(r) == Tok("rline", r, "100")
InterimHead(r) == Tok("rhdr", r, "none")
Finals == {"101", "200", "204"}

Pieces(r, n, s)  == Len(s) <= n /\ \A i \in 1..Len(s) : s[i] = Tok("data", r, "-")
LastAhead(r, s)  == s # <<>> => Head(s) = Tok("last", r, "-") /\ Tail(s) = <<>>
PieceAhead(r, s) == s # <<>> => Head(s) = Tok("data", r, "-") /\ LastAhead(r, Tail(s))
ChunkAhead(r, s) == s # <<>> => Head(s) = Tok("size", r, "-") /\ PieceAhead(r, Tail(s))

\* The body after a head that says v.
BodyAhead(r, m, v, s) ==
  /\ m = "HEAD" \/ v \in {"none", "bad"} => s = <<>>
  /\ v \in {"len1", "eof"} => Pieces(r, 1, s)
  /\ v = "len2" => Pieces(r, 2, s)
  /\ v = "chunk" => ChunkAhead(r, s)

\* What follows a 101 is the tunnel's.
HeadAhead(r, m, code, s) ==
  s # <<>> =>
    \E v \in Frames :
      /\ Head(s) \in {Tok("rhdr", r, v), Tok("rhdrClose", r, v)}
      /\ code # "200" => v = "none"
      /\ code = "101" \/ BodyAhead(r, m, v, Tail(s))
FinalAhead(r, m, s) ==
  s # <<>> => \E code \in Finals :
                Head(s) = Tok("rline", r, code) /\ HeadAhead(r, m, code, Tail(s))
InterimTail(r, m, s)  == s # <<>> => Head(s) = InterimHead(r) /\ FinalAhead(r, m, Tail(s))
InterimAhead(r, m, s) == s # <<>> => Head(s) = InterimLine(r) /\ InterimTail(r, m, Tail(s))

\* What _ProcessIn, at this step with response i in hand, has before it.
Ahead(step, r, m, i, s) ==
  /\ step \in {"START", "FIRSTLINE"} => FinalAhead(r, m, s) \/ InterimAhead(r, m, s)
  /\ step = "HEADERS" =>
       IF i.code = "100" THEN InterimTail(r, m, s)
                         ELSE i.code \in Finals /\ HeadAhead(r, m, i.code, s)
  /\ step = "DECODE" => i.code = "101" \/ BodyAhead(r, m, i.headers[Len(i.headers)].v, s)
  /\ step = "RAW" => IF i.chunked THEN i.size = 1 /\ PieceAhead(r, s)
                     ELSE \/ i.size \in {1, 2} /\ Pieces(r, i.size, s)
                          \/ i.size = Unlimited /\ Pieces(r, 1, s)
  /\ step = "CHUNK" => ChunkAhead(r, s) \/ LastAhead(r, s)
  /\ step \in {"FINISH", "TUNNELING"} => s = <<>>

LEMMA Front ==
  ASSUME NEW s \in Tokens, NEW t \in Tokens
  PROVE  /\ s \o t \in Tokens
         /\ s \o t = <<>> <=> s = <<>> /\ t = <<>>
         /\ s # <<>> => /\ Head(s \o t) = Head(s) /\ Head(s) \in Token
                        /\ Tail(s \o t) = Tail(s) \o t /\ Tail(s) \in Tokens
<1>1. s \in Seq(Token) /\ t \in Seq(Token) /\ Tokens = Seq(Token)
  BY TokensDef
<1>2. s \o t \in Seq(Token) /\ (s \o t = <<>> <=> s = <<>> /\ t = <<>>)
  BY <1>1, ConcatProperties, ConcatEqualIffEmpty
<1>3. ASSUME s # <<>>
      PROVE  /\ Head(s \o t) = Head(s) /\ Head(s) \in Token
             /\ Tail(s \o t) = Tail(s) \o t /\ Tail(s) \in Seq(Token)
  <2>1. Head(s) \in Token /\ Tail(s) \in Seq(Token) /\ Len(Tail(s)) = Len(s) - 1
    BY <1>1, <1>3, HeadTailProperties
  <2>2. /\ Len(s \o t) = Len(s) + Len(t)
        /\ \A i \in 1..Len(s) + Len(t) : (s \o t)[i] = IF i <= Len(s) THEN s[i] ELSE t[i - Len(s)]
    BY <1>1, ConcatProperties
  <2>3. Len(s) \in Nat \ {0} /\ Len(t) \in Nat
    BY <1>1, <1>3, LenProperties, EmptySeq
  <2>4. Head(s \o t) = Head(s)
    <3>1. (s \o t)[1] = s[1]
      BY <2>2, <2>3
    <3> QED BY <1>1, <1>2, <1>3, <3>1
  <2>5. Tail(s \o t) = Tail(s) \o t
    <3>1. s \o t # <<>>
      BY <1>2, <1>3
    <3>2. /\ Tail(s \o t) \in Seq(Token) /\ Len(Tail(s \o t)) = Len(s) + Len(t) - 1
          /\ \A i \in 1..Len(Tail(s \o t)) : Tail(s \o t)[i] = (s \o t)[i + 1]
      BY <1>2, <2>2, <3>1, HeadTailProperties
    <3>3. /\ Tail(s) \o t \in Seq(Token) /\ Len(Tail(s) \o t) = Len(s) - 1 + Len(t)
          /\ \A i \in 1..Len(s) - 1 + Len(t) :
               (Tail(s) \o t)[i] = IF i <= Len(s) - 1 THEN Tail(s)[i] ELSE t[i - (Len(s) - 1)]
      BY <1>1, <2>1, ConcatProperties
    <3>4. \A i \in 1..Len(Tail(s)) : Tail(s)[i] = s[i + 1]
      BY <1>1, <1>3, HeadTailProperties
    <3>5. ASSUME NEW i \in 1..Len(s) + Len(t) - 1 PROVE Tail(s \o t)[i] = (Tail(s) \o t)[i]
      <4>1. Tail(s \o t)[i] = (s \o t)[i + 1] /\ i + 1 \in 1..Len(s) + Len(t)
        BY <2>3, <3>2
      <4>2. CASE i <= Len(s) - 1
        BY <2>1, <2>2, <2>3, <3>3, <3>4, <4>1, <4>2
      <4>3. CASE i > Len(s) - 1
        <5>1. (s \o t)[i + 1] = t[i + 1 - Len(s)]
          BY <2>2, <2>3, <4>1, <4>3
        <5>2. (Tail(s) \o t)[i] = t[i - (Len(s) - 1)]
          BY <2>3, <3>3, <4>3
        <5>3. i + 1 - Len(s) = i - (Len(s) - 1)
          BY <2>3
        <5> QED BY <4>1, <5>1, <5>2, <5>3
      <4> QED BY <2>3, <4>2, <4>3
    <3> QED BY <2>3, <3>2, <3>3, <3>5, SeqEqual
  <2> QED BY <2>1, <2>4, <2>5
<1> QED BY <1>1, <1>2, <1>3

\* What breaks off earlier is still the rest of an answer.
LEMMA BodyCut ==
  ASSUME NEW r, NEW m, NEW v, NEW s \in Tokens, NEW t \in Tokens
  PROVE  /\ \A n \in Nat : Pieces(r, n, s \o t) => Pieces(r, n, s)
         /\ LastAhead(r, s \o t) => LastAhead(r, s)
         /\ PieceAhead(r, s \o t) => PieceAhead(r, s)
         /\ ChunkAhead(r, s \o t) => ChunkAhead(r, s)
         /\ BodyAhead(r, m, v, s \o t) => BodyAhead(r, m, v, s)
<1>1. ASSUME NEW n \in Nat, Pieces(r, n, s \o t) PROVE Pieces(r, n, s)
  <2>1. /\ Len(s \o t) = Len(s) + Len(t) /\ Len(s) \in Nat /\ Len(t) \in Nat
        /\ \A i \in 1..Len(s) : (s \o t)[i] = s[i]
    BY TokensDef, ConcatProperties, LenProperties
  <2> QED BY <1>1, <2>1 DEF Pieces
<1>2. ASSUME NEW u \in Tokens, LastAhead(r, u \o t) PROVE LastAhead(r, u)
  <2>1. SUFFICES ASSUME u # <<>> PROVE LastAhead(r, u)
    BY DEF LastAhead
  <2>2. Head(u \o t) = Head(u) /\ Tail(u \o t) = Tail(u) \o t /\ u \o t # <<>> /\ Tail(u) \in Tokens
    BY <2>1, Front
  <2>3. Tail(u) \o t = <<>> => Tail(u) = <<>>
    BY <2>2, Front
  <2> QED BY <1>2, <2>2, <2>3 DEF LastAhead
<1>3. ASSUME NEW u \in Tokens, PieceAhead(r, u \o t) PROVE PieceAhead(r, u)
  <2>1. SUFFICES ASSUME u # <<>> PROVE PieceAhead(r, u)
    BY DEF PieceAhead
  <2>2. Head(u \o t) = Head(u) /\ Tail(u \o t) = Tail(u) \o t /\ u \o t # <<>> /\ Tail(u) \in Tokens
    BY <2>1, Front
  <2> QED BY <1>2, <1>3, <2>2 DEF PieceAhead
<1>4. ASSUME NEW u \in Tokens, ChunkAhead(r, u \o t) PROVE ChunkAhead(r, u)
  <2>1. SUFFICES ASSUME u # <<>> PROVE ChunkAhead(r, u)
    BY DEF ChunkAhead
  <2>2. Head(u \o t) = Head(u) /\ Tail(u \o t) = Tail(u) \o t /\ u \o t # <<>> /\ Tail(u) \in Tokens
    BY <2>1, Front
  <2> QED BY <1>3, <1>4, <2>2 DEF ChunkAhead
<1>5. ASSUME BodyAhead(r, m, v, s \o t) PROVE BodyAhead(r, m, v, s)
  <2>1. s \o t = <<>> => s = <<>>
    BY Front
  <2> QED BY <1>1, <1>4, <1>5, <2>1 DEF BodyAhead
<1> QED BY <1>1, <1>2, <1>3, <1>4, <1>5

LEMMA HeadCut ==
  ASSUME NEW r, NEW m, NEW s \in Tokens, NEW t \in Tokens
  PROVE  /\ \A code : HeadAhead(r, m, code, s \o t) => HeadAhead(r, m, code, s)
         /\ FinalAhead(r, m, s \o t) => FinalAhead(r, m, s)
         /\ InterimTail(r, m, s \o t) => InterimTail(r, m, s)
         /\ InterimAhead(r, m, s \o t) => InterimAhead(r, m, s)
<1>1. ASSUME NEW u \in Tokens, NEW code, HeadAhead(r, m, code, u \o t) PROVE HeadAhead(r, m, code, u)
  <2>1. SUFFICES ASSUME u # <<>> PROVE HeadAhead(r, m, code, u)
    BY DEF HeadAhead
  <2>2. Head(u \o t) = Head(u) /\ Tail(u \o t) = Tail(u) \o t /\ u \o t # <<>> /\ Tail(u) \in Tokens
    BY <2>1, Front
  <2>3. PICK v \in Frames :
          /\ Head(u) \in {Tok("rhdr", r, v), Tok("rhdrClose", r, v)}
          /\ code # "200" => v = "none"
          /\ code = "101" \/ BodyAhead(r, m, v, Tail(u) \o t)
    BY <1>1, <2>2 DEF HeadAhead
  <2>4. code = "101" \/ BodyAhead(r, m, v, Tail(u))
    BY <2>2, <2>3, BodyCut
  <2> QED BY <2>3, <2>4 DEF HeadAhead
<1>2. ASSUME NEW u \in Tokens, FinalAhead(r, m, u \o t) PROVE FinalAhead(r, m, u)
  <2>1. SUFFICES ASSUME u # <<>> PROVE FinalAhead(r, m, u)
    BY DEF FinalAhead
  <2>2. Head(u \o t) = Head(u) /\ Tail(u \o t) = Tail(u) \o t /\ u \o t # <<>> /\ Tail(u) \in Tokens
    BY <2>1, Front
  <2>3. PICK code \in Finals : Head(u) = Tok("rline", r, code) /\ HeadAhead(r, m, code, Tail(u) \o t)
    BY <1>2, <2>2 DEF FinalAhead
  <2>4. HeadAhead(r, m, code, Tail(u))
    BY <1>1, <2>2, <2>3
  <2> QED BY <2>3, <2>4 DEF FinalAhead
<1>3. ASSUME NEW u \in Tokens, InterimTail(r, m, u \o t) PROVE InterimTail(r, m, u)
  <2>1. SUFFICES ASSUME u # <<>> PROVE InterimTail(r, m, u)
    BY DEF InterimTail
  <2>2. Head(u \o t) = Head(u) /\ Tail(u \o t) = Tail(u) \o t /\ u \o t # <<>> /\ Tail(u) \in Tokens
    BY <2>1, Front
  <2> QED BY <1>2, <1>3, <2>2 DEF InterimTail
<1>4. ASSUME NEW u \in Tokens, InterimAhead(r, m, u \o t) PROVE InterimAhead(r, m, u)
  <2>1. SUFFICES ASSUME u # <<>> PROVE InterimAhead(r, m, u)
    BY DEF InterimAhead
  <2>2. Head(u \o t) = Head(u) /\ Tail(u \o t) = Tail(u) \o t /\ u \o t # <<>> /\ Tail(u) \in Tokens
    BY <2>1, Front
  <2> QED BY <1>3, <1>4, <2>2 DEF InterimAhead
<1> QED BY <1>1, <1>2, <1>3, <1>4

LEMMA AheadCut ==
  ASSUME NEW step, NEW r, NEW m, NEW i, NEW s \in Tokens, NEW t \in Tokens,
         Ahead(step, r, m, i, s \o t)
  PROVE  Ahead(step, r, m, i, s)
<1>1. s \o t = <<>> => s = <<>>
  BY Front
<1>2. CASE step \in {"START", "FIRSTLINE"}
  BY <1>2, HeadCut DEF Ahead
<1>3. CASE step = "HEADERS"
  BY <1>3, HeadCut DEF Ahead
<1>4. CASE step = "DECODE"
  BY <1>4, BodyCut DEF Ahead
<1>5. CASE step = "RAW"
  <2>1. Pieces(r, i.size, s \o t) /\ i.size \in {1, 2} => Pieces(r, i.size, s)
    BY BodyCut
  <2> QED BY <1>5, <2>1, BodyCut DEF Ahead
<1>6. CASE step = "CHUNK"
  BY <1>6, BodyCut DEF Ahead
<1>7. CASE step \notin {"START", "FIRSTLINE", "HEADERS", "DECODE", "RAW", "CHUNK"}
  BY <1>1, <1>7 DEF Ahead
<1> QED BY <1>2, <1>3, <1>4, <1>5, <1>6, <1>7

\* It may break off at once.
LEMMA NothingAhead ==
  ASSUME NEW r, NEW m, NEW v
  PROVE  /\ \A n \in Nat : Pieces(r, n, <<>>)
         /\ LastAhead(r, <<>>) /\ PieceAhead(r, <<>>) /\ ChunkAhead(r, <<>>)
         /\ BodyAhead(r, m, v, <<>>) /\ HeadAhead(r, m, v, <<>>)
         /\ FinalAhead(r, m, <<>>) /\ InterimTail(r, m, <<>>) /\ InterimAhead(r, m, <<>>)
<1>1. \A n \in Nat : Pieces(r, n, <<>>)
  BY EmptySeq DEF Pieces
<1>2. LastAhead(r, <<>>) /\ PieceAhead(r, <<>>) /\ ChunkAhead(r, <<>>)
  BY DEF LastAhead, PieceAhead, ChunkAhead
<1>3. HeadAhead(r, m, v, <<>>) /\ FinalAhead(r, m, <<>>) /\ InterimTail(r, m, <<>>)
      /\ InterimAhead(r, m, <<>>)
  BY DEF HeadAhead, FinalAhead, InterimTail, InterimAhead
<1> QED BY <1>1, <1>2, <1>3 DEF BodyAhead

LEMMA Prepend ==
  ASSUME NEW h \in Token, NEW t \in Tokens
  PROVE  /\ <<h>> \o t # <<>> /\ <<h>> \o t \in Tokens
         /\ Head(<<h>> \o t) = h /\ Tail(<<h>> \o t) = t
<1>1. <<h>> \in Tokens /\ <<h>> # <<>> /\ Head(<<h>>) = h /\ Tail(<<h>>) = <<>>
  BY TokensDef
<1>2. <<>> \o t = t
  BY TokensDef, ConcatEmptySeq
<1> QED BY <1>1, <1>2, Front

\* What the website answers is an answer; pieces p for the tunnel come behind a 101.
Answer(r, m, a, p) ==
  <<Tok("rline", r, a.code), Tok(IF a.close THEN "rhdrClose" ELSE "rhdr", r, a.frame)>>
  \o (IF m = "HEAD" THEN <<>> ELSE BodyOf(r, a.frame)) \o p

LEMMA AnsweredBody ==
  ASSUME NEW r \in Nat, NEW m, NEW frame \in Frames
  PROVE  BodyAhead(r, m, frame, IF m = "HEAD" THEN <<>> ELSE BodyOf(r, frame))
<1> DEFINE d == Tok("data", r, "-")
           z == Tok("size", r, "-")
           e == Tok("last", r, "-")
<1>1. BodyOf(r, frame) = IF frame \in {"len1", "eof"} THEN <<d>> ELSE IF frame = "len2" THEN <<d, d>>
                         ELSE IF frame = "chunk" THEN <<z, d, e>> ELSE <<>>
  BY DEF BodyOf
<1>2. Pieces(r, 1, <<d>>) /\ Pieces(r, 2, <<d, d>>)
  <2> HIDE DEF d
  <2>1. /\ Len(<<d>>) = 1 /\ \A i \in 1..1 : <<d>>[i] = d
        /\ Len(<<d, d>>) = 2 /\ \A i \in 1..2 : <<d, d>>[i] = d
    OBVIOUS
  <2> QED BY <2>1 DEF Pieces, d
<1>3. ChunkAhead(r, <<z, d, e>>)
  <2>1. LastAhead(r, <<e>>)
    <3> HIDE DEF e
    <3>1. Head(<<e>>) = e /\ Tail(<<e>>) = <<>>
      OBVIOUS
    <3> QED BY <3>1 DEF LastAhead, e
  <2>2. PieceAhead(r, <<d, e>>)
    <3> HIDE DEF d, e
    <3>1. Head(<<d, e>>) = d /\ Tail(<<d, e>>) = <<e>>
      OBVIOUS
    <3> QED BY <2>1, <3>1 DEF PieceAhead, d
  <2> HIDE DEF z, d, e
  <2>3. Head(<<z, d, e>>) = z /\ Tail(<<z, d, e>>) = <<d, e>>
    OBVIOUS
  <2> QED BY <2>2, <2>3 DEF ChunkAhead, z
<1> HIDE DEF z, d, e
<1>4. BodyAhead(r, m, frame, <<>>)
  BY NothingAhead
<1>5. ASSUME m # "HEAD" PROVE BodyAhead(r, m, frame, BodyOf(r, frame))
  BY <1>1, <1>2, <1>3, <1>5 DEF BodyAhead, Frames
<1> QED BY <1>4, <1>5

LEMMA AnswerAhead ==
  ASSUME Orderly, setting \in DOMAIN Settings, NEW r \in Nat, NEW m, NEW a \in Responses,
         NEW p \in Tokens, a.code = "101" \/ p = <<>>
  PROVE  /\ Answer(r, m, a, p) \in Tokens
         /\ FinalAhead(r, m, Answer(r, m, a, p))
         /\ InterimTail(r, m, <<InterimHead(r)>> \o Answer(r, m, a, p))
         /\ InterimAhead(r, m, <<InterimLine(r), InterimHead(r)>> \o Answer(r, m, a, p))
<1> DEFINE l == Tok("rline", r, a.code)
           h == Tok(IF a.close THEN "rhdrClose" ELSE "rhdr", r, a.frame)
           b == IF m = "HEAD" THEN <<>> ELSE BodyOf(r, a.frame)
           w == Answer(r, m, a, p)
<1>1. a.code \in Finals /\ a.frame \in Frames /\ (a.code # "200" => a.frame = "none")
  <2>1. Settings[setting] \in Setting
    BY ConstantsOK
  <2> QED BY <2>1 DEF Setting, Responses, Finals, Orderly
<1>2. l \in Token /\ h \in Token
  <2>1. a.code \in Values /\ a.frame \in Values /\ {"rline", "rhdr", "rhdrClose"} \subseteq Kinds
    BY <1>1 DEF Values, Codes, Finals, Kinds
  <2> QED BY <2>1, TokenOK
<1>3. b \in Tokens /\ BodyAhead(r, m, a.frame, b)
  BY <1>1, AnsweredBody, BodyTokensOK, TokensDef
<1>4. h \in {Tok("rhdr", r, a.frame), Tok("rhdrClose", r, a.frame)}
  OBVIOUS
<1>5. w = (<<l, h>> \o b) \o p
  BY DEF Answer
<1> HIDE DEF l, h, b, w
<1>6. <<l, h>> \in Tokens /\ <<h>> \in Tokens /\ Head(<<l, h>>) = l /\ Tail(<<l, h>>) = <<h>>
  BY <1>2, TokensDef
<1>7. w \in Tokens /\ w # <<>> /\ Head(w) = l /\ Tail(w) = (<<h>> \o b) \o p
  <2>1. /\ <<l, h>> \o b \in Tokens /\ <<l, h>> \o b # <<>>
        /\ Head(<<l, h>> \o b) = l /\ Tail(<<l, h>> \o b) = <<h>> \o b
    BY <1>3, <1>6, Front
  <2>2. PICK q \in Tokens : q = <<l, h>> \o b
    BY <2>1
  <2>3. q # <<>> /\ Head(q) = l /\ Tail(q) = <<h>> \o b /\ w = q \o p
    BY <1>5, <2>1, <2>2
  <2>4. q \o p \in Tokens /\ q \o p # <<>> /\ Head(q \o p) = Head(q) /\ Tail(q \o p) = Tail(q) \o p
    BY <2>3, Front
  <2> QED BY <2>3, <2>4
<1>8. HeadAhead(r, m, a.code, (<<h>> \o b) \o p)
  <2>1. /\ <<h>> \o b \in Tokens /\ <<h>> \o b # <<>>
        /\ Head(<<h>> \o b) = h /\ Tail(<<h>> \o b) = b
    BY <1>2, <1>3, Prepend
  <2>2. /\ Head((<<h>> \o b) \o p) = h /\ Tail((<<h>> \o b) \o p) = b \o p
    BY <2>1, Front
  <2>3. a.code # "101" => b \o p = b
    BY <1>3, TokensDef, ConcatEmptySeq
  <2> QED BY <1>1, <1>3, <1>4, <2>2, <2>3 DEF HeadAhead
<1>9. FinalAhead(r, m, w)
  BY <1>1, <1>7, <1>8 DEF FinalAhead, l
<1>10. InterimLine(r) \in Token /\ InterimHead(r) \in Token
  <2>1. "100" \in Values /\ "none" \in Values /\ {"rline", "rhdr"} \subseteq Kinds
    BY DEF Values, Codes, Frames, Kinds
  <2> QED BY <2>1, TokenOK DEF InterimLine, InterimHead
<1>11. InterimTail(r, m, <<InterimHead(r)>> \o w)
  <2>1. Head(<<InterimHead(r)>> \o w) = InterimHead(r) /\ Tail(<<InterimHead(r)>> \o w) = w
    BY <1>7, <1>10, Prepend
  <2> QED BY <1>9, <2>1 DEF InterimTail
<1>12. InterimAhead(r, m, <<InterimLine(r), InterimHead(r)>> \o w)
  <2> DEFINE il == InterimLine(r)
             ih == InterimHead(r)
  <2>1. il \in Token /\ ih \in Token
    BY <1>10
  <2> HIDE DEF il, ih
  <2>2. <<il, ih>> \in Tokens /\ <<il, ih>> # <<>> /\ Head(<<il, ih>>) = il /\ Tail(<<il, ih>>) = <<ih>>
    BY <2>1, TokensDef
  <2>3. Head(<<il, ih>> \o w) = il /\ Tail(<<il, ih>> \o w) = <<ih>> \o w
    BY <1>7, <2>2, Front
  <2>4. InterimAhead(r, m, <<il, ih>> \o w)
    BY <1>11, <2>3 DEF InterimAhead, il, ih
  <2> QED BY <2>4 DEF il, ih
<1> QED BY <1>7, <1>9, <1>11, <1>12 DEF w

-----------------------------------------------------------------------------
(* The account of an exchange.                                             *)

Coming == website.net \o website.queue
Source == recvInBuf \o Coming
Heads  == HeadsOf(sendOutBuf)
Still  == Source = <<>> /\ website.todo = {} /\ Heads = {}
Busy   == outStep \in {"CHUNK", "RAW", "FINISH"}
Own    == in.headers[Len(in.headers)].v
Clean  == \A i \in 1..Len(in.headers) : in.headers[i].v = "none"

\* The headers that interim responses left say nothing of the body, so the last
\* ones do.
HeaderInv ==
  /\ inStep \in {"FIRSTLINE", "HEADERS"} => Clean
  /\ inStep = "START" => Clean \/ Still
  /\ inStep = "DECODE" =>
       /\ in.headers # <<>> /\ \A i \in 1..Len(in.headers) - 1 : in.headers[i].v = "none"
       /\ in.code \in Finals /\ Own \in Frames /\ (in.code # "200" => Own = "none")
  /\ inStep \in {"RAW", "CHUNK"} =>
       in.chunked = (Own = "chunk") /\ (~in.chunked => (in.size = Unlimited) = (Own = "eof"))

\* The website owes an answer to the request in hand, and to no other; until it
\* gives it, all that came was one interim response.
OwedInv ==
  /\ website.todo \cup Heads \subseteq {out.req}
  /\ Heads # {} => inStep = "START" /\ Source = <<>> /\ website.todo = {}
  /\ website.todo # {} =>
       \/ /\ inStep \in {"START", "FIRSTLINE"}
          /\ Source \in {<<>>, <<InterimLine(out.req)>>,
                         <<InterimLine(out.req), InterimHead(out.req)>>}
          /\ website.open => Source # <<InterimLine(out.req)>>
       \/ /\ inStep = "HEADERS" /\ in.code = "100"
          /\ Source \in {<<>>, <<InterimHead(out.req)>>}
          /\ website.open => Source # <<>>
  /\ website.todo # {} /\ (inStep # "START" \/ Source # <<>>) => website.hinted >= out.req

Account ==
  /\ outStep \in {"HEADERS", "DECODE"} \/ Busy =>
       out.req \in DOMAIN reqs /\ out.method = reqs[out.req].m
  /\ outStep \in {"START", "FIRSTLINE", "HEADERS"} => inStep = "START" /\ Still
  /\ outStep \in {"FIRSTLINE", "HEADERS", "DECODE"} => Clean
  /\ outStep = "DECODE" =>
       /\ Still
       /\ inStep \in {"START", "FINISH"} \/ (inStep = "TUNNELING" /\ out.method = "CONNECT")
  /\ Busy => /\ inStep # "TUNNELING" /\ OwedInv /\ HeaderInv
             /\ Ahead(inStep, out.req, out.method, in, Source)

\* What a step may do to the stream from the website without breaking it.
Shorter ==
  /\ \E t \in Tokens : Source = Source' \o t /\ (website'.open => t = <<>>)
  /\ website'.todo \in {website.todo, {}}
  /\ website'.todo # {} => website'.hinted = website.hinted
  /\ website'.open => website.open

LEMMA SourceOK ==
  DataInv =>
    /\ website \in WebsiteEnd /\ website.net \in Tokens /\ website.queue \in Tokens
    /\ recvInBuf \in Tokens /\ Coming \in Tokens /\ Source \in Tokens
    /\ sendOutBuf \in Tokens /\ out \in Out(Len(reqs)) /\ Len(reqs) \in Nat
    /\ reqs \in Seq(Request) /\ in \in In
<1> SUFFICES ASSUME DataInv
             PROVE  /\ website \in WebsiteEnd /\ website.net \in Tokens /\ website.queue \in Tokens
                    /\ recvInBuf \in Tokens /\ Coming \in Tokens /\ Source \in Tokens
                    /\ sendOutBuf \in Tokens /\ out \in Out(Len(reqs)) /\ Len(reqs) \in Nat
                    /\ reqs \in Seq(Request) /\ in \in In
  OBVIOUS
<1>1. /\ website \in WebsiteEnd /\ recvInBuf \in Tokens /\ sendOutBuf \in Tokens
      /\ out \in Out(Len(reqs)) /\ reqs \in Seq(Request) /\ in \in In
  BY DEF DataInv, WebsiteInv, ResponseInv, RequestInv
<1>2. website.net \in Tokens /\ website.queue \in Tokens
  BY <1>1 DEF WebsiteEnd
<1>3. Coming \in Tokens
  BY <1>2, TokensDef, ConcatProperties DEF Coming
<1>4. Source \in Tokens
  BY <1>1, <1>3, TokensDef, ConcatProperties DEF Source
<1>5. Len(reqs) \in Nat
  BY <1>1, LenProperties
<1> QED BY <1>1, <1>2, <1>3, <1>4, <1>5

LEMMA SourceNext == (DataInv => Source \in Tokens)'
<1>1. DataInv => Source \in Tokens
  BY SourceOK
<1> QED BY <1>1, PTL

\* What is left of one or two.
LEMMA LeftOf ==
  ASSUME NEW a, NEW b, NEW s \in Tokens, NEW t \in Tokens
  PROVE  /\ s \o t = <<a>> => s \in {<<>>, <<a>>}
         /\ s \o t = <<a, b>> => s \in {<<>>, <<a>>, <<a, b>>}
<1>1. /\ Len(s) \in Nat /\ Len(t) \in Nat /\ Len(s \o t) = Len(s) + Len(t)
      /\ \A i \in 1..Len(s) : (s \o t)[i] = s[i]
      /\ s = [i \in 1..Len(s) |-> s[i]]
  BY TokensDef, ConcatProperties, LenProperties, SeqDef
<1>2. Len(s) = 0 => s = <<>>
  BY TokensDef, EmptySeq
<1>3. Len(s) = 1 => s = <<s[1]>>
  BY <1>1
<1>4. Len(s) = 2 => s = <<s[1], s[2]>>
  BY <1>1
<1>5. ASSUME s \o t = <<a>> PROVE s \in {<<>>, <<a>>}
  <2>1. Len(<<a>>) = 1 /\ <<a>>[1] = a
    OBVIOUS
  <2>2. Len(s) \in {0, 1} /\ (Len(s) = 1 => s[1] = a)
    BY <1>1, <1>5, <2>1
  <2> QED BY <1>2, <1>3, <2>2
<1>6. ASSUME s \o t = <<a, b>> PROVE s \in {<<>>, <<a>>, <<a, b>>}
  <2>1. Len(<<a, b>>) = 2 /\ <<a, b>>[1] = a /\ <<a, b>>[2] = b
    OBVIOUS
  <2>2. Len(s) \in {0, 1, 2}
    BY <1>1, <1>6, <2>1
  <2>3. (Len(s) = 1 => s[1] = a) /\ (Len(s) = 2 => s[1] = a /\ s[2] = b)
    BY <1>1, <1>6, <2>1
  <2> QED BY <1>2, <1>3, <1>4, <2>2, <2>3
<1> QED BY <1>5, <1>6

LEMMA StillKept ==
  ASSUME DataInv, DataInv', Still, Shorter, Heads' \in {Heads, {}}
  PROVE  Still'
<1>1. PICK t \in Tokens : Source = Source' \o t
  BY DEF Shorter
<1>2. Source' \in Tokens
  BY SourceNext
<1>3. Source' = <<>>
  BY <1>1, <1>2, Front DEF Still
<1> QED BY <1>3 DEF Still, Shorter

\* A step that is not about the exchange.
LEMMA AccountKept ==
  ASSUME DataInv, DataInv', Account, Shorter, Heads' \in {Heads, {}},
         UNCHANGED <<inStep, in>>, outStep' = outStep \/ (Busy /\ Busy'),
         out'.req = out.req, out'.method = out.method,
         out.req \in DOMAIN reqs =>
           out.req \in DOMAIN reqs' /\ reqs'[out.req].m = reqs[out.req].m
  PROVE  Account'
<1>1. PICK t \in Tokens : Source = Source' \o t /\ (website'.open => t = <<>>)
  BY DEF Shorter
<1>2. Source' \in Tokens /\ (Source = <<>> => Source' = <<>>)
  <2>1. Source' \in Tokens
    BY SourceNext
  <2> QED BY <1>1, <2>1, Front
<1>3. website'.open => Source' = Source
  BY <1>1, <1>2, TokensDef, ConcatEmptySeq
<1>4. Still => Still'
  BY StillKept
<1>5. ASSUME Busy PROVE OwedInv'
  <2>1. OwedInv
    BY <1>5 DEF Account
  <2>2. website'.todo \in {website.todo, {}} /\ (website'.todo # {} => website'.hinted = website.hinted)
    BY DEF Shorter
  <2>3. website'.todo \cup Heads' \subseteq {out'.req}
    BY <2>1, <2>2 DEF OwedInv
  <2>4. Heads' # {} => inStep' = "START" /\ Source' = <<>> /\ website'.todo = {}
    BY <1>2, <2>1, <2>2 DEF OwedInv
  <2>5. ASSUME website'.todo # {}
        PROVE  \/ /\ inStep \in {"START", "FIRSTLINE"}
                  /\ Source' \in {<<>>, <<InterimLine(out.req)>>,
                                  <<InterimLine(out.req), InterimHead(out.req)>>}
                  /\ website'.open => Source' # <<InterimLine(out.req)>>
               \/ /\ inStep = "HEADERS" /\ in.code = "100"
                  /\ Source' \in {<<>>, <<InterimHead(out.req)>>}
                  /\ website'.open => Source' # <<>>
    <3>1. website.todo # {} /\ (website'.open => website.open)
      BY <2>2, <2>5 DEF Shorter
    <3> DEFINE l == InterimLine(out.req)
               h == InterimHead(out.req)
    <3>2. \/ /\ inStep \in {"START", "FIRSTLINE"}
             /\ Source \in {<<>>, <<l>>, <<l, h>>} /\ (website.open => Source # <<l>>)
          \/ /\ inStep = "HEADERS" /\ in.code = "100"
             /\ Source \in {<<>>, <<h>>} /\ (website.open => Source # <<>>)
      BY <2>1, <3>1 DEF OwedInv
    <3> HIDE DEF l, h
    <3>3. Source = <<l>> => Source' \in {<<>>, <<l>>}
      BY <1>1, <1>2, LeftOf
    <3>4. Source = <<h>> => Source' \in {<<>>, <<h>>}
      BY <1>1, <1>2, LeftOf
    <3>5. Source = <<l, h>> => Source' \in {<<>>, <<l>>, <<l, h>>}
      BY <1>1, <1>2, LeftOf
    <3>6. \/ /\ inStep \in {"START", "FIRSTLINE"}
             /\ Source' \in {<<>>, <<l>>, <<l, h>>} /\ (website'.open => Source' # <<l>>)
          \/ /\ inStep = "HEADERS" /\ in.code = "100"
             /\ Source' \in {<<>>, <<h>>} /\ (website'.open => Source' # <<>>)
      BY <1>2, <1>3, <3>1, <3>2, <3>3, <3>4, <3>5
    <3> QED BY <3>6 DEF l, h
  <2>6. website'.todo # {} /\ (inStep' # "START" \/ Source' # <<>>) => website'.hinted >= out'.req
    <3>1. Source' # <<>> => Source # <<>>
      BY <1>2
    <3> QED BY <2>1, <2>2, <3>1 DEF OwedInv
  <2> QED BY <2>3, <2>4, <2>5, <2>6 DEF OwedInv
<1>6. Busy /\ HeaderInv => HeaderInv'
  BY <1>4 DEF HeaderInv, Clean, Own
<1>7. ASSUME Ahead(inStep, out.req, out.method, in, Source)
      PROVE  Ahead(inStep, out.req, out.method, in, Source')
  BY <1>1, <1>2, <1>7, AheadCut
<1>8. Busy' = Busy /\ (Clean => Clean')
  BY DEF Busy, Clean
<1>9. CASE Busy
  <2>1. outStep' \notin {"START", "FIRSTLINE", "HEADERS", "DECODE"}
    BY <1>8, <1>9 DEF Busy
  <2> QED BY <1>5, <1>6, <1>7, <1>8, <1>9, <2>1 DEF Account
<1>10. CASE ~Busy
  <2>1. outStep' = outStep /\ ~Busy'
    BY <1>8, <1>10
  <2> QED BY <1>4, <1>8, <1>10, <2>1 DEF Account
<1> QED BY <1>9, <1>10

-----------------------------------------------------------------------------
(* Sockets: a closed one stays closed, and nothing comes from it.          *)

LEMMA BrConnFalls == FlagInv /\ [Next]_vars => (brConn' => brConn)
<1> SUFFICES ASSUME FlagInv, [Next]_vars, ~brConn PROVE ~brConn'
  BY DEF FlagInv
<1> USE DEF socketVars
<1>s. ASSUME NEW buf, NEW keep \in BOOLEAN, SendIn(buf, keep) PROVE ~brConn'
  BY <1>s DEF SendIn
<1>1. CASE UNCHANGED vars \/ Terminated
  BY <1>1 DEF vars, Terminated
<1>2. CASE Environment
  BY <1>2, EnvironmentLeavesThread DEF threadVars
<1>3. CASE ManageLoop
  <2>1. CASE OuterSend \/ InnerSendIn \/ TrailSend \/ Trail503
    BY <2>1, <1>s DEF OuterSend, InnerSendIn, TrailSend, Trail503
  <2>2. CASE OuterReceive \/ InnerReceiveOut
    BY <2>2 DEF OuterReceive, InnerReceiveOut, ReceiveOut
  <2>3. CASE InnerEnd \/ OuterEnd
    BY <2>3 DEF InnerEnd, OuterEnd, JudgeIf, Judge
  <2>4. CASE InnerSendOut \/ InnerReceiveIn \/ TrailReceive \/ TrailFeed \/ Destroy
    BY <2>4 DEF InnerSendOut, InnerReceiveIn, TrailReceive, TrailFeed, Destroy
  <2> QED BY <1>3, <2>1, <2>2, <2>3, <2>4 DEF ManageLoop
<1>4. CASE ProcessOut
  <2>1. CASE OutFinish
    BY <2>1, <1>s DEF OutFinish, EndExchange
  <2>2. CASE \/ OutReturn \/ OutStart \/ OutFirstLine \/ OutHeaders \/ OutDecodeBad \/ OutDecode \/ OutSend
             \/ OutChunk \/ OutRaw \/ OutTunneling
    BY <2>2 DEF OutReturn, OutStart, OutFirstLine, OutHeaders, OutDecodeBad, OutDecode, OutSend,
        OutChunk, OutRaw, OutTunneling
  <2> QED BY <1>4, <2>1, <2>2 DEF ProcessOut
<1>5. CASE ConnectWebsite
  <2>1. CASE LocalAnswer \/ Established
    BY <2>1, <1>s DEF LocalAnswer, Established
  <2>2. CASE AwaitLocal \/ LocalSecure
    BY <2>2, <1>s DEF AwaitLocal, LocalSecure, SecurePage, ApiWrite
  <2>3. CASE ApiAnswer \/ LocalTls \/ AwaitLine \/ Tls
    BY <2>3 DEF ApiAnswer, ApiWrite, LocalTls, AwaitLine, ReceiveOut, Tls
  <2>4. CASE \/ ConnectFlush \/ Jump \/ Rdir \/ ConnectReuse \/ ConnectFail \/ ConnectOpen
             \/ ViaProxy \/ AwaitProxy \/ Resend \/ InRedirected
    BY <2>4 DEF ConnectFlush, Jump, Rdir, ConnectReuse, ConnectFail, ConnectOpen, ViaProxy,
        AwaitProxy, Resend, InRedirected
  <2> QED BY <1>5, <2>1, <2>2, <2>3, <2>4 DEF ConnectWebsite
<1>6. CASE ProcessIn
  <2>1. CASE InFinish
    BY <2>1, <1>s DEF InFinish, EndExchange
  <2>2. CASE \/ InReturn \/ InStart \/ InFirstLine \/ InGarbage \/ InHeaders \/ InDecodeBad
             \/ InDecode \/ InChunk \/ InRaw \/ InTunneling
    BY <2>2 DEF InReturn, InStart, InFirstLine, InGarbage, InHeaders, InDecodeBad, InDecode,
        InChunk, InRaw, InTunneling
  <2> QED BY <1>6, <2>1, <2>2 DEF ProcessIn
<1> QED BY <1>1, <1>2, <1>3, <1>4, <1>5, <1>6 DEF Next, Thread

\* What was on a socket is gone when it is closed, by either side.
WebInv ==
  /\ ~webConn => website = Disconnected
  /\ ~website.open => website.queue = <<>>

LEMMA WebKept ==
  ASSUME WebInv, UNCHANGED <<website, webConn>> \/ website' = Disconnected
  PROVE  WebInv'
<1>1. Disconnected.open = FALSE /\ Disconnected.queue = <<>> /\ Disconnected' = Disconnected
  BY DEF Disconnected
<1>2. CASE website' = Disconnected
  BY <1>1, <1>2 DEF WebInv
<1>3. CASE UNCHANGED <<website, webConn>>
  BY <1>1, <1>3 DEF WebInv
<1> QED BY <1>2, <1>3

LEMMA Connected == ASSUME WebInv, website.open PROVE webConn
<1>1. Disconnected.open = FALSE
  BY DEF Disconnected
<1> QED BY <1>1 DEF WebInv

LEMMA WebStep == DataInv /\ WebInv /\ [Next]_vars => WebInv'
<1> SUFFICES ASSUME DataInv, WebInv, [Next]_vars PROVE WebInv'
  OBVIOUS
<1>w. website \in WebsiteEnd /\ webConn \in BOOLEAN /\ webConn' \in BOOLEAN
  BY WebConnStep DEF DataInv, WebsiteInv, FlagInv
<1>k. ASSUME NEW keep, KeepWebsite(keep) PROVE WebInv'
  BY <1>k, <1>w, WebKept DEF KeepWebsite
<1>s. ASSUME NEW buf, SendOut(buf) PROVE WebInv'
  <2>1. CASE website' = [website EXCEPT !.got = @ \o buf, !.todo = @ \cup HeadsOf(buf)]
             /\ webConn /\ webConn' = webConn
    <3>1. website'.open = website.open /\ website'.queue = website.queue
      BY <2>1, <1>w DEF WebsiteEnd
    <3> QED BY <2>1, <3>1 DEF WebInv
  <2>2. CASE UNCHANGED <<website, webConn>> \/ KeepWebsite(FALSE)
    BY <2>2, <1>w, <1>k, WebKept
  <2> QED BY <1>s, <2>1, <2>2 DEF SendOut
<1>r. ASSUME webConn' = (webConn /\ website.open),
             website' = IF webConn /\ website.open THEN [website EXCEPT !.net = <<>>] ELSE Disconnected
      PROVE  WebInv'
  <2>1. CASE webConn /\ website.open
    <3>1. website'.open = website.open /\ website'.queue = website.queue
      BY <2>1, <1>r, <1>w DEF WebsiteEnd
    <3> QED BY <2>1, <1>r, <3>1 DEF WebInv
  <2> QED BY <2>1, <1>r, <1>w, WebKept
<1> USE DEF socketVars
<1>1. CASE UNCHANGED vars \/ Terminated
  BY <1>1, <1>w, WebKept DEF vars, Terminated
<1>2. CASE Environment
  <2>1. webConn' = webConn
    BY <1>2, EnvironmentLeavesThread DEF threadVars
  <2>2. CASE WebsiteAnswer \/ WebsiteTunnel \/ WebsiteInterim \/ WebsiteStray \/ WebsiteSend
    <3>1. website.open
      BY <2>2 DEF WebsiteAnswer, WebsiteTunnel, WebsiteInterim, WebsiteStray, WebsiteSend, Idle
    <3>2. webConn
      BY <3>1, Connected
    <3>3. website'.open = website.open
      <4>1. CASE WebsiteAnswer
        BY <4>1, <1>w DEF WebsiteAnswer, WebsiteEnd
      <4>2. CASE WebsiteTunnel \/ WebsiteInterim \/ WebsiteStray \/ WebsiteSend
        BY <4>2, <1>w DEF WebsiteTunnel, WebsiteInterim, WebsiteStray, WebsiteSend, WebsiteEnd
      <4> QED BY <2>2, <4>1, <4>2
    <3> QED BY <2>1, <3>1, <3>2, <3>3 DEF WebInv
  <2>3. CASE WebsiteClose
    <3>1. webConn
      BY <2>3, Connected DEF WebsiteClose
    <3>2. website'.queue = <<>>
      BY <2>3, <1>w DEF WebsiteClose, WebsiteEnd
    <3> QED BY <2>1, <3>1, <3>2 DEF WebInv
  <2>4. CASE \/ BrowserRequest \/ BrowserTunnel \/ BrowserSend \/ BrowserClose
             \/ Stall \/ IdleExpire \/ SwitchToInvalid
    BY <2>1, <2>4, <1>w, WebKept DEF BrowserRequest, BrowserTunnel, BrowserSend, BrowserClose,
       Stall, IdleExpire, SwitchToInvalid
  <2> QED BY <1>2, <2>2, <2>3, <2>4 DEF Environment
<1>3. CASE ManageLoop
  <2>1. CASE InnerSendOut
    BY <2>1, <1>s DEF InnerSendOut
  <2>2. CASE InnerReceiveIn \/ TrailReceive
    BY <2>2, <1>r DEF InnerReceiveIn, TrailReceive, ReceiveIn
  <2>3. CASE InnerEnd \/ OuterEnd
    BY <2>3, <1>w, <1>k, WebKept DEF InnerEnd, OuterEnd, JudgeIf, Judge
  <2>4. CASE Destroy
    BY <2>4, <1>k DEF Destroy
  <2>5. CASE \/ OuterReceive \/ OuterSend \/ InnerSendIn \/ InnerReceiveOut \/ TrailFeed
             \/ TrailSend \/ Trail503
    BY <2>5, <1>w, WebKept DEF OuterReceive, OuterSend, InnerSendIn, InnerReceiveOut, TrailFeed,
       TrailSend, Trail503
  <2> QED BY <1>3, <2>1, <2>2, <2>3, <2>4, <2>5 DEF ManageLoop
<1>4. CASE ProcessOut
  <2>1. CASE OutFinish
    BY <2>1, <1>k DEF OutFinish, EndExchange
  <2>2. CASE \/ OutReturn \/ OutStart \/ OutFirstLine \/ OutHeaders \/ OutDecodeBad \/ OutDecode \/ OutSend
             \/ OutChunk \/ OutRaw \/ OutTunneling
    BY <2>2, <1>w, WebKept DEF OutReturn, OutStart, OutFirstLine, OutHeaders, OutDecodeBad, OutDecode, OutSend,
       OutChunk, OutRaw, OutTunneling
  <2> QED BY <1>4, <2>1, <2>2 DEF ProcessOut
<1>5. CASE ConnectWebsite
  <2>1. CASE ConnectFlush
    BY <2>1, <1>k, <1>r DEF ConnectFlush
  <2>2. CASE ConnectFail
    BY <2>2, <1>k DEF ConnectFail
  <2>3. CASE ConnectOpen
    BY <2>3 DEF ConnectOpen, WebInv, Disconnected
  <2>4. CASE ViaProxy \/ Resend
    BY <2>4, <1>s, <1>w, WebKept DEF ViaProxy, Resend
  <2>5. CASE AwaitProxy \/ Tls
    BY <2>5, <1>k, <1>w, WebKept DEF AwaitProxy, Tls
  <2>6. CASE \/ LocalAnswer \/ ApiAnswer \/ LocalTls \/ AwaitLine \/ AwaitLocal \/ LocalSecure \/ Jump \/ Rdir
             \/ ConnectReuse \/ Established \/ InRedirected
    BY <2>6, <1>w, WebKept DEF LocalAnswer, ApiAnswer, LocalTls, AwaitLine, AwaitLocal, LocalSecure, SecurePage, Jump, Rdir,
       ConnectReuse, Established, InRedirected
  <2> QED BY <1>5, <2>1, <2>2, <2>3, <2>4, <2>5, <2>6 DEF ConnectWebsite
<1>6. CASE ProcessIn
  <2>1. CASE InRaw
    BY <2>1, <1>k, <1>w, WebKept DEF InRaw
  <2>2. CASE InFinish
    BY <2>2, <1>k DEF InFinish, EndExchange
  <2>3. CASE \/ InReturn \/ InStart \/ InFirstLine \/ InGarbage \/ InHeaders \/ InDecodeBad
             \/ InDecode \/ InChunk \/ InTunneling
    BY <2>3, <1>w, WebKept DEF InReturn, InStart, InFirstLine, InGarbage, InHeaders, InDecodeBad,
       InDecode, InChunk, InTunneling
  <2> QED BY <1>6, <2>1, <2>2, <2>3 DEF ProcessIn
<1> QED BY <1>1, <1>2, <1>3, <1>4, <1>5, <1>6 DEF Next, Thread

\* When the thread rests there is nothing left for the browser.
EmptiedInv ==
  brConn =>
    /\ pc \in {"innerReceiveOut", "outerEnd"} => sendInBuf = <<>>
    /\ pc = "innerEnd" /\ innerRest => sendInBuf = <<>>
    /\ (pc = "procOut" \/ pc \in Connecting) /\ ret = "innerEnd" => ~innerRest

LEMMA EmptiedStep == DataInv /\ PathInv /\ EmptiedInv /\ [Next]_vars => EmptiedInv'
<1> SUFFICES ASSUME DataInv, PathInv, EmptiedInv, [Next]_vars, brConn' PROVE EmptiedInv'
  BY DEF EmptiedInv
<1>b. brConn /\ innerRest \in BOOLEAN /\ ret \in Returns
      /\ (pc = "inRedirected" => outStep # "DECODE") /\ (pc = "outSend" => outStep = "DECODE")
  BY BrConnFalls DEF DataInv, FlagInv, CountInv, ConnectsInv
<1>s. ASSUME NEW buf, NEW keep, SendIn(buf, keep) PROVE sendInBuf' = <<>> \/ (keep /\ sendInBuf' = <<>>)
  BY <1>s, <1>b DEF SendIn
<1> USE DEF EmptiedInv, Connecting, Routing, Returns, InReturns, restVars, inBufs, stepVars
<1>1. CASE UNCHANGED vars \/ Terminated
  BY <1>1, <1>b DEF vars, Terminated
<1>2. CASE Environment
  BY <1>2, <1>b, EnvironmentLeavesThread DEF threadVars
<1>3. CASE ManageLoop
  <2>1. CASE OuterSend \/ InnerSendIn \/ TrailSend \/ Trail503
    BY <2>1, <1>s DEF OuterSend, InnerSendIn, TrailSend, Trail503
  <2>2. CASE OuterReceive \/ InnerReceiveOut
    BY <2>2, <1>b DEF OuterReceive, InnerReceiveOut, ReceivedOut
  <2>3. CASE InnerSendOut \/ InnerReceiveIn \/ InnerEnd \/ TrailReceive \/ TrailFeed \/ OuterEnd \/ Destroy
    BY <2>3 DEF InnerSendOut, InnerReceiveIn, InnerEnd, TrailReceive, TrailFeed, OuterEnd, Destroy
  <2> QED BY <1>3, <2>1, <2>2, <2>3 DEF ManageLoop
<1>4. CASE ProcessOut
  <2>1. CASE OutDecodeBad \/ OutDecode
    BY <2>1, <1>b DEF OutDecodeBad, OutDecode
  <2>2. CASE \/ OutReturn \/ OutStart \/ OutFirstLine \/ OutHeaders \/ OutSend
             \/ OutChunk \/ OutRaw \/ OutTunneling
    BY <2>2, <1>b DEF OutReturn, OutStart, OutFirstLine, OutHeaders, OutSend,
        OutChunk, OutRaw, OutTunneling
  <2>3. CASE OutFinish
    BY <2>3, <1>b DEF OutFinish
  <2> QED BY <1>4, <2>1, <2>2, <2>3 DEF ProcessOut
<1>5. CASE ConnectWebsite
  <2> SUFFICES /\ ret' = ret /\ innerRest' = innerRest
               /\ pc \in Connecting /\ (pc' \in Connecting \cup {"raise"} \/ (pc' = "procIn"))
    BY <1>b
  <2> USE DEF ConnectReturn
  <2>1. CASE ConnectFlush \/ LocalAnswer \/ ApiAnswer \/ LocalTls \/ AwaitLine \/ AwaitLocal \/ LocalSecure
    BY <2>1 DEF ConnectFlush, LocalAnswer, ApiAnswer, LocalTls, AwaitLine, AwaitLocal, LocalSecure, SecurePage
  <2>2. CASE Jump \/ Rdir \/ ConnectReuse \/ ConnectFail
    BY <2>2 DEF Jump, Rdir, ConnectReuse, ConnectFail, ToWebsite
  <2>3. CASE ConnectOpen
    BY <2>3 DEF ConnectOpen, ToWebsite
  <2>4. CASE Established \/ ViaProxy \/ AwaitProxy \/ Tls \/ Resend \/ InRedirected
    BY <2>4 DEF Established, ViaProxy, AwaitProxy, Tls, Resend, InRedirected
  <2> QED BY <1>5, <2>1, <2>2, <2>3, <2>4 DEF ConnectWebsite
<1>6. CASE ProcessIn
  <2>1. pc = "procIn" /\ ret \in InReturns
    BY <1>6 DEF PathInv, ProcessIn, InReturn, InStart, InFirstLine, InGarbage, InHeaders, InDecodeBad,
        InDecode, InChunk, InRaw, InTunneling, InFinish
  <2>2. ret' = ret /\ pc' \in {pc, ret, "connect", "raise"}
    <3>1. CASE InDecode
      BY <3>1 DEF InDecode, Relay
    <3>2. CASE \/ InReturn \/ InStart \/ InFirstLine \/ InGarbage \/ InHeaders \/ InDecodeBad
               \/ InChunk \/ InRaw \/ InTunneling \/ InFinish
      BY <3>2 DEF InReturn, InStart, InFirstLine, InGarbage, InHeaders, InDecodeBad,
         InChunk, InRaw, InTunneling, InFinish
    <3> QED BY <1>6, <3>1, <3>2 DEF ProcessIn
  <2> QED BY <2>1, <2>2
<1> QED BY <1>1, <1>2, <1>3, <1>4, <1>5, <1>6 DEF Next, Thread

-----------------------------------------------------------------------------
(* Outside tunnels the streams carry requests and responses only.          *)

\* A tunnel is left only for an intercepted one, and that for good.
LEMMA GuardBack == DataInv /\ [Next]_vars /\ Guarded' => Guarded /\ (Orderly' = Orderly)
<1> SUFFICES ASSUME DataInv, [Next]_vars, Guarded' PROVE Guarded /\ (Orderly' = Orderly)
  OBVIOUS
<1>1. Orderly' = Orderly
  BY SettingStays DEF Orderly, MaxStray, Interims, InFilters, Responses
<1>b. brSecure \in BOOLEAN /\ (pc = "outSend" => outStep = "DECODE") /\ ~brSecure'
      /\ outStep' # "TUNNELING"
  BY DEF DataInv, FlagInv, ConnectsInv, Guarded
<1>2. ~brSecure /\ outStep # "TUNNELING"
  <2> USE DEF stepVars, socketVars
  <2>1. CASE UNCHANGED vars \/ Terminated
    BY <2>1, <1>b DEF vars, Terminated
  <2>2. CASE Environment
    BY <2>2, <1>b, EnvironmentLeavesThread DEF threadVars
  <2>3. CASE ManageLoop
    BY <2>3, <1>b DEF ManageLoop, OuterReceive, OuterSend, InnerSendOut, InnerReceiveIn,
       InnerSendIn, InnerReceiveOut, InnerEnd, TrailReceive, TrailFeed, TrailSend, Trail503,
       OuterEnd, Destroy
  <2>4. CASE ProcessOut
    <3>1. CASE OutTunneling
      BY <3>1, <1>b DEF OutTunneling
    <3>2. CASE \/ OutReturn \/ OutStart \/ OutFirstLine \/ OutHeaders \/ OutDecodeBad \/ OutDecode \/ OutSend
               \/ OutChunk \/ OutRaw \/ OutFinish
      BY <3>2, <1>b DEF OutReturn, OutStart, OutFirstLine, OutHeaders, OutDecodeBad, OutDecode, OutSend,
         OutChunk, OutRaw, OutFinish
    <3> QED BY <2>4, <3>1, <3>2 DEF ProcessOut
  <2>5. CASE ConnectWebsite
    <3>1. outStep' = outStep /\ brSecure' \in {brSecure, TRUE}
      <4>1. CASE LocalTls \/ Tls
        BY <4>1 DEF LocalTls, Tls
      <4>2. CASE \/ ConnectFlush \/ LocalAnswer \/ ApiAnswer \/ AwaitLine \/ AwaitLocal \/ LocalSecure \/ Jump
                 \/ Rdir \/ ConnectReuse \/ ConnectFail \/ ConnectOpen
        BY <4>2 DEF ConnectFlush, LocalAnswer, ApiAnswer, AwaitLine, AwaitLocal, LocalSecure, SecurePage, Jump, Rdir,
           ConnectReuse, ConnectFail, ConnectOpen
      <4>3. CASE Established \/ ViaProxy \/ AwaitProxy \/ Resend \/ InRedirected
        BY <4>3 DEF Established, ViaProxy, AwaitProxy, Resend, InRedirected
      <4> QED BY <2>5, <4>1, <4>2, <4>3 DEF ConnectWebsite
    <3> QED BY <3>1, <1>b
  <2>6. CASE ProcessIn
    <3>1. CASE InDecode
      <4>1. brSecure' = brSecure /\ outStep' \in {outStep, "TUNNELING"}
        BY <3>1 DEF InDecode, Relay
      <4> QED BY <4>1, <1>b
    <3>2. CASE InFinish
      BY <3>2, <1>b DEF InFinish
    <3>3. CASE \/ InReturn \/ InStart \/ InFirstLine \/ InGarbage \/ InHeaders \/ InDecodeBad
               \/ InChunk \/ InRaw \/ InTunneling
      BY <3>3, <1>b DEF InReturn, InStart, InFirstLine, InGarbage, InHeaders, InDecodeBad,
         InChunk, InRaw, InTunneling
    <3> QED BY <2>6, <3>1, <3>2, <3>3 DEF ProcessIn
  <2> QED BY <2>1, <2>2, <2>3, <2>4, <2>5, <2>6 DEF Next, Thread
<1> QED BY <1>1, <1>2 DEF Guarded

Asked == {t \in Token : t.k \notin {"qhead", "tun"}}
Said  == {t \in Token : t.k = "rhead" => t.v # "tunnel"}

AskInv ==
  Guarded => /\ recvOutBuf \in Seq(Asked)
             /\ browser.net \in Seq(Asked) /\ browser.queue \in Seq(Asked)
             /\ \A r \in DOMAIN reqs : reqs[r].m # "tun"
SaidInv ==
  Guarded => browser.got \in Seq(Said) /\ sendInBuf \in Seq(Said)

LEMMA SaidOK ==
  ASSUME NEW k \in Kinds, NEW r \in Nat, NEW v \in Values, k # "rhead" \/ v # "tunnel"
  PROVE  Tok(k, r, v) \in Said /\ <<Tok(k, r, v)>> \in Seq(Said)
<1>1. Tok(k, r, v) \in Token /\ Tok(k, r, v).k = k /\ Tok(k, r, v).v = v
  BY TokenOK DEF Tok
<1> DEFINE t == Tok(k, r, v)
<1>2. t \in Said
  BY <1>1 DEF Said
<1> HIDE DEF t
<1>3. <<t>> \in Seq(Said)
  BY <1>2
<1> QED BY <1>2, <1>3 DEF t

LEMMA NotUpgraded == ASSUME browser.got \in Seq(Said) PROVE ~Upgraded
<1>1. \A i \in DOMAIN browser.got : browser.got[i] \in Said
  BY ElementOfSeq, LenProperties
<1> QED BY <1>1 DEF Upgraded, Said

\* What the browser has begun to send.
LEMMA RequestAsked ==
  ASSUME NEW r \in Nat, NEW body PROVE RequestTokens(r, body) \in Seq(Asked)
<1> DEFINE t(k) == Tok(k, r, "-")
<1>1. \A k \in {"line", "hdr", "byte", "size", "last"} : t(k) \in Asked
  BY DEF Tok, Token, Asked, Kinds, Values
<1>5. RequestTokens(r, body) = <<t("line"), t("hdr")>> \o
        CASE body = "len" -> <<t("byte"), t("byte")>>
          [] body = "chunk" -> <<t("size"), t("byte"), t("last")>>
          [] OTHER -> <<>>
  BY DEF RequestTokens
<1> HIDE DEF t
<1>2. /\ t("line") \in Asked /\ t("hdr") \in Asked /\ t("byte") \in Asked
      /\ t("size") \in Asked /\ t("last") \in Asked
  BY <1>1
<1>3. /\ <<t("line"), t("hdr")>> \in Seq(Asked) /\ <<t("byte"), t("byte")>> \in Seq(Asked)
      /\ <<t("size"), t("byte"), t("last")>> \in Seq(Asked) /\ <<>> \in Seq(Asked)
  BY <1>2
<1>4. /\ <<t("line"), t("hdr")>> \o <<t("byte"), t("byte")>> \in Seq(Asked)
      /\ <<t("line"), t("hdr")>> \o <<t("size"), t("byte"), t("last")>> \in Seq(Asked)
      /\ <<t("line"), t("hdr")>> \o <<>> \in Seq(Asked)
  BY <1>3, ConcatProperties
<1> QED BY <1>4, <1>5

LEMMA AskStep == DataInv /\ AskInv /\ SaidInv /\ [Next]_vars => AskInv'
<1> SUFFICES ASSUME DataInv, AskInv, SaidInv, [Next]_vars, Guarded' PROVE AskInv'
  BY DEF AskInv
<1>g. Guarded
  BY GuardBack
<1>a. /\ recvOutBuf \in Seq(Asked) /\ browser.net \in Seq(Asked) /\ browser.queue \in Seq(Asked)
      /\ \A r \in DOMAIN reqs : reqs[r].m # "tun"
  BY <1>g DEF AskInv
<1>b. browser \in BrowserEnd(Len(reqs)) /\ reqs \in Seq(Request) /\ <<>> \in Seq(Asked)
  BY StreamOK DEF DataInv, RequestInv
<1>k. ASSUME NEW buf \in Seq(Asked), recvOutBuf' = buf, UNCHANGED reqs,
             browser'.net \in {browser.net, <<>>}, browser'.queue = browser.queue
      PROVE  AskInv'
  BY <1>a, <1>b, <1>k DEF AskInv
<1>s. ASSUME NEW buf, NEW keep, SendIn(buf, keep)
      PROVE  browser'.net = browser.net /\ browser'.queue = browser.queue
  BY <1>s, <1>b DEF SendIn, BrowserEnd
<1>r. ASSUME ReceiveOut
      PROVE  /\ browser'.net \in {browser.net, <<>>} /\ browser'.queue = browser.queue
             /\ recvOutBuf' \in Seq(Asked)
  <2>1. recvOutBuf \o browser.net \in Seq(Asked)
    BY <1>a, ConcatProperties
  <2> QED BY <1>r, <1>a, <1>b, <2>1 DEF ReceiveOut, BrowserEnd
<1>w. ASSUME NEW r, ApiWrite(r)
      PROVE  browser'.net = browser.net /\ browser'.queue = browser.queue
  BY <1>w, <1>b DEF ApiWrite, BrowserEnd
<1>t. recvOutBuf # <<>> => Tail(recvOutBuf) \in Seq(Asked)
  BY <1>a, HeadTailProperties
<1> USE DEF outBufs, envVars
<1>1. CASE UNCHANGED vars \/ Terminated
  <2>1. UNCHANGED <<recvOutBuf, reqs, browser>>
    BY <1>1 DEF vars, Terminated
  <2> QED BY <2>1, <1>a, <1>k
<1>2. CASE Environment
  <2>0. recvOutBuf' = recvOutBuf
    BY <1>2, EnvironmentLeavesThread DEF threadVars
  <2>1. CASE BrowserRequest
    <3>1. PICK m \in Methods, h \in Hosts, b \in Bodies \cup {"none"} :
            /\ reqs' = Append(reqs, [m |-> m, h |-> h, b |-> b])
            /\ browser' = [browser EXCEPT !.queue = RequestTokens(Len(reqs) + 1, b)]
      BY <2>1 DEF BrowserRequest
    <3>2. Len(reqs) \in Nat /\ m # "tun"
      <4>1. Methods \subseteq {"GET", "HEAD", "POST", "CONNECT"}
        BY ConstantsOK DEF DataInv, PeerInv, Setting, Methods
      <4> QED BY <4>1, <1>b, LenProperties
    <3>3. browser'.net = browser.net /\ browser'.queue \in Seq(Asked)
      <4>1. RequestTokens(Len(reqs) + 1, b) \in Seq(Asked)
        BY <3>2, RequestAsked
      <4> QED BY <3>1, <4>1, <1>b DEF BrowserEnd
    <3>4. \A r \in DOMAIN reqs' : reqs'[r].m # "tun"
      <4> DEFINE q == [m |-> m, h |-> h, b |-> b]
      <4>1. q.m # "tun"
        BY <3>2
      <4> HIDE DEF q
      <4>2. /\ DOMAIN reqs' = 1..Len(reqs) + 1 /\ reqs'[Len(reqs) + 1] = q
            /\ \A r \in DOMAIN reqs : reqs'[r] = reqs[r]
            /\ DOMAIN reqs = 1..Len(reqs)
        BY <1>b, <3>1, <3>2 DEF q
      <4>3. \A r \in 1..Len(reqs) + 1 : r = Len(reqs) + 1 \/ r \in 1..Len(reqs)
        BY <3>2
      <4> QED BY <4>1, <4>2, <4>3, <1>a
    <3> QED BY <2>0, <3>3, <3>4, <1>a DEF AskInv
  <2>2. CASE BrowserTunnel
    BY <2>2, <1>g, NotUpgraded DEF BrowserTunnel, SaidInv, Guarded
  <2>3. CASE BrowserSend
    <3>1. /\ browser.queue # <<>> /\ reqs' = reqs
          /\ browser'.queue = Tail(browser.queue)
          /\ browser'.net = Append(browser.net, Head(browser.queue))
      BY <2>3, <1>b DEF BrowserSend, BrowserEnd
    <3>2. Head(browser.queue) \in Asked /\ Tail(browser.queue) \in Seq(Asked)
      BY <1>a, <3>1, HeadTailProperties
    <3>3. Append(browser.net, Head(browser.queue)) \in Seq(Asked)
      BY <1>a, <3>2, AppendProperties
    <3> QED BY <2>0, <3>1, <3>2, <3>3, <1>a DEF AskInv
  <2>4. CASE BrowserClose
    <3>1. browser'.queue = <<>> /\ browser'.net = browser.net /\ reqs' = reqs
      BY <2>4, <1>b DEF BrowserClose, BrowserEnd
    <3> QED BY <2>0, <3>1, <1>a, <1>b DEF AskInv
  <2>5. CASE \/ WebsiteAnswer \/ WebsiteTunnel \/ WebsiteInterim \/ WebsiteStray \/ WebsiteSend \/ WebsiteClose
             \/ Stall \/ IdleExpire \/ SwitchToInvalid
    <3>1. UNCHANGED <<browser, reqs>>
      BY <2>5 DEF WebsiteAnswer, WebsiteTunnel, WebsiteInterim, WebsiteStray, WebsiteSend, WebsiteClose, Stall,
         IdleExpire, SwitchToInvalid
    <3> QED BY <2>0, <3>1, <1>a, <1>k
  <2> QED BY <1>2, <2>1, <2>2, <2>3, <2>4, <2>5 DEF Environment
<1>3. CASE ManageLoop
  <2>1. CASE OuterReceive \/ InnerReceiveOut
    <3>1. ReceiveOut /\ reqs' = reqs
      BY <2>1 DEF OuterReceive, InnerReceiveOut
    <3> QED BY <3>1, <1>k, <1>r
  <2>2. CASE OuterSend \/ InnerSendIn \/ TrailSend \/ Trail503
    <3>1. UNCHANGED <<recvOutBuf, reqs>> /\ \E buf, keep : SendIn(buf, keep)
      BY <2>2 DEF OuterSend, InnerSendIn, TrailSend, Trail503
    <3> QED BY <3>1, <1>a, <1>k, <1>s
  <2>3. CASE \/ InnerSendOut \/ InnerReceiveIn \/ InnerEnd \/ TrailReceive \/ TrailFeed
             \/ OuterEnd \/ Destroy
    <3>1. UNCHANGED <<recvOutBuf, reqs, browser>>
      BY <2>3 DEF InnerSendOut, InnerReceiveIn, InnerEnd, TrailReceive, TrailFeed, OuterEnd, Destroy
    <3> QED BY <3>1, <1>a, <1>k
  <2> QED BY <1>3, <2>1, <2>2, <2>3 DEF ManageLoop
<1>4. CASE ProcessOut
  <2>1. CASE OutFirstLine \/ OutHeaders \/ OutChunk
    <3>1. recvOutBuf # <<>> /\ recvOutBuf' = Tail(recvOutBuf) /\ UNCHANGED <<reqs, browser>>
      BY <2>1 DEF OutFirstLine, OutHeaders, OutChunk, NextIs
    <3> QED BY <3>1, <1>t, <1>k
  <2>2. CASE OutRaw
    <3> DEFINE n == CopySize(recvOutBuf, out.size)
    <3>1. recvOutBuf' = SubSeq(recvOutBuf, n + 1, Len(recvOutBuf)) /\ UNCHANGED <<reqs, browser>>
      BY <2>2 DEF OutRaw
    <3>2. n \in 0..Len(recvOutBuf)
      <4>1. Len(recvOutBuf) \in Nat /\ out.size \in Nat
        BY <1>a, LenProperties DEF DataInv, RequestInv, Out
      <4> QED BY <4>1 DEF CopySize
    <3> HIDE DEF n
    <3>3. SubSeq(recvOutBuf, n + 1, Len(recvOutBuf)) \in Seq(Asked)
      BY <1>a, <3>2, CutType
    <3> QED BY <3>1, <3>3, <1>k
  <2>3. CASE OutTunneling
    BY <2>3, <1>g DEF OutTunneling, Guarded
  <2>4. CASE OutFinish
    <3>1. UNCHANGED <<recvOutBuf, reqs>> /\ ((\E buf, keep : SendIn(buf, keep)) \/ browser' = browser)
      BY <2>4 DEF OutFinish, EndExchange
    <3> QED BY <3>1, <1>a, <1>k, <1>s
  <2>5. CASE OutReturn \/ OutStart \/ OutDecodeBad \/ OutDecode \/ OutSend
    <3>1. UNCHANGED <<recvOutBuf, reqs, browser>>
      BY <2>5 DEF OutReturn, OutStart, OutDecodeBad, OutDecode, OutSend
    <3> QED BY <3>1, <1>a, <1>k
  <2> QED BY <1>4, <2>1, <2>2, <2>3, <2>4, <2>5 DEF ProcessOut
<1>5. CASE ConnectWebsite
  <2>1. CASE LocalAnswer \/ Established
    <3>1. UNCHANGED <<recvOutBuf, reqs>> /\ \E buf, keep : SendIn(buf, keep)
      BY <2>1 DEF LocalAnswer, Established
    <3> QED BY <3>1, <1>a, <1>k, <1>s
  <2>2. CASE ApiAnswer
    <3>1. UNCHANGED <<recvOutBuf, reqs>> /\ \E r : ApiWrite(r)
      BY <2>2 DEF ApiAnswer
    <3> QED BY <3>1, <1>a, <1>k, <1>w
  <2>3. CASE AwaitLine
    <3>1. ReceiveOut /\ reqs' = reqs
      BY <2>3 DEF AwaitLine
    <3> QED BY <3>1, <1>k, <1>r
  <2>4. CASE AwaitLocal
    <3>1. recvOutBuf' = <<>> /\ reqs' = reqs
          /\ ((\E buf, keep : SendIn(buf, keep)) \/ \E r : ApiWrite(r))
      BY <2>4 DEF AwaitLocal, SecurePage
    <3> QED BY <3>1, <1>b, <1>k, <1>s, <1>w
  <2>5. CASE LocalTls
    <3>1. UNCHANGED <<recvOutBuf, reqs, browser>>
      BY <2>5 DEF LocalTls, Guarded
    <3> QED BY <3>1, <1>a, <1>k
  <2>6. CASE \/ ConnectFlush \/ Jump \/ Rdir \/ ConnectReuse \/ ConnectFail \/ ConnectOpen
             \/ ViaProxy \/ AwaitProxy \/ Tls \/ Resend \/ InRedirected
    <3>1. UNCHANGED <<recvOutBuf, reqs, browser>>
      BY <2>6 DEF ConnectFlush, Jump, Rdir, ConnectReuse, ConnectFail, ConnectOpen, ViaProxy,
         AwaitProxy, Tls, Resend, InRedirected
    <3> QED BY <3>1, <1>a, <1>k
  <2>7. CASE LocalSecure
    <3>1. /\ recvOutBuf' = recvOutBuf /\ reqs' = reqs
          /\ \/ \E buf, keep : SendIn(buf, keep)
             \/ \E r : ApiWrite(r)
             \/ browser' = browser
      BY <2>7 DEF LocalSecure, SecurePage
    <3> QED BY <3>1, <1>a, <1>k, <1>s, <1>w
  <2> QED BY <1>5, <2>1, <2>2, <2>3, <2>4, <2>5, <2>6, <2>7 DEF ConnectWebsite
<1>6. CASE ProcessIn
  <2>1. CASE InFinish
    <3>1. UNCHANGED <<recvOutBuf, reqs>> /\ ((\E buf, keep : SendIn(buf, keep)) \/ browser' = browser)
      BY <2>1 DEF InFinish, EndExchange
    <3> QED BY <3>1, <1>a, <1>k, <1>s
  <2>2. CASE \/ InReturn \/ InStart \/ InFirstLine \/ InGarbage \/ InHeaders \/ InDecodeBad
             \/ InDecode \/ InChunk \/ InRaw \/ InTunneling
    <3>1. UNCHANGED <<recvOutBuf, reqs, browser>>
      BY <2>2 DEF InReturn, InStart, InFirstLine, InGarbage, InHeaders, InDecodeBad,
         InDecode, InChunk, InRaw, InTunneling
    <3> QED BY <3>1, <1>a, <1>k
  <2> QED BY <1>6, <2>1, <2>2 DEF ProcessIn
<1> QED BY <1>1, <1>2, <1>3, <1>4, <1>5, <1>6 DEF Next, Thread

LEMMA SaidMore ==
  ASSUME NEW s \in Seq(Said), NEW t \in Seq(Said), NEW r \in Nat, NEW n \in Nat, NEW i
  PROVE  /\ s \o t \in Seq(Said) /\ <<>> \in Seq(Said)
         /\ Ended(s, r, i) \in Seq(Said)
         /\ [j \in 1..n |-> Tok("data", r, "-")] \in Seq(Said)
         /\ [j \in 1..n |-> Tok("fake", r, "200")] \in Seq(Said)
<1>1. s \o t \in Seq(Said) /\ <<>> \in Seq(Said)
  BY ConcatProperties
<1>2. {"end", "data", "fake"} \subseteq Kinds /\ {"-", "200"} \subseteq Values
  BY DEF Kinds, Values, Codes
<1>3. Tok("end", r, "-") \in Said /\ Tok("data", r, "-") \in Said /\ Tok("fake", r, "200") \in Said
  BY <1>2, SaidOK
<1>4. Ended(s, r, i) \in Seq(Said)
  <2>1. Append(s, Tok("end", r, "-")) \in Seq(Said)
    BY <1>3, AppendProperties
  <2> QED BY <2>1 DEF Ended
<1>5. \A m \in Nat, x \in Said : [j \in 1..m |-> x] \in Seq(Said)
  BY SeqDef
<1> QED BY <1>1, <1>3, <1>4, <1>5

LEMMA SaidStep == DataInv /\ SourceInv /\ SaidInv /\ [Next]_vars => SaidInv'
<1> SUFFICES ASSUME DataInv, SourceInv, SaidInv, [Next]_vars, Guarded' PROVE SaidInv'
  BY DEF SaidInv
<1>g. Guarded
  BY GuardBack
<1>a. browser.got \in Seq(Said) /\ sendInBuf \in Seq(Said)
  BY <1>g DEF SaidInv
<1>b. /\ browser \in BrowserEnd(Len(reqs)) /\ <<>> \in Seq(Said)
      /\ out.req \in Nat /\ in \in In /\ in.resp \in Nat
  BY StreamOK DEF In
<1>k. ASSUME browser'.got = browser.got, sendInBuf' \in Seq(Said) PROVE SaidInv'
  BY <1>a, <1>k DEF SaidInv
<1>s. ASSUME NEW buf \in Seq(Said), NEW keep, SendIn(buf, keep) PROVE SaidInv'
  <2>1. browser.got \o buf \in Seq(Said)
    BY <1>a, SaidMore
  <2>2. browser'.got \in {browser.got, browser.got \o buf}
    BY <1>s, <1>b DEF SendIn, BrowserEnd
  <2>3. sendInBuf' \in {buf, <<>>}
    BY <1>s DEF SendIn
  <2> QED BY <2>1, <2>2, <2>3, <1>a, <1>b DEF SaidInv
<1>w. ASSUME NEW r \in Nat, ApiWrite(r), sendInBuf' = sendInBuf PROVE SaidInv'
  <2>1. CASE UNCHANGED browser
    BY <2>1, <1>a, <1>k, <1>w
  <2>2. CASE \E n \in 1..MaxCopies :
               browser' = [browser EXCEPT !.got = @ \o [i \in 1..n |-> Tok("fake", r, "200")]]
    <3>1. PICK n \in 1..MaxCopies :
            browser' = [browser EXCEPT !.got = @ \o [i \in 1..n |-> Tok("fake", r, "200")]]
      BY <2>2
    <3>2. browser.got \o [i \in 1..n |-> Tok("fake", r, "200")] \in Seq(Said)
      <4>1. n \in Nat
        BY DEF MaxCopies
      <4>2. [i \in 1..n |-> Tok("fake", r, "200")] \in Seq(Said)
        BY <4>1, <1>a, SaidMore
      <4> QED BY <4>2, <1>a, ConcatProperties
    <3>3. browser'.got = browser.got \o [i \in 1..n |-> Tok("fake", r, "200")]
      BY <3>1, <1>b DEF BrowserEnd
    <3> QED BY <3>2, <3>3, <1>a, <1>w DEF SaidInv
  <2> QED BY <2>1, <2>2, <1>w DEF ApiWrite
<1>f. \A r \in Nat, v \in {"200", "302", "503", "50x"} : <<Tok("fake", r, v)>> \in Seq(Said)
  <2>1. "fake" \in Kinds /\ {"200", "302", "503", "50x"} \subseteq Values
    BY DEF Kinds, Values, Codes
  <2> QED BY <2>1, SaidOK
<1> USE DEF inBufs, stepVars, socketVars
<1>1. CASE UNCHANGED vars \/ Terminated
  <2>1. UNCHANGED <<browser, sendInBuf>>
    BY <1>1 DEF vars, Terminated
  <2> QED BY <2>1, <1>a, <1>k
<1>2. CASE Environment
  <2>1. sendInBuf' = sendInBuf
    BY <1>2, EnvironmentLeavesThread DEF threadVars
  <2> QED BY <2>1, <1>2, <1>a, <1>k, OpenStays
<1>3. CASE ManageLoop
  <2>1. CASE OuterReceive \/ InnerReceiveOut
    <3>1. ReceiveOut /\ sendInBuf' = sendInBuf
      BY <2>1 DEF OuterReceive, InnerReceiveOut
    <3> QED BY <3>1, <1>a, <1>k, ReceiveOutStream
  <2>2. CASE OuterSend \/ InnerSendIn \/ TrailSend \/ Trail503
    <3>1. SendIn(sendInBuf, TRUE) \/ SendIn(<<Tok("fake", out.req, "503")>>, FALSE)
      BY <2>2 DEF OuterSend, InnerSendIn, TrailSend, Trail503
    <3> QED BY <3>1, <1>a, <1>b, <1>f, <1>s
  <2>3. CASE TrailFeed
    <3>1. browser' = browser /\ sendInBuf' \in {sendInBuf, Ended(sendInBuf, in.resp, in)}
      BY <2>3 DEF TrailFeed
    <3>2. Ended(sendInBuf, in.resp, in) \in Seq(Said)
      BY <1>a, <1>b, SaidMore
    <3> QED BY <3>1, <3>2, <1>a, <1>k
  <2>4. CASE InnerSendOut \/ InnerReceiveIn \/ InnerEnd \/ TrailReceive \/ OuterEnd \/ Destroy
    <3>1. UNCHANGED <<browser, sendInBuf>>
      BY <2>4 DEF InnerSendOut, InnerReceiveIn, InnerEnd, TrailReceive, OuterEnd, Destroy
    <3> QED BY <3>1, <1>a, <1>k
  <2> QED BY <1>3, <2>1, <2>2, <2>3, <2>4 DEF ManageLoop
<1>e. ASSUME NEW close, EndExchange(close) PROVE SaidInv'
  <2>1. SendIn(sendInBuf, FALSE) \/ UNCHANGED <<sendInBuf, browser>>
    BY <1>e DEF EndExchange
  <2> QED BY <2>1, <1>a, <1>k, <1>s
<1>4. CASE ProcessOut
  <2>1. CASE OutFinish
    BY <2>1, <1>e DEF OutFinish
  <2>2. CASE \/ OutReturn \/ OutStart \/ OutFirstLine \/ OutHeaders \/ OutDecodeBad \/ OutDecode \/ OutSend
             \/ OutChunk \/ OutRaw \/ OutTunneling
    <3>1. UNCHANGED <<browser, sendInBuf>>
      BY <2>2 DEF OutReturn, OutStart, OutFirstLine, OutHeaders, OutDecodeBad, OutDecode, OutSend, OutChunk,
         OutRaw, OutTunneling
    <3> QED BY <3>1, <1>a, <1>k
  <2> QED BY <1>4, <2>1, <2>2 DEF ProcessOut
<1>5. CASE ConnectWebsite
  <2>1. CASE ConnectFlush
    BY <2>1, <1>b, <1>k DEF ConnectFlush
  <2>2. CASE LocalAnswer \/ Established
    <3>1. SendIn(sendInBuf, TRUE) \/ SendIn(<<Tok("fake", out.req, "200")>>, TRUE)
      BY <2>2 DEF LocalAnswer, Established, Page
    <3> QED BY <3>1, <1>a, <1>b, <1>f, <1>s
  <2>3. CASE ApiAnswer
    BY <2>3, <1>b, <1>w DEF ApiAnswer
  <2>4. CASE AwaitLine
    BY <2>4, <1>a, <1>k, ReceiveOutStream DEF AwaitLine
  <2>5. CASE AwaitLocal
    <3> DEFINE r == IF NextIs(recvOutBuf, {"line"}) THEN Head(recvOutBuf).r ELSE out.req
    <3>1. SendIn(<<Tok("fake", r, "200")>>, TRUE) \/ (ApiWrite(r) /\ sendInBuf' = sendInBuf)
      BY <2>5 DEF AwaitLocal, SecurePage
    <3>2. r \in Nat
      <4>1. CASE NextIs(recvOutBuf, {"line"})
        <5>1. Head(recvOutBuf) \in Token
          <6>1. recvOutBuf \in Seq(Piece(Len(reqs))) /\ Len(reqs) \in Nat
            BY StreamOK DEF DataInv, RequestInv
          <6>2. recvOutBuf \in Seq(Token)
            BY <6>1, PiecesAreTokens, TokensDef
          <6> QED BY <4>1, <6>2, HeadTailProperties DEF NextIs
        <5> QED BY <4>1, <5>1 DEF Token
      <4> QED BY <4>1, <1>b
    <3> HIDE DEF r
    <3> QED BY <3>1, <3>2, <1>a, <1>f, <1>s, <1>w
  <2>6. CASE LocalTls
    <3>1. UNCHANGED <<browser, sendInBuf>>
      BY <2>6 DEF LocalTls, Guarded
    <3> QED BY <3>1, <1>a, <1>k
  <2>7. CASE Jump \/ ConnectFail
    <3>1. browser' = browser /\ (Fake("302") \/ Fake("50x"))
      BY <2>7 DEF Jump, ConnectFail
    <3> QED BY <3>1, <1>b, <1>f, <1>k DEF Fake
  <2>8. CASE ConnectOpen
    <3>1. browser' = browser /\ sendInBuf' \in {sendInBuf, <<Tok("est", out.req, "200")>>}
      BY <2>8 DEF ConnectOpen
    <3>2. "est" \in Kinds /\ "200" \in Values
      BY DEF Kinds, Values, Codes
    <3>3. <<Tok("est", out.req, "200")>> \in Seq(Said)
      BY <3>2, <1>b, SaidOK
    <3> QED BY <3>1, <3>3, <1>a, <1>k
  <2>9. CASE Rdir \/ ConnectReuse \/ ViaProxy \/ AwaitProxy \/ Tls \/ Resend \/ InRedirected
    <3>1. UNCHANGED <<browser, sendInBuf>>
      BY <2>9 DEF Rdir, ConnectReuse, ViaProxy, AwaitProxy, Tls, Resend, InRedirected
    <3> QED BY <3>1, <1>a, <1>k
  <2>10. CASE LocalSecure
    <3>1. \/ SendIn(<<Tok("fake", out.req, "200")>>, TRUE)
          \/ ApiWrite(out.req) /\ sendInBuf' = sendInBuf
          \/ UNCHANGED <<browser, sendInBuf>>
      BY <2>10 DEF LocalSecure, SecurePage
    <3> QED BY <3>1, <1>a, <1>b, <1>f, <1>k, <1>s, <1>w
  <2> QED BY <1>5, <2>1, <2>2, <2>3, <2>4, <2>5, <2>6, <2>7, <2>8, <2>9, <2>10 DEF ConnectWebsite
<1>6. CASE ProcessIn
  <2>1. CASE InDecode
    <3> DEFINE d == [in EXCEPT !.chunked = @ \/ (Says({"chunk"}) /\ out.method # "HEAD"),
                               !.size = BodySize]
               Goes(f, h, chain) ==
                 IF (IF f = "none" THEN owner.rdir ELSE f) # "none" /\ redirectedIn < MaxRedirect
                 THEN sendInBuf' = sendInBuf
                 ELSE Relay([d EXCEPT !.chain = chain /\ ContentType, !.dumped = FALSE])
    <3>1. \E f \in InFilters :
            \E h \in (IF f \in {"jump", "rdir"} THEN Hosts ELSE {owner.rdirHost}), chain \in Chains :
              Goes(f, h, chain)
      BY <2>1, ZenonT(40) DEF InDecode
    <3>2. PICK f, h, chain : Goes(f, h, chain)
      BY <3>1
    <3> DEFINE i == [d EXCEPT !.chain = chain /\ ContentType, !.dumped = FALSE]
    <3>3. sendInBuf' = sendInBuf \/ Relay(i)
      BY <3>2
    <3>4. i.code = in.code /\ i.resp = in.resp
      BY <1>b DEF In
    <3>5. browser' = browser
      BY <2>1 DEF InDecode
    <3> HIDE DEF i, d, Goes
    <3>6. ASSUME Relay(i) PROVE sendInBuf' \in Seq(Said)
      <4> DEFINE k == IF i.code \in {"100", "103"} THEN "interim" ELSE "rhead"
                 v == IF i.code = "101" THEN "tunnel"
                      ELSE IF out.method = "HEAD" \/ i.code = "204" THEN "none"
                      ELSE IF i.chunked \/ (i.chain /\ i.size > 0) THEN "chunk"
                      ELSE CASE i.size = 0 -> "none" [] i.size = 1 -> "len1"
                             [] i.size = 2 -> "len2" [] OTHER -> "eof"
      <4>1. i.code # "101"
        BY <3>6 DEF Relay, Guarded
      <4>2. k \in Kinds /\ v \in Values /\ v # "tunnel"
        <5>1. {"interim", "rhead"} \subseteq Kinds
          BY DEF Kinds
        <5>2. v \in {"none", "chunk", "len1", "len2", "eof"}
          BY <4>1
        <5>3. {"none", "chunk", "len1", "len2", "eof"} \subseteq Values
          BY DEF Values, Frames
        <5> HIDE DEF v
        <5> QED BY <5>1, <5>2, <5>3
      <4>3. sendInBuf' = <<Tok(k, i.resp, v)>>
        BY <3>6 DEF Relay, HeadFor
      <4> HIDE DEF k, v
      <4> QED BY <4>2, <4>3, <3>4, <1>b, SaidOK
    <3> QED BY <3>3, <3>5, <3>6, <1>a, <1>k
  <2>2. CASE InChunk
    <3>1. browser' = browser /\ sendInBuf' \in {sendInBuf, Ended(sendInBuf, in.resp, in)}
      BY <2>2 DEF InChunk
    <3>2. Ended(sendInBuf, in.resp, in) \in Seq(Said)
      BY <1>a, <1>b, SaidMore
    <3> QED BY <3>1, <3>2, <1>a, <1>k
  <2>3. CASE InRaw
    <3> DEFINE n == CopySize(recvInBuf, in.size)
               fed == [i \in 1..n |-> Tok("data", in.resp, "-")]
               body == IF in.dumped THEN sendInBuf ELSE sendInBuf \o fed
    <3>1. browser' = browser /\ sendInBuf' \in {body, Ended(body, in.resp, in)}
      BY <2>3 DEF InRaw
    <3>2. n \in Nat
      <4>1. Len(recvInBuf) \in Nat /\ in.size \in Nat
        BY <1>b, TokensDef, LenProperties DEF DataInv, ResponseInv, In
      <4> QED BY <4>1 DEF CopySize
    <3> HIDE DEF n
    <3>3. fed \in Seq(Said)
      BY <3>2, <1>a, <1>b, SaidMore
    <3> HIDE DEF fed
    <3>4. body \in Seq(Said)
      BY <3>3, <1>a, ConcatProperties
    <3> HIDE DEF body
    <3>5. Ended(body, in.resp, in) \in Seq(Said)
      BY <3>4, <1>b, SaidMore
    <3> QED BY <3>1, <3>4, <3>5, <1>k
  <2>4. CASE InTunneling
    <3>1. browser' = browser /\ sendInBuf' \in {sendInBuf, sendInBuf \o recvInBuf}
      BY <2>4 DEF InTunneling
    <3>2. Plain \subseteq Said
      BY DEF Plain, Said, IsHead
    <3>3. recvInBuf \in Seq(Said)
      BY <3>2, SeqMonotonic DEF SourceInv
    <3>4. sendInBuf \o recvInBuf \in Seq(Said)
      BY <3>3, <1>a, ConcatProperties
    <3> QED BY <3>1, <3>4, <1>a, <1>k
  <2>5. CASE InFinish
    BY <2>5, <1>e DEF InFinish
  <2>6. CASE InReturn \/ InStart \/ InFirstLine \/ InGarbage \/ InHeaders \/ InDecodeBad
    <3>1. UNCHANGED <<browser, sendInBuf>>
      BY <2>6 DEF InReturn, InStart, InFirstLine, InGarbage, InHeaders, InDecodeBad
    <3> QED BY <3>1, <1>a, <1>k
  <2> QED BY <1>6, <2>1, <2>2, <2>3, <2>4, <2>5, <2>6 DEF ProcessIn
<1> QED BY <1>1, <1>2, <1>3, <1>4, <1>5, <1>6 DEF Next, Thread

-----------------------------------------------------------------------------
(* What may be done to the stream from the website.                        *)

LEMMA JoinEmpty ==
  ASSUME NEW s \in Tokens
  PROVE  s \o <<>> = s /\ <<>> \o s = s /\ <<>> \in Tokens
BY TokensDef, ConcatEmptySeq

LEMMA JoinJoin ==
  ASSUME NEW s \in Tokens, NEW t \in Tokens, NEW u \in Tokens
  PROVE  (s \o t) \o u = s \o (t \o u) /\ s \o t \in Tokens
BY TokensDef, ConcatAssociative, ConcatProperties

LEMMA ShortSame ==
  ASSUME DataInv, UNCHANGED recvInBuf,
         UNCHANGED <<website.net, website.queue, website.open, website.todo, website.hinted>>
  PROVE  Shorter /\ Source' = Source
<1>1. Source \in Tokens /\ Source' = Source
  BY SourceOK DEF Source, Coming
<1>2. Source = Source' \o <<>>
  BY <1>1, JoinEmpty
<1> QED BY <1>1, <1>2, TokensDef DEF Shorter

LEMMA ShortClosed ==
  ASSUME DataInv, website' = Disconnected, recvInBuf' \in {recvInBuf, <<>>}
  PROVE  Shorter /\ Coming' = <<>> /\ Source' = recvInBuf' /\ website'.todo = {}
<1>1. /\ Disconnected.net = <<>> /\ Disconnected.queue = <<>> /\ Disconnected.open = FALSE
      /\ Disconnected.todo = {}
  BY DEF Disconnected
<1>2. recvInBuf \in Tokens /\ Coming \in Tokens /\ Source \in Tokens /\ recvInBuf' \in Tokens
  BY SourceOK, TokensDef
<1>3. Coming' = <<>>
  BY <1>1, TokensDef, JoinEmpty DEF Coming
<1>4. Source' = recvInBuf'
  BY <1>2, <1>3, JoinEmpty DEF Source
<1>5. recvInBuf' = recvInBuf => Source = Source' \o Coming
  BY <1>4 DEF Source
<1>6. recvInBuf' = <<>> => Source = Source' \o Source
  BY <1>2, <1>4, JoinEmpty
<1>7. \E t \in Tokens : Source = Source' \o t
  BY <1>2, <1>5, <1>6
<1> QED BY <1>1, <1>3, <1>4, <1>7 DEF Shorter

LEMMA ShortKept ==
  ASSUME DataInv, WebInv, NEW keep \in BOOLEAN, KeepWebsite(keep), UNCHANGED recvInBuf
  PROVE  Shorter /\ website' \in {website, Disconnected}
<1>1. CASE website' = website
  BY <1>1, ShortSame
<1>2. CASE website' = Disconnected
  BY <1>2, ShortClosed
<1> QED BY <1>1, <1>2 DEF KeepWebsite

LEMMA ShortReceive ==
  ASSUME DataInv, WebInv, ReceiveIn
  PROVE  Shorter /\ (website.net = <<>> \/ ~webConn => recvInBuf' = recvInBuf)
<1>1. /\ recvInBuf \in Tokens /\ website.net \in Tokens /\ website.queue \in Tokens
      /\ website \in WebsiteEnd /\ Source = (recvInBuf \o website.net) \o website.queue
      /\ recvInBuf \o website.net \in Tokens
  <2>1. /\ recvInBuf \in Tokens /\ website.net \in Tokens /\ website.queue \in Tokens
        /\ website \in WebsiteEnd
    BY SourceOK
  <2>2. /\ (recvInBuf \o website.net) \o website.queue = recvInBuf \o (website.net \o website.queue)
        /\ recvInBuf \o website.net \in Tokens
    BY <2>1, JoinJoin
  <2> QED BY <2>1, <2>2 DEF Source, Coming
<1>2. CASE webConn /\ website.open
  <2>1. /\ website'.net = <<>> /\ website'.queue = website.queue /\ website'.todo = website.todo
        /\ website'.open = website.open /\ website'.hinted = website.hinted
    BY <1>1, <1>2 DEF ReceiveIn, WebsiteEnd
  <2>2. Source' = (recvInBuf \o website.net) \o website.queue
    BY <1>1, <2>1, JoinEmpty DEF ReceiveIn, Source, Coming
  <2>3. Source = Source' \o <<>>
    BY <1>1, <2>2, JoinJoin, JoinEmpty
  <2>4. Shorter
    BY <2>1, <2>3, JoinEmpty, <1>1 DEF Shorter
  <2>5. website.net = <<>> => recvInBuf' = recvInBuf
    BY <1>1, JoinEmpty DEF ReceiveIn
  <2> QED BY <1>2, <2>4, <2>5
<1>3. CASE ~(webConn /\ website.open)
  <2>1. website' = Disconnected /\ recvInBuf' = recvInBuf \o website.net
    BY <1>3 DEF ReceiveIn
  <2>2. /\ Disconnected.net = <<>> /\ Disconnected.queue = <<>> /\ Disconnected.open = FALSE
        /\ Disconnected.todo = {}
    BY DEF Disconnected
  <2>3. Source' = recvInBuf \o website.net
    BY <1>1, <2>1, <2>2, JoinEmpty DEF Source, Coming
  <2>4. Shorter
    BY <1>1, <2>1, <2>2, <2>3 DEF Shorter
  <2>5. ~webConn => website.net = <<>>
    BY <2>2 DEF WebInv
  <2>6. website.net = <<>> => recvInBuf' = recvInBuf
    BY <1>1, <2>1, JoinEmpty
  <2> QED BY <2>4, <2>5, <2>6
<1> QED BY <1>2, <1>3

LEMMA ShortSend ==
  ASSUME DataInv, WebsiteSend
  PROVE  Shorter
<1>1. /\ recvInBuf' = recvInBuf /\ website \in WebsiteEnd /\ website.queue # <<>>
      /\ website.net \in Tokens /\ website.queue \in Tokens
  BY SourceOK DEF WebsiteSend, threadVars, inBufs
<1>2. /\ website'.net = Append(website.net, Head(website.queue))
      /\ website'.queue = Tail(website.queue) /\ website'.open = website.open
      /\ website'.todo = website.todo /\ website'.hinted = website.hinted
  BY <1>1 DEF WebsiteSend, WebsiteEnd
<1>3. Head(website.queue) \in Token /\ Tail(website.queue) \in Tokens
  BY <1>1, TokensDef, HeadTailProperties
<1>4. Coming' = Coming
  <2> DEFINE h == Head(website.queue)
             t == Tail(website.queue)
  <2>1. h \in Token /\ t \in Tokens
    BY <1>3
  <2>2. website.queue = <<h>> \o t
    BY <1>1, TokensDef, HeadTailProperties, ConcatSimplifications
  <2>3. Append(website.net, h) = website.net \o <<h>>
    BY <1>1, <2>1, TokensDef, AppendIsConcat
  <2>4. <<h>> \in Tokens
    BY <2>1, TokensDef
  <2> HIDE DEF h, t
  <2>5. (website.net \o <<h>>) \o t = website.net \o (<<h>> \o t)
    <3> DEFINE n == website.net
               x == <<h>>
    <3>1. n \in Tokens /\ x \in Tokens /\ t \in Tokens
      BY <1>1, <2>1, <2>4
    <3> HIDE DEF n, x
    <3>2. (n \o x) \o t = n \o (x \o t)
      BY <3>1, JoinJoin
    <3> QED BY <3>2 DEF n, x
  <2>6. Coming = website.net \o (<<h>> \o t)
    BY <2>2 DEF Coming
  <2>7. Coming' = (website.net \o <<h>>) \o t
    BY <1>2, <2>3 DEF Coming, h, t
  <2> QED BY <2>5, <2>6, <2>7
<1>5. Source' = Source /\ Source \in Tokens
  BY <1>1, <1>4, SourceOK DEF Source
<1>6. Source = Source' \o <<>>
  BY <1>5, JoinEmpty
<1> QED BY <1>2, <1>6, TokensDef DEF Shorter

LEMMA ShortClose ==
  ASSUME DataInv, WebsiteClose
  PROVE  Shorter
<1>1. /\ recvInBuf' = recvInBuf /\ website \in WebsiteEnd /\ recvInBuf \in Tokens
      /\ website.net \in Tokens /\ website.queue \in Tokens
  BY SourceOK DEF WebsiteClose, threadVars, inBufs
<1>2. /\ website'.net = website.net /\ website'.queue = <<>> /\ website'.open = FALSE
      /\ website'.todo = website.todo /\ website'.hinted = website.hinted
  BY <1>1 DEF WebsiteClose, WebsiteEnd
<1>3. Source' = recvInBuf \o website.net
  BY <1>1, <1>2, JoinEmpty DEF Source, Coming
<1>4. Source = Source' \o website.queue
  <2>1. (recvInBuf \o website.net) \o website.queue = recvInBuf \o (website.net \o website.queue)
    BY <1>1, JoinJoin
  <2> QED BY <1>3, <2>1 DEF Source, Coming
<1> QED BY <1>1, <1>2, <1>4 DEF Shorter

-----------------------------------------------------------------------------
(* Where the thread is.                                                    *)

\* The exchange was cut short: the browser's socket is closed and the thread on
\* its way out.
Over ==
  \/ pc \in {"raise", "gone"}
  \/ ~brConn /\ \/ pc \in {"trailSend", "trail503", "outerEnd", "outerReceive"}
                \/ pc = "procIn" /\ ret = "trailSend"

AccountInv == Guarded /\ ~Over => Account

\* _ProcessIn takes all it is given; the inner loop is left when a socket is
\* closed, and then no body is under way any more.
Outer   == {"outerReceive", "outerSend", "outerEnd", "trailSend", "trail503", "raise", "gone"}
Leaving == \/ pc \in {"trailReceive", "trailFeed"}
           \/ /\ ret \in {"trailFeed", "trailSend"}
              /\ \/ pc = "procIn"
                 \/ pc \in {"connect", "route", "inRedirected"} /\ outStep # "DECODE"
PlaceInv ==
  Guarded =>
    /\ pc = "procOut" \/ (pc \in Connecting /\ outStep = "DECODE") => ret \in {"outerSend", "innerEnd"}
    /\ pc \notin {"procIn", "connect", "raise", "gone"} => recvInBuf = <<>>
    /\ pc = "procIn" /\ ret = "trailSend" => recvInBuf = <<>> /\ inStep \in {"START", "FINISH"}
    /\ pc \in Outer \/ (pc = "procOut" /\ ret = "outerSend") => inStep \notin {"RAW", "CHUNK"}
    /\ Leaving /\ brConn => ~webConn

\* A redirection to https://local.ptron: the certificate page leaves it in place, and
\* no website is asked for it.
Parked == SSLFilter /\ owner.rdir = "rdir" /\ owner.rdirHost = Local

\* What an incoming filter asks for is answered by the proxy itself, after what
\* came from the website was dropped.
RouteInv ==
  Guarded =>
    /\ owner.rdir # "rewrite"
    /\ owner.rdir = "rdir" =>
         /\ owner.url # Local
         /\ Parked \/ (outStep = "DECODE" /\ pc \in {"connect", "route", "raise", "gone"})
    /\ pc \in {"established", "viaProxy", "awaitProxy", "tls", "resend"} => outStep = "DECODE"
    /\ pc # "awaitLocal"
    /\ pc \in {"connect", "route", "inRedirected"} /\ outStep # "DECODE"
         => ret \in {"innerSendIn", "trailFeed"}
    /\ pc \in {"connect", "route"} /\ outStep # "DECODE"
         => owner.rdir \in {"jump", "killed"} \/ Parked
    /\ pc = "connect" /\ outStep # "DECODE" => inStep = "DECODE"
    /\ pc = "route" /\ outStep # "DECODE" => Busy /\ inStep = "START" /\ Still

LEMMA BusyThen ==
  ASSUME DataInv, Guarded, Account
  PROVE  /\ inStep \notin {"START", "FINISH", "TUNNELING"} => Busy
         /\ inStep # "START" /\ outStep # "DECODE" => Busy
         /\ ~Still => Busy
         /\ Busy => /\ OwedInv /\ HeaderInv /\ Ahead(inStep, out.req, out.method, in, Source)
                    /\ inStep # "TUNNELING" /\ out.req \in DOMAIN reqs /\ out.method = reqs[out.req].m
         /\ Busy /\ inStep \notin {"START", "FIRSTLINE", "HEADERS"} => website.todo = {} /\ Heads = {}
         /\ Busy /\ inStep = "FINISH" => Still
<1>1. outStep \in {"START", "FIRSTLINE", "HEADERS", "DECODE"} \/ Busy
  BY DEF DataInv, StepInv, Steps, Guarded, Busy
<1>2. ASSUME Busy
      PROVE  /\ OwedInv /\ HeaderInv /\ Ahead(inStep, out.req, out.method, in, Source)
             /\ inStep # "TUNNELING" /\ out.req \in DOMAIN reqs /\ out.method = reqs[out.req].m
  BY <1>2 DEF Account
<1>3. ASSUME Busy, inStep \notin {"START", "FIRSTLINE", "HEADERS"}
      PROVE  website.todo = {} /\ Heads = {}
  BY <1>2, <1>3 DEF OwedInv
<1>4. ASSUME Busy, inStep = "FINISH" PROVE Still
  BY <1>2, <1>3, <1>4 DEF Ahead, Still
<1>5. ASSUME ~Busy
      PROVE  /\ inStep \in {"START", "FINISH", "TUNNELING"} /\ Still
             /\ outStep # "DECODE" => inStep = "START"
  BY <1>1, <1>5 DEF Account
<1> QED BY <1>2, <1>3, <1>4, <1>5

LEMMA OverBack ==
  ASSUME DataInv, PlaceInv, Guarded, Over, [Next]_vars PROVE Over'
<1>b. /\ brConn \in BOOLEAN /\ (brConn' => brConn)
      /\ pc = "procIn" /\ ret = "trailSend" => recvInBuf = <<>> /\ inStep \in {"START", "FINISH"}
  BY BrConnFalls DEF DataInv, FlagInv, PlaceInv
<1> USE DEF Over
<1>1. CASE UNCHANGED vars \/ Terminated
  BY <1>1 DEF vars, Terminated, socketVars
<1>2. CASE Environment
  BY <1>2, EnvironmentLeavesThread DEF threadVars
<1>3. CASE ManageLoop
  BY <1>3, <1>b DEF ManageLoop, OuterReceive, OuterSend, InnerSendOut, InnerReceiveIn,
     InnerSendIn, InnerReceiveOut, InnerEnd, TrailReceive, TrailFeed, TrailSend, Trail503,
     OuterEnd, Destroy
<1>4. CASE ProcessOut
  BY <1>4 DEF ProcessOut, OutReturn, OutStart, OutFirstLine, OutHeaders, OutDecodeBad, OutDecode, OutSend,
     OutChunk, OutRaw, OutTunneling, OutFinish
<1>5. CASE ConnectWebsite
  <2>1. pc \in Connecting
    BY <1>5 DEF ConnectWebsite, ConnectFlush, LocalAnswer, ApiAnswer, LocalTls, AwaitLine,
       AwaitLocal, LocalSecure, SecurePage, Jump, Rdir, ConnectReuse, ConnectFail, ConnectOpen, ToWebsite, Established,
       ViaProxy, AwaitProxy, Tls, Resend, InRedirected, Connecting
  <2> QED BY <2>1 DEF Connecting
<1>6. CASE ProcessIn
  <2>1. CASE InReturn \/ InFinish
    BY <2>1, <1>b DEF InReturn, InFinish
  <2>2. CASE InStart \/ InFirstLine \/ InGarbage \/ InHeaders \/ InDecodeBad \/ InDecode
    BY <2>2, <1>b DEF InStart, InFirstLine, InGarbage, InHeaders, InDecodeBad, InDecode
  <2>3. CASE InChunk \/ InRaw \/ InTunneling
    BY <2>3, <1>b DEF InChunk, InRaw, InTunneling
  <2> QED BY <1>6, <2>1, <2>2, <2>3 DEF ProcessIn
<1> QED BY <1>1, <1>2, <1>3, <1>4, <1>5, <1>6 DEF Next, Thread

LEMMA QuietEnvironment ==
  ASSUME DataInv, Orderly, Environment
  PROVE  /\ WebsiteAnswer \/ WebsiteInterim \/ Shorter \/ outStep = "TUNNELING"
         /\ website.todo = {} => Shorter \/ outStep = "TUNNELING"
         /\ UNCHANGED <<recvInBuf, sendOutBuf, stepVars, out, in>>
<1>u. UNCHANGED <<recvInBuf, sendOutBuf, stepVars, out, in>>
  BY EnvironmentLeavesThread DEF threadVars, inBufs, outBufs, dataVars
<1>1. CASE \/ BrowserRequest \/ BrowserTunnel \/ BrowserSend \/ BrowserClose
           \/ Stall \/ IdleExpire \/ SwitchToInvalid
  <2>1. website' = website
    BY <1>1 DEF BrowserRequest, BrowserTunnel, BrowserSend, BrowserClose, Stall, IdleExpire,
       SwitchToInvalid
  <2> QED BY <2>1, <1>u, ShortSame
<1>2. CASE WebsiteStray
  BY <1>2 DEF WebsiteStray, Orderly, DataInv, PeerInv
<1>3. CASE WebsiteSend
  BY <1>3, <1>u, ShortSend
<1>4. CASE WebsiteClose
  BY <1>4, <1>u, ShortClose
<1>5. CASE WebsiteAnswer \/ WebsiteInterim
  <2>1. website.todo # {}
    BY <1>5 DEF WebsiteAnswer, WebsiteInterim, Pending
  <2> QED BY <1>5, <1>u, <2>1
<1>6. CASE WebsiteTunnel
  BY <1>6, <1>u DEF WebsiteTunnel
<1> QED BY <1>1, <1>2, <1>3, <1>4, <1>5, <1>6 DEF Environment

LEMMA HeadsNone == HeadsOf(<<>>) = {}
BY DEF HeadsOf

\* An incoming filter's redirection begins with an empty stream.
LEMMA FlushStep ==
  ASSUME DataInv, DataInv', Guarded, Account, RouteInv, ConnectFlush
  PROVE  /\ Still'
         /\ outStep # "DECODE" => Busy /\ inStep' = "START"
         /\ outStep = "DECODE" => inStep' = inStep
<1>1. /\ recvInBuf' = <<>> /\ UNCHANGED <<sendOutBuf, outStep>> /\ website \in WebsiteEnd
      /\ recvInBuf \in Tokens /\ Coming \in Tokens
  BY SourceOK DEF ConnectFlush, outBufs
<1>2. CASE outStep # "DECODE"
  <2>1. inStep = "DECODE"
    BY <1>2 DEF ConnectFlush, RouteInv
  <2>2. Busy /\ Heads = {}
    BY <2>1, BusyThen
  <2>3. website' = Disconnected /\ inStep' = "START"
    BY <2>1 DEF ConnectFlush, KeepWebsite
  <2>4. Source' = <<>> /\ website'.todo = {}
    BY <1>1, <2>3, ShortClosed
  <2> QED BY <1>1, <1>2, <2>2, <2>3, <2>4 DEF Still, Heads
<1>3. CASE outStep = "DECODE"
  <2>1. Still /\ inStep # "DECODE"
    BY <1>3 DEF Account
  <2>2. website' = [website EXCEPT !.net = <<>>] \/ website' = Disconnected
    BY <2>1 DEF ConnectFlush
  <2>3. Coming = <<>>
    BY <1>1, <2>1, Front DEF Still, Source
  <2>4. website.queue = <<>>
    BY <2>3, SourceOK, Front DEF Coming
  <2>5. website'.net = <<>> /\ website'.queue = <<>> /\ website'.todo = {}
    <3>1. website.todo = {}
      BY <2>1 DEF Still
    <3>2. CASE website' = [website EXCEPT !.net = <<>>]
      BY <1>1, <2>4, <3>1, <3>2 DEF WebsiteEnd
    <3>3. CASE website' = Disconnected
      BY <3>3 DEF Disconnected
    <3> QED BY <2>2, <3>2, <3>3
  <2>6. Coming' = <<>>
    BY <2>5, JoinEmpty, TokensDef DEF Coming
  <2>7. Source' = <<>>
    BY <1>1, <2>6, JoinEmpty, TokensDef DEF Source
  <2>8. inStep' = inStep
    BY <2>1 DEF ConnectFlush
  <2> QED BY <1>1, <1>3, <2>1, <2>5, <2>7, <2>8 DEF Still, Heads
<1> QED BY <1>2, <1>3

LEMMA RouteStep ==
  ASSUME DataInv, DataInv', PathInv, WebInv, PlaceInv, AccountInv, RouteInv,
         Guarded, Guarded', [Next]_vars
  PROVE  RouteInv'
<1>a. /\ owner.rdir # "rewrite"
      /\ owner.rdir = "rdir" =>
           /\ owner.url # Local
           /\ Parked \/ (outStep = "DECODE" /\ pc \in {"connect", "route", "raise", "gone"})
      /\ pc \in {"established", "viaProxy", "awaitProxy", "tls", "resend"} => outStep = "DECODE"
      /\ pc # "awaitLocal"
      /\ pc \in {"connect", "route", "inRedirected"} /\ outStep # "DECODE"
           => ret \in {"innerSendIn", "trailFeed"}
      /\ pc \in {"connect", "route"} /\ outStep # "DECODE" => owner.rdir \in {"jump", "killed"} \/ Parked
      /\ pc = "connect" /\ outStep # "DECODE" => inStep = "DECODE"
      /\ pc = "route" /\ outStep # "DECODE" => Busy /\ inStep = "START" /\ Still
  BY DEF RouteInv
<1>b. /\ ret \in Returns /\ owner \in Owner /\ (pc = "inRedirected" => outStep # "DECODE")
      /\ (pc = "outSend" => outStep = "DECODE") /\ brSecure = FALSE /\ brSecure' = FALSE
      /\ (outStep = "DECODE" => pc # "procIn")
  BY DEF DataInv, CountInv, OwnerInv, ConnectsInv, Guarded, FlagInv, Opening, Opened
<1>c. owner' = owner => (Parked' <=> Parked)
  BY SettingStays DEF Parked, SSLFilter
<1>o. ASSUME owner' = owner \/ owner'.rdir = "none", pc \notin {"connect", "route"},
             pc' \notin {"connect", "route", "inRedirected", "established", "viaProxy", "awaitProxy",
                         "tls", "resend", "awaitLocal"},
             pc \in {"raise", "gone"} => pc' = "gone" /\ outStep' = outStep
      PROVE  RouteInv'
  BY <1>a, <1>c, <1>o DEF RouteInv
<1>1. CASE UNCHANGED vars \/ Terminated
  <2>1. UNCHANGED <<pc, ret, outStep, inStep, owner, recvInBuf, website, sendOutBuf>>
    BY <1>1 DEF vars, Terminated, stepVars, dataVars, inBufs, outBufs
  <2>2. (Still => Still') /\ (Busy => Busy')
    BY <2>1 DEF Still, Source, Coming, Heads, Busy
  <2> QED BY <2>1, <2>2, <1>a, <1>c DEF RouteInv
<1>2. CASE Environment
  <2>1. UNCHANGED <<pc, ret, outStep, inStep, owner, sendOutBuf>>
    BY <1>2, EnvironmentLeavesThread DEF threadVars, stepVars, dataVars, outBufs
  <2>2. Still => Still'
    <3>1. Still => Shorter
      BY <1>2, QuietEnvironment DEF Still, Guarded
    <3>2. Heads' = Heads
      BY <2>1 DEF Heads, HeadsOf
    <3> QED BY <3>1, <3>2, StillKept
  <2>3. Busy => Busy'
    BY <2>1 DEF Busy
  <2> QED BY <2>1, <2>2, <2>3, <1>a, <1>c DEF RouteInv
<1>3. CASE ManageLoop
  <2>1. owner' = owner /\ outStep' = outStep
    BY <1>3 DEF ManageLoop, OuterReceive, OuterSend, InnerSendOut, InnerReceiveIn,
       InnerSendIn, InnerReceiveOut, InnerEnd, TrailReceive, TrailFeed, TrailSend, Trail503,
       OuterEnd, Destroy, dataVars, stepVars
  <2>2. pc \in Resting \cup {"raise"} /\ (pc = "raise" => pc' = "gone")
        /\ pc' \in Resting \cup {"procIn", "procOut", "gone"}
    BY <1>3 DEF ManageLoop, OuterReceive, OuterSend, InnerSendOut, InnerReceiveIn,
       InnerSendIn, InnerReceiveOut, InnerEnd, TrailReceive, TrailFeed, TrailSend, Trail503,
       OuterEnd, Destroy, Resting
  <2> QED BY <2>1, <2>2, <1>o DEF Resting
<1>4. CASE ProcessOut
  <2>1. CASE OutDecode
    <3>1. /\ outStep = "DECODE" /\ outStep' = outStep /\ pc' \in {"outSend", "connect"}
          /\ owner'.rdir # "rewrite" /\ (owner'.rdir = "rdir" => pc' = "connect" /\ owner'.url # Local)
      BY <2>1, <1>b DEF OutDecode, stepVars
    <3> QED BY <3>1 DEF RouteInv
  <2>2. CASE OutSend
    <3>1. owner' = owner /\ pc' = "procOut" /\ pc = "outSend"
      BY <2>2, <1>b DEF OutSend, dataVars
    <3> QED BY <3>1, <1>o
  <2>3. CASE \/ OutReturn \/ OutStart \/ OutFirstLine \/ OutHeaders
             \/ OutDecodeBad \/ OutChunk \/ OutRaw \/ OutTunneling \/ OutFinish
    <3>1. (owner' = owner \/ owner'.rdir = "none") /\ pc = "procOut" /\ pc' \in {"procOut", "raise", ret}
      BY <2>3, <1>b DEF OutReturn, OutStart, OutFirstLine, OutHeaders, OutDecodeBad, OutChunk, OutRaw,
         OutTunneling, OutFinish, dataVars, Owner
    <3> QED BY <3>1, <1>b, <1>o DEF Returns
  <2> QED BY <1>4, <2>1, <2>2, <2>3 DEF ProcessOut
<1>5. CASE ConnectWebsite
  <2>1. CASE ConnectFlush
    <3>1. Account
      BY <2>1 DEF AccountInv, Over, ConnectFlush
    <3>2. /\ Still' /\ (outStep # "DECODE" => Busy /\ inStep' = "START")
          /\ UNCHANGED <<owner, outStep, ret>> /\ pc = "connect" /\ pc' = "route"
      BY <2>1, <3>1, FlushStep DEF ConnectFlush, dataVars
    <3>3. Busy => Busy'
      BY <3>2 DEF Busy
    <3> QED BY <3>2, <3>3, <1>a, <1>c DEF RouteInv
  <2>2. CASE Rdir
    <3>1. /\ pc = "route" /\ pc' = "route" /\ owner'.rdir = "none" /\ outStep' = outStep
          /\ owner.rdir = "rdir" /\ ~Parked
      BY <2>2, <1>b DEF Rdir, stepVars, Owner, Parked
    <3> QED BY <3>1, <1>a DEF RouteInv
  <2>3. CASE LocalTls
    <3>1. pc = "route" /\ pc' = "raise" /\ owner' = owner /\ outStep' = outStep
      BY <2>3, <1>b DEF LocalTls, dataVars, stepVars
    <3> QED BY <3>1, <1>a, <1>c DEF RouteInv
  <2>4. CASE LocalAnswer \/ ApiAnswer \/ Jump
    <3>1. /\ pc = "route" /\ pc' = ConnectReturn /\ owner'.rdir = "none" /\ outStep' = outStep
          /\ ret' = ret
      BY <2>4, <1>b DEF LocalAnswer, ApiAnswer, Jump, stepVars, Owner
    <3> QED BY <3>1, <1>a DEF RouteInv, ConnectReturn
  <2>5. CASE ConnectReuse \/ ConnectFail \/ ConnectOpen
    <3>1. pc = "route" /\ owner.rdir = "none" /\ outStep' = outStep
      BY <2>5 DEF ConnectReuse, ConnectFail, ConnectOpen, ToWebsite, stepVars
    <3>2. owner'.rdir = "none"
      BY <2>5, <3>1, <1>b DEF ConnectReuse, ConnectFail, ConnectOpen, Owner
    <3>3. pc' \in {"outSend", "inRedirected", "resend", "established", "viaProxy"}
      BY <2>5 DEF ConnectReuse, ConnectFail, ConnectOpen, ConnectReturn
    <3>4. outStep = "DECODE"
      BY <3>1, <1>a DEF Parked
    <3> QED BY <3>1, <3>2, <3>3, <3>4 DEF RouteInv
  <2>6. CASE Established \/ ViaProxy \/ AwaitProxy \/ Tls \/ Resend
    <3>1. /\ outStep' = outStep /\ owner' = owner
          /\ pc \in {"established", "viaProxy", "awaitProxy", "tls", "resend"}
      BY <2>6 DEF Established, ViaProxy, AwaitProxy, Tls, Resend, stepVars, dataVars
    <3>2. pc' \in {"viaProxy", "awaitProxy", "tls", "resend", "raise", ConnectReturn}
      BY <2>6 DEF Established, ViaProxy, AwaitProxy, Tls, Resend
    <3> QED BY <3>1, <3>2, <1>a, <1>c DEF RouteInv, ConnectReturn
  <2>7. CASE AwaitLine \/ AwaitLocal
    BY <2>7, <1>a DEF AwaitLine, AwaitLocal
  <2>8. CASE InRedirected
    <3>1. owner' = owner /\ pc = "inRedirected" /\ pc' = "procIn"
      BY <2>8 DEF InRedirected
    <3> QED BY <3>1, <1>o
  <2>9. CASE LocalSecure
    <3>1. /\ pc = "route" /\ pc' \in {"raise", ConnectReturn} /\ outStep' = outStep /\ ret' = ret
          /\ owner' = owner \/ owner'.rdir = "none"
          /\ owner.url # Local => SSLFilter /\ owner.rdirHost = Local
      BY <2>9, <1>b DEF LocalSecure, SecurePage, FromTls, ToLocal, Owner
    <3>2. owner.rdir = "rdir" => Parked
      BY <3>1, <1>a DEF Parked
    <3> QED BY <3>1, <3>2, <1>a, <1>c DEF RouteInv, ConnectReturn
  <2> QED BY <1>5, <2>1, <2>2, <2>3, <2>4, <2>5, <2>6, <2>7, <2>8, <2>9 DEF ConnectWebsite
<1>6. CASE ProcessIn
  <2>1. CASE InDecode
    <3> DEFINE d == [in EXCEPT !.chunked = @ \/ (Says({"chunk"}) /\ out.method # "HEAD"),
                               !.size = BodySize]
               Goes(f, h, chain) ==
                 LET rdir == IF f = "none" THEN owner.rdir ELSE f
                 IN /\ owner' = [owner EXCEPT !.rdir = rdir, !.rdirHost = h]
                    /\ IF rdir # "none" /\ redirectedIn < MaxRedirect
                       THEN /\ pc' = "connect" /\ in' = d
                            /\ UNCHANGED <<stepVars, sendInBuf, sendConnectionClose>>
                       ELSE Relay([d EXCEPT !.chain = chain /\ ContentType, !.dumped = FALSE])
    <3>1. \E f \in InFilters :
            \E h \in (IF f \in {"jump", "rdir"} THEN Hosts ELSE {owner.rdirHost}), chain \in Chains :
              Goes(f, h, chain)
      BY <2>1, ZenonT(40) DEF InDecode
    <3>2. PICK f \in InFilters : \E h \in (IF f \in {"jump", "rdir"} THEN Hosts ELSE {owner.rdirHost}) :
                                  \E chain : Goes(f, h, chain)
      BY <3>1
    <3>3. PICK h \in (IF f \in {"jump", "rdir"} THEN Hosts ELSE {owner.rdirHost}) :
            \E chain : Goes(f, h, chain)
      BY <3>2
    <3>4. pc = "procIn" /\ inStep = "DECODE" /\ ret' = ret
      BY <2>1 DEF InDecode
    <3> HIDE DEF d
    <3>5. owner'.rdir = (IF f = "none" THEN owner.rdir ELSE f)
          /\ (pc' = "connect" => owner'.rdir # "none" /\ inStep' = inStep)
          /\ pc' \in {"connect", "procIn"}
      BY <3>3, <3>4, <1>b DEF Owner, Relay, stepVars
    <3>6. f \in {"none", "jump", "killed"}
      BY ConstantsOK DEF DataInv, PeerInv, Setting, InFilters, Guarded, Orderly, Filters
    <3>7. owner.rdir \in {"none", "jump", "killed", "rdir"} /\ (owner.rdir = "rdir" => Parked)
      BY <1>a, <1>b, <3>4 DEF Owner, Filters
    <3>8. ret \in {"innerSendIn", "trailFeed"}
      BY <3>4 DEF PathInv, InReturns, PlaceInv
    <3>9. f = "none" => owner'.url = owner.url /\ owner'.rdirHost = owner.rdirHost
      BY <3>3, <1>b DEF Owner
    <3>10. owner'.rdir = "rdir" => Parked' /\ owner'.url # Local
      BY <3>5, <3>6, <3>7, <3>9, <1>a, SettingStays DEF Parked, SSLFilter
    <3> QED BY <3>4, <3>5, <3>6, <3>7, <3>8, <3>10 DEF RouteInv
  <2>2. CASE \/ InReturn \/ InStart \/ InFirstLine \/ InGarbage \/ InHeaders \/ InDecodeBad
             \/ InChunk \/ InRaw \/ InTunneling \/ InFinish
    <3>1. owner' = owner /\ pc = "procIn" /\ pc' \in {"procIn", "raise", ret}
      BY <2>2 DEF InReturn, InStart, InFirstLine, InGarbage, InHeaders, InDecodeBad,
         InChunk, InRaw, InTunneling, InFinish, dataVars
    <3> QED BY <3>1, <1>b, <1>o DEF Returns
  <2> QED BY <1>6, <2>1, <2>2 DEF ProcessIn
<1> QED BY <1>1, <1>2, <1>3, <1>4, <1>5, <1>6 DEF Next, Thread

\* What _ProcessIn has before it begins with what it has received.
LEMMA SourceHead ==
  ASSUME DataInv, recvInBuf # <<>>
  PROVE  /\ Source # <<>> /\ Head(Source) = Head(recvInBuf) /\ Head(recvInBuf) \in Token
         /\ Tail(Source) = Tail(recvInBuf) \o Coming /\ Tail(recvInBuf) \in Tokens
<1>1. recvInBuf \in Tokens /\ Coming \in Tokens
  BY SourceOK
<1> QED BY <1>1, Front DEF Source

LEMMA TokIs == ASSUME NEW k, NEW r, NEW v PROVE Tok(k, r, v).k = k /\ Tok(k, r, v).r = r /\ Tok(k, r, v).v = v
BY DEF Tok

\* _ProcessIn returns when it has taken all it was given.
LEMMA Exhausted ==
  ASSUME DataInv, Guarded, Account, InBlocked
  PROVE  recvInBuf = <<>>
<1> SUFFICES ASSUME recvInBuf # <<>> PROVE FALSE
  OBVIOUS
<1>1. Source # <<>> /\ Head(Source) = Head(recvInBuf)
  BY SourceHead
<1>2. Busy /\ Ahead(inStep, out.req, out.method, in, Source) /\ inStep # "FINISH"
  BY <1>1, BusyThen DEF Still
<1>3. CASE inStep = "HEADERS"
  <2>1. Head(recvInBuf).k \notin {"rhdr", "rhdrClose"}
    BY <1>3 DEF InBlocked, NextIs
  <2>2. CASE in.code = "100"
    BY <1>1, <1>2, <1>3, <2>1, <2>2, TokIs DEF Ahead, InterimTail, InterimHead
  <2>3. CASE in.code # "100"
    BY <1>1, <1>2, <1>3, <2>1, <2>3, TokIs DEF Ahead, HeadAhead
  <2> QED BY <2>2, <2>3
<1>4. CASE inStep = "CHUNK"
  <2>1. Head(recvInBuf).k \notin {"size", "last"}
    BY <1>4 DEF InBlocked, NextIs
  <2> QED BY <1>1, <1>2, <1>4, <2>1, TokIs DEF Ahead, ChunkAhead, LastAhead
<1> QED BY <1>2, <1>3, <1>4 DEF InBlocked

LEMMA PlaceStep ==
  ASSUME DataInv, DataInv', PathInv, WebInv, PlaceInv, AccountInv, RouteInv,
         Guarded, Guarded', [Next]_vars
  PROVE  PlaceInv'
<1>a. /\ pc = "procOut" \/ (pc \in Connecting /\ outStep = "DECODE") => ret \in {"outerSend", "innerEnd"}
      /\ pc \notin {"procIn", "connect", "raise", "gone"} => recvInBuf = <<>>
      /\ pc = "procIn" /\ ret = "trailSend" => recvInBuf = <<>> /\ inStep \in {"START", "FINISH"}
      /\ pc \in Outer \/ (pc = "procOut" /\ ret = "outerSend") => inStep \notin {"RAW", "CHUNK"}
      /\ Leaving /\ brConn => ~webConn
  BY DEF PlaceInv
<1>b. /\ ret \in Returns /\ (pc = "inRedirected" => outStep # "DECODE")
      /\ (pc = "outSend" => outStep = "DECODE") /\ brSecure = FALSE /\ brSecure' = FALSE
      /\ (outStep = "DECODE" => pc # "procIn") /\ (brConn' => brConn)
      /\ brConn \in BOOLEAN /\ webConn \in BOOLEAN
      /\ outStep # "TUNNELING" /\ outStep' # "TUNNELING"
  BY BrConnFalls DEF DataInv, CountInv, ConnectsInv, Guarded, FlagInv, Opening, Opened
<1>1. CASE UNCHANGED vars \/ Terminated
  <2>1. UNCHANGED <<pc, ret, outStep, inStep, recvInBuf, brConn, webConn>>
    BY <1>1 DEF vars, Terminated, stepVars, socketVars, inBufs
  <2> QED BY <2>1, <1>a DEF PlaceInv, Leaving
<1>2. CASE Environment
  <2>1. UNCHANGED <<pc, ret, outStep, inStep, recvInBuf, brConn, webConn>>
    BY <1>2, EnvironmentLeavesThread DEF threadVars, stepVars, inBufs
  <2> QED BY <2>1, <1>a DEF PlaceInv, Leaving
<1>3. CASE ManageLoop
  <2> USE DEF Outer, Leaving, Connecting, PlaceInv, stepVars, inBufs, socketVars
  <2>1. CASE OuterReceive \/ OuterSend \/ InnerSendIn \/ InnerReceiveOut
    BY <2>1, <1>a DEF OuterReceive, OuterSend, InnerSendIn, InnerReceiveOut
  <2>2. CASE InnerSendOut
    BY <2>2, <1>a DEF InnerSendOut
  <2>3. CASE InnerReceiveIn
    <3>1. pc = "innerReceiveIn" /\ pc' \in {"procIn", "innerSendIn"} /\ ret' = "innerSendIn"
          /\ (pc' = "innerSendIn" => ~ReceivedIn) /\ ReceiveIn
      BY <2>3 DEF InnerReceiveIn
    <3>2. pc' = "innerSendIn" => recvInBuf' = recvInBuf
      BY <3>1, ShortReceive DEF ReceivedIn
    <3> QED BY <3>1, <3>2, <1>a
  <2>4. CASE InnerEnd
    BY <2>4, <1>a, <1>b DEF InnerEnd
  <2>5. CASE TrailReceive
    <3>1. pc = "trailReceive" /\ pc' = "procIn" /\ ret' = "trailFeed" /\ brConn' = brConn
          /\ webConn' = (webConn /\ website.open)
      BY <2>5 DEF TrailReceive, ReceiveIn
    <3> QED BY <3>1, <1>a
  <2>6. CASE TrailFeed
    <3>1. pc = "trailFeed" /\ UNCHANGED <<recvInBuf, brConn, webConn, outStep>>
      BY <2>6 DEF TrailFeed
    <3>2. \/ inStep' = "FINISH" /\ pc' = "procIn" /\ ret' = "trailSend"
          \/ inStep \notin {"RAW", "CHUNK"} /\ pc' = "trailSend" /\ inStep' = inStep
      BY <2>6 DEF TrailFeed
    <3> QED BY <3>1, <3>2, <1>a
  <2>7. CASE TrailSend \/ Trail503 \/ OuterEnd \/ Destroy
    BY <2>7, <1>a DEF TrailSend, Trail503, OuterEnd, Destroy
  <2> QED BY <1>3, <2>1, <2>2, <2>3, <2>4, <2>5, <2>6, <2>7 DEF ManageLoop
<1>4. CASE ProcessOut
  <2> USE DEF Outer, Leaving, Connecting, PlaceInv, stepVars, inBufs, socketVars
  <2>1. CASE OutDecode
    <3>1. /\ pc = "procOut" /\ outStep = "DECODE" /\ pc' \in {"outSend", "connect"}
          /\ UNCHANGED <<outStep, ret, recvInBuf>>
      BY <2>1 DEF OutDecode
    <3> QED BY <3>1, <1>a
  <2>2. CASE OutSend
    <3>1. /\ pc = "outSend" /\ pc' = "procOut" /\ UNCHANGED <<inStep, ret, recvInBuf>>
      BY <2>2, <1>b DEF OutSend
    <3>2. Account
      BY <3>1 DEF AccountInv, Over
    <3>3. inStep \notin {"RAW", "CHUNK"}
      BY <3>1, <3>2, <1>b DEF Account
    <3> QED BY <3>1, <3>3, <1>a, <1>b
  <2>3. CASE OutReturn
    BY <2>3, <1>a DEF OutReturn
  <2>4. CASE OutStart \/ OutFirstLine \/ OutHeaders \/ OutChunk \/ OutRaw \/ OutFinish
    <3>1. /\ pc = "procOut" /\ pc' = "procOut" /\ UNCHANGED <<ret, recvInBuf>>
          /\ inStep' \in {inStep, "START"}
      BY <2>4 DEF OutStart, OutFirstLine, OutHeaders, OutChunk, OutRaw, OutFinish, EndExchange
    <3> QED BY <3>1, <1>a
  <2>5. CASE OutTunneling
    BY <2>5, <1>b DEF OutTunneling
  <2>6. CASE OutDecodeBad
    <3>1. pc = "procOut" /\ outStep = "DECODE" /\ pc' = "raise" /\ UNCHANGED <<inStep, recvInBuf>>
      BY <2>6 DEF OutDecodeBad
    <3>2. Account
      BY <3>1 DEF AccountInv, Over
    <3>3. inStep \notin {"RAW", "CHUNK"}
      BY <3>1, <3>2 DEF Account
    <3> QED BY <3>1, <3>3
  <2> QED BY <1>4, <2>1, <2>2, <2>3, <2>4, <2>5, <2>6 DEF ProcessOut
<1>5. CASE ConnectWebsite
  <2>r. /\ pc \in {"established", "viaProxy", "awaitProxy", "tls", "resend"} => outStep = "DECODE"
        /\ pc # "awaitLocal"
        /\ pc \in {"connect", "route", "inRedirected"} /\ outStep # "DECODE"
             => ret \in {"innerSendIn", "trailFeed"}
        /\ pc \in {"connect", "route"} /\ outStep # "DECODE" => owner.rdir # "none"
    BY DEF RouteInv, Parked
  <2>u. ret' = ret /\ outStep' = outStep
    BY <1>5 DEF ConnectWebsite, ConnectFlush, LocalAnswer, ApiAnswer, LocalTls, AwaitLine,
       AwaitLocal, LocalSecure, SecurePage, Jump, Rdir, ConnectReuse, ConnectFail, ConnectOpen, Established,
       ViaProxy, AwaitProxy, Tls, Resend, InRedirected, stepVars
  <2> USE DEF Outer, Leaving, Connecting, PlaceInv, ConnectReturn, inBufs
  <2>1. CASE ConnectFlush
    <3>1. pc = "connect" /\ pc' = "route" /\ recvInBuf' = <<>> /\ (webConn' => webConn)
      BY <2>1, <1>b DEF ConnectFlush, KeepWebsite
    <3> QED BY <3>1, <2>u, <1>a, <1>b
  <2>2. CASE LocalAnswer \/ ApiAnswer \/ Jump \/ Rdir
    <3>1. /\ pc = "route" /\ pc' \in {"route", ConnectReturn} /\ UNCHANGED <<recvInBuf, webConn>>
      BY <2>2 DEF LocalAnswer, ApiAnswer, Jump, Rdir, socketVars
    <3> QED BY <3>1, <2>u, <1>a, <1>b
  <2>3. CASE LocalTls \/ LocalSecure
    <3>1. /\ pc = "route" /\ pc' \in {"raise", ConnectReturn} /\ UNCHANGED <<recvInBuf, webConn>>
          /\ inStep' \in {inStep, "FINISH"}
      BY <2>3, <1>b DEF LocalTls, LocalSecure, SecurePage, stepVars
    <3>2. Account
      BY <3>1 DEF AccountInv, Over
    <3>3. inStep \notin {"RAW", "CHUNK"}
      BY <3>1, <3>2 DEF Account, RouteInv
    <3> QED BY <3>1, <3>3, <2>u, <1>a, <1>b
  <2>4. CASE ConnectReuse \/ ConnectFail \/ ConnectOpen
    <3>1. /\ pc = "route" /\ recvInBuf' = recvInBuf /\ owner.rdir = "none"
          /\ pc' \in {"outSend", "inRedirected", "resend", "established", "viaProxy"}
          /\ (pc' = "inRedirected" => outStep # "DECODE")
      BY <2>4 DEF ConnectReuse, ConnectFail, ConnectOpen, ToWebsite
    <3> QED BY <3>1, <2>r, <2>u, <1>a
  <2>5. CASE Established \/ ViaProxy \/ AwaitProxy \/ Tls \/ Resend
    <3>1. /\ pc \in {"established", "viaProxy", "awaitProxy", "tls", "resend"}
          /\ recvInBuf' \in {recvInBuf, <<>>} /\ inStep' = inStep
      BY <2>5 DEF Established, ViaProxy, AwaitProxy, Tls, Resend, stepVars
    <3>2. pc' \in {"viaProxy", "awaitProxy", "tls", "resend", "raise", "outSend"}
      BY <2>5, <2>r DEF Established, ViaProxy, AwaitProxy, Tls, Resend
    <3>3. Account
      BY <3>1 DEF AccountInv, Over
    <3>4. inStep \notin {"RAW", "CHUNK"}
      BY <3>1, <3>3, <2>r DEF Account
    <3> QED BY <3>1, <3>2, <3>4, <2>r, <2>u, <1>a
  <2>6. CASE AwaitLine \/ AwaitLocal
    BY <2>6, <2>r DEF AwaitLine, AwaitLocal
  <2>7. CASE InRedirected
    <3>1. pc = "inRedirected" /\ pc' = "procIn" /\ UNCHANGED <<recvInBuf, brConn, webConn>>
      BY <2>7 DEF InRedirected, socketVars
    <3> QED BY <3>1, <2>r, <2>u, <1>a, <1>b
  <2> QED BY <1>5, <2>1, <2>2, <2>3, <2>4, <2>5, <2>6, <2>7 DEF ConnectWebsite
<1>6. CASE ProcessIn
  <2> USE DEF Outer, Leaving, Connecting, PlaceInv, stepVars, inBufs, socketVars
  <2>1. CASE InReturn
    <3>1. pc = "procIn" /\ pc' = ret /\ UNCHANGED <<recvInBuf, inStep, outStep, ret, webConn, brConn>>
          /\ InBlocked
      BY <2>1 DEF InReturn
    <3>2. recvInBuf = <<>>
      BY <3>1, <1>a, Exhausted DEF AccountInv, Over
    <3>3. ret \in InReturns
      BY <3>1 DEF PathInv
    <3> QED BY <3>1, <3>2, <3>3, <1>a DEF InReturns
  <2>2. CASE InTunneling
    <3>1. pc = "procIn" /\ pc' = ret /\ recvInBuf' = <<>> /\ UNCHANGED <<inStep, outStep, ret, webConn, brConn>>
      BY <2>2, <1>b DEF InTunneling
    <3>2. inStep = "TUNNELING" /\ ret \in InReturns
      BY <2>2, <3>1 DEF PathInv, InTunneling
    <3> QED BY <3>1, <3>2, <1>a DEF InReturns
  <2>3. CASE InDecodeBad
    BY <2>3 DEF InDecodeBad
  <2>4. CASE InDecode
    <3>1. pc' \in {"procIn", "connect"} /\ pc = "procIn" /\ inStep = "DECODE"
          /\ UNCHANGED <<recvInBuf, ret, webConn, brConn>> /\ outStep' = outStep
      BY <2>4, <1>b DEF InDecode, Relay
    <3> QED BY <3>1, <1>a, <1>b
  <2>5. CASE InFinish
    <3>1. pc = "procIn" /\ pc' = "procIn" /\ inStep' = "START" /\ UNCHANGED <<recvInBuf, ret>>
          /\ (webConn' => webConn)
      BY <2>5, <1>b DEF InFinish, EndExchange, KeepWebsite
    <3> QED BY <3>1, <1>a, <1>b
  <2>6. CASE InStart \/ InFirstLine \/ InGarbage \/ InHeaders \/ InChunk \/ InRaw
    <3>1. /\ pc = "procIn" /\ pc' = "procIn" /\ ret' = ret /\ inStep # "FINISH"
          /\ (inStep = "START" => recvInBuf # <<>>)
      BY <2>6 DEF InStart, InFirstLine, InGarbage, InHeaders, InChunk, InRaw
    <3>2. brConn' = brConn /\ (webConn' => webConn)
      BY <2>6, <1>b DEF InStart, InFirstLine, InGarbage, InHeaders, InChunk, InRaw, KeepWebsite
    <3> QED BY <3>1, <3>2, <1>a
  <2> QED BY <1>6, <2>1, <2>2, <2>3, <2>4, <2>5, <2>6 DEF ProcessIn
<1> QED BY <1>1, <1>2, <1>3, <1>4, <1>5, <1>6 DEF Next, Thread

-----------------------------------------------------------------------------
(* The account is kept: what goes to the website.                          *)

LEMMA HeadsOne ==
  ASSUME NEW k, NEW r, NEW v
  PROVE  HeadsOf(<<Tok(k, r, v)>>) = IF k = "qhead" THEN {r} ELSE {}
<1> DEFINE t == Tok(k, r, v)
<1>1. t.k = k /\ t.r = r
  BY TokIs
<1> HIDE DEF t
<1>2. DOMAIN <<t>> = {1} /\ <<t>>[1] = t
  OBVIOUS
<1>3. HeadsOf(<<t>>) = IF k = "qhead" THEN {r} ELSE {}
  BY <1>1, <1>2 DEF HeadsOf
<1> QED BY <1>3 DEF t

LEMMA HeadsJoin ==
  ASSUME NEW s \in Tokens, NEW t \in Seq(Asked)
  PROVE  HeadsOf(s \o t) = HeadsOf(s)
<1>1. /\ s \in Seq(Token) /\ Len(s) \in Nat /\ Len(t) \in Nat
      /\ DOMAIN s = 1..Len(s) /\ DOMAIN t = 1..Len(t)
  BY TokensDef, LenProperties
<1>2. \A i \in 1..Len(t) : t[i] \in Asked
  BY <1>1, ElementOfSeq
<1>3. t \in Seq(Token)
  BY SeqMonotonic DEF Asked
<1>4. /\ s \o t \in Seq(Token) /\ Len(s \o t) = Len(s) + Len(t)
      /\ \A i \in 1..Len(s) + Len(t) : (s \o t)[i] = IF i <= Len(s) THEN s[i] ELSE t[i - Len(s)]
  BY <1>1, <1>3, ConcatProperties
<1>5. DOMAIN (s \o t) = 1..Len(s) + Len(t)
  BY <1>4, LenProperties
<1> DEFINE K == {"qhead"}
<1>6. ASSUME NEW i \in 1..Len(s) + Len(t), (s \o t)[i].k \in K
      PROVE  i \in 1..Len(s) /\ (s \o t)[i] = s[i]
  <2>1. CASE i > Len(s)
    <3>1. i - Len(s) \in 1..Len(t) /\ (s \o t)[i] = t[i - Len(s)]
      BY <1>1, <1>4, <2>1
    <3> QED BY <3>1, <1>2, <1>6 DEF Asked
  <2> QED BY <1>1, <1>4, <2>1
<1>7. \A i \in 1..Len(s) : i \in 1..Len(s) + Len(t) /\ (s \o t)[i] = s[i]
  BY <1>1, <1>4
<1>8. {j \in DOMAIN (s \o t) : (s \o t)[j].k \in K} = {j \in DOMAIN s : s[j].k \in K}
  BY <1>1, <1>5, <1>6, <1>7
<1> QED BY <1>1, <1>7, <1>8 DEF HeadsOf

\* _SendOut of what holds no request.
LEMMA SendShort ==
  ASSUME DataInv, WebInv, NEW buf \in Tokens, SendOut(buf), HeadsOf(buf) = {}, UNCHANGED recvInBuf
  PROVE  Shorter /\ Heads' = {}
<1>1. website \in WebsiteEnd
  BY SourceOK
<1>2. Heads' = {}
  <2>1. sendOutBuf' \in {buf, <<>>}
    BY DEF SendOut
  <2> QED BY <2>1, HeadsNone DEF Heads
<1>3. CASE website' = [website EXCEPT !.got = @ \o buf, !.todo = @ \cup HeadsOf(buf)]
  <2>1. /\ website'.net = website.net /\ website'.queue = website.queue
        /\ website'.open = website.open /\ website'.hinted = website.hinted
        /\ website'.todo = website.todo \cup HeadsOf(buf)
    BY <1>1, <1>3 DEF WebsiteEnd
  <2>2. website'.todo = website.todo
    BY <2>1
  <2> QED BY <1>2, <2>1, <2>2, ShortSame
<1>4. CASE website' = website
  BY <1>2, <1>4, ShortSame
<1>5. CASE KeepWebsite(FALSE)
  BY <1>2, <1>5, ShortKept
<1> QED BY <1>3, <1>4, <1>5 DEF SendOut

LEMMA StillBusy ==
  ASSUME Busy', Still', inStep' \in {"START", "FINISH"},
         out'.req \in DOMAIN reqs', out'.method = reqs'[out'.req].m
  PROVE  Account'
<1>1. OwedInv'
  BY DEF Still, OwedInv
<1>2. HeaderInv'
  BY DEF HeaderInv
<1>3. Ahead(inStep, out.req, out.method, in, Source)'
  <2>1. Source' = <<>> /\ FinalAhead(out'.req, out'.method, <<>>)
    BY NothingAhead DEF Still
  <2> QED BY <2>1 DEF Ahead
<1>4. outStep' \notin {"START", "FIRSTLINE", "HEADERS", "DECODE"}
  BY DEF Busy
<1> QED BY <1>1, <1>2, <1>3, <1>4 DEF Account

LEMMA StillDecode ==
  ASSUME outStep' = "DECODE", Still', Clean',
         inStep' \in {"START", "FINISH"} \/ (inStep' = "TUNNELING" /\ out'.method = "CONNECT"),
         out'.req \in DOMAIN reqs', out'.method = reqs'[out'.req].m
  PROVE  Account'
BY DEF Account, Busy

\* Both machines are in STEP_FINISH.
LEMMA EndKept ==
  ASSUME DataInv, DataInv', WebInv, Guarded, Account, outStep = "FINISH", inStep = "FINISH",
         NEW close, EndExchange(close), UNCHANGED <<recvInBuf, sendOutBuf>>
  PROVE  Account'
<1>1. Still
  BY BusyThen DEF Busy
<1>2. Shorter
  <2>1. PICK keep : KeepWebsite(keep) /\ keep = (~recvConnectionClose /\ brConn')
    BY DEF EndExchange
  <2>2. keep \in BOOLEAN
    BY <2>1
  <2> QED BY <2>1, <2>2, ShortKept
<1>3. Still'
  BY <1>1, <1>2, StillKept DEF Heads
<1>4. outStep' = "START" /\ inStep' = "START"
  BY DEF EndExchange
<1> QED BY <1>3, <1>4 DEF Account, Busy

\* Manage() reads and writes, and leaves the exchange alone.
LEMMA AccountLoop ==
  ASSUME DataInv, DataInv', WebInv, PlaceInv, Guarded, Account, ManageLoop, ~Over'
  PROVE  Account'
<1>b. reqs \in Seq(Request) /\ brConn \in BOOLEAN
  BY SourceOK DEF DataInv, FlagInv
<1>k. ASSUME Shorter, Heads' \in {Heads, {}},
             UNCHANGED <<outStep, inStep, in, out, reqs>>
      PROVE  Account'
  BY <1>k, AccountKept
<1>l. ASSUME Shorter, sendOutBuf' \in {sendOutBuf, <<>>}
      PROVE  Shorter /\ Heads' \in {Heads, {}}
  BY <1>l, HeadsNone DEF Heads
<1> USE DEF stepVars, dataVars, envVars, inBufs, outBufs
<1>1. CASE OuterReceive \/ OuterSend \/ InnerSendIn \/ InnerReceiveOut \/ TrailSend \/ Trail503
  <2>1. UNCHANGED <<website, recvInBuf, sendOutBuf, outStep, inStep, in, out, reqs>>
    BY <1>1 DEF OuterReceive, OuterSend, InnerSendIn, InnerReceiveOut, TrailSend, Trail503
  <2> QED BY <2>1, <1>k, <1>l, ShortSame
<1>2. CASE InnerSendOut
  <2>1. SendOut(sendOutBuf) /\ UNCHANGED <<recvInBuf, outStep, inStep, in, out, reqs>>
    BY <1>2 DEF InnerSendOut
  <2>2. sendOutBuf \in Tokens /\ website \in WebsiteEnd
    BY SourceOK
  <2>3. CASE Heads = {}
    BY <2>1, <2>2, <2>3, <1>k, SendShort DEF Heads
  <2>4. CASE Heads # {}
    <3>1. Busy /\ OwedInv /\ HeaderInv /\ out.req \in DOMAIN reqs /\ out.method = reqs[out.req].m
      BY <2>4, BusyThen DEF Still
    <3>2. Heads = {out.req} /\ inStep = "START" /\ Source = <<>> /\ website.todo = {}
      BY <2>4, <3>1 DEF OwedInv
    <3>3. CASE website' = [website EXCEPT !.got = @ \o sendOutBuf, !.todo = @ \cup HeadsOf(sendOutBuf)]
               /\ sendOutBuf' = <<>>
      <4>1. /\ website'.net = website.net /\ website'.queue = website.queue
            /\ website'.todo = {out.req} /\ Heads' = {}
        BY <2>2, <3>2, <3>3, HeadsNone DEF WebsiteEnd, Heads
      <4>2. Source' = <<>>
        BY <2>1, <3>2, <4>1 DEF Source, Coming
      <4>3. OwedInv'
        BY <2>1, <3>2, <4>1, <4>2 DEF OwedInv
      <4>4. HeaderInv'
        <5>1. Clean
          BY <2>4, <3>1, <3>2 DEF HeaderInv, Still
        <5>2. Clean'
          BY <2>1, <5>1 DEF Clean
        <5> QED BY <2>1, <3>2, <5>2 DEF HeaderInv
      <4>5. Ahead(inStep, out.req, out.method, in, Source)'
        <5>1. FinalAhead(out.req, out.method, <<>>)
          BY NothingAhead
        <5> QED BY <2>1, <3>2, <4>2, <5>1 DEF Ahead
      <4> QED BY <2>1, <3>1, <3>2, <4>3, <4>4, <4>5 DEF Account, Busy
    <3>4. CASE UNCHANGED website
      <4>1. Shorter /\ sendOutBuf' \in {sendOutBuf, <<>>}
        BY <2>1, <3>4, ShortSame DEF SendOut
      <4> QED BY <2>1, <4>1, <1>k, <1>l
    <3>5. CASE KeepWebsite(FALSE)
      <4>1. Shorter /\ sendOutBuf' \in {sendOutBuf, <<>>}
        BY <2>1, <3>5, ShortKept DEF SendOut
      <4> QED BY <2>1, <4>1, <1>k, <1>l
    <3> QED BY <2>1, <3>3, <3>4, <3>5 DEF SendOut
  <2> QED BY <2>3, <2>4
<1>3. CASE InnerReceiveIn \/ TrailReceive
  <2>1. ReceiveIn /\ UNCHANGED <<sendOutBuf, outStep, inStep, in, out, reqs>>
    BY <1>3 DEF InnerReceiveIn, TrailReceive
  <2> QED BY <2>1, <1>k, <1>l, ShortReceive
<1>4. CASE InnerEnd \/ OuterEnd
  <2>1. /\ UNCHANGED <<recvInBuf, sendOutBuf, outStep, inStep, in, out, reqs>>
        /\ website' = website \/ KeepWebsite(FALSE)
    BY <1>4 DEF InnerEnd, OuterEnd, JudgeIf, Judge
  <2>2. Shorter
    BY <2>1, ShortSame, ShortKept
  <2> QED BY <2>1, <2>2, <1>k, <1>l
<1>5. CASE TrailFeed
  <2>1. CASE inStep \notin {"RAW", "CHUNK"}
    <3>1. UNCHANGED <<website, recvInBuf, sendOutBuf, outStep, inStep, in, out, reqs>>
      BY <1>5, <2>1 DEF TrailFeed
    <3> QED BY <3>1, <1>k, <1>l, ShortSame
  <2>2. CASE inStep \in {"RAW", "CHUNK"}
    <3>1. /\ inStep' = "FINISH" /\ in' = [in EXCEPT !.dumped = TRUE]
          /\ pc = "trailFeed" /\ pc' = "procIn" /\ ret' = "trailSend" /\ brConn' = brConn
          /\ UNCHANGED <<website, recvInBuf, sendOutBuf, outStep, out, reqs>>
      BY <1>5, <2>2 DEF TrailFeed, socketVars
    <3>2. brConn
      BY <3>1, <1>b DEF Over
    <3>3. website = Disconnected /\ recvInBuf = <<>>
      BY <3>1, <3>2 DEF PlaceInv, Leaving, WebInv
    <3>4. Source = <<>>
      BY <3>3, TokensDef, JoinEmpty DEF Source, Coming, Disconnected
    <3>5. /\ Busy /\ website.todo = {} /\ Heads = {}
          /\ out.req \in DOMAIN reqs /\ out.method = reqs[out.req].m
      BY <2>2, BusyThen
    <3>6. Still' /\ Busy'
      BY <3>1, <3>4, <3>5 DEF Still, Source, Coming, Heads, Busy
    <3> QED BY <3>1, <3>5, <3>6, StillBusy
  <2> QED BY <2>1, <2>2
<1>6. CASE Destroy
  BY <1>6 DEF Destroy, Over
<1> QED BY <1>1, <1>2, <1>3, <1>4, <1>5, <1>6 DEF ManageLoop

LEMMA AccountOut ==
  ASSUME DataInv, DataInv', WebInv, AskInv, Guarded, Guarded', Account, ProcessOut
  PROVE  Account'
<1>b. /\ reqs \in Seq(Request) /\ brSecure = FALSE /\ (pc = "outSend" => outStep = "DECODE")
      /\ out \in Out(Len(reqs)) /\ recvOutBuf \in Seq(Asked) /\ sendOutBuf \in Tokens
      /\ recvOutBuf \in Seq(Piece(Len(reqs))) /\ Len(reqs) \in Nat
  BY SourceOK DEF DataInv, FlagInv, ConnectsInv, Guarded, AskInv, RequestInv
<1> USE DEF stepVars, dataVars, envVars, inBufs, outBufs
<1>1. CASE OutReturn \/ OutDecodeBad \/ OutDecode
  <2>1. /\ UNCHANGED <<website, recvInBuf, sendOutBuf, outStep, inStep, in, reqs>>
        /\ out'.req = out.req /\ out'.method = out.method
    BY <1>1, <1>b DEF OutReturn, OutDecodeBad, OutDecode, Out
  <2>2. Heads' = Heads
    BY <2>1 DEF Heads
  <2> QED BY <2>1, <2>2, ShortSame, AccountKept
<1>2. CASE OutStart \/ OutFirstLine \/ OutHeaders
  <2>1. UNCHANGED <<website, recvInBuf, sendOutBuf, inStep, reqs>>
        /\ outStep \in {"START", "FIRSTLINE", "HEADERS"}
    BY <1>2 DEF OutStart, OutFirstLine, OutHeaders
  <2>2. inStep' = "START" /\ Still
    BY <2>1 DEF Account
  <2>3. Still'
    BY <2>1, <2>2 DEF Still, Source, Coming, Heads
  <2>4. CASE OutStart
    <3>1. outStep' = "FIRSTLINE" /\ in' = [in EXCEPT !.code = "", !.headers = <<>>]
      BY <2>4 DEF OutStart, Reset
    <3>2. in'.headers = <<>>
      BY <3>1, SourceOK DEF In
    <3>3. Clean'
      BY <3>2 DEF Clean
    <3> QED BY <2>2, <2>3, <3>1, <3>3 DEF Account, Busy
  <2>5. CASE OutFirstLine
    <3>1. /\ outStep = "FIRSTLINE" /\ outStep' = "HEADERS" /\ in' = in /\ recvOutBuf # <<>>
          /\ out'.req = Head(recvOutBuf).r /\ out'.method = reqs[Head(recvOutBuf).r].m
      BY <2>5 DEF OutFirstLine, NextIs
    <3>2. Clean /\ (Clean => Clean')
      BY <3>1 DEF Account, Clean
    <3>3. out'.req \in DOMAIN reqs
      <4>1. Head(recvOutBuf) \in Piece(Len(reqs))
        BY <3>1, <1>b, HeadTailProperties
      <4>2. DOMAIN reqs = 1..Len(reqs)
        BY <1>b, LenProperties
      <4> QED BY <3>1, <4>1, <4>2 DEF Piece
    <3> QED BY <2>1, <2>2, <2>3, <3>1, <3>2, <3>3 DEF Account, Busy
  <2>6. CASE OutHeaders
    <3>1. outStep = "HEADERS" /\ outStep' = "DECODE" /\ in' = in /\ out' = out
      BY <2>6 DEF OutHeaders
    <3>2. Clean'
      BY <3>1 DEF Account, Clean
    <3>3. out.req \in DOMAIN reqs /\ out.method = reqs[out.req].m
      BY <3>1 DEF Account
    <3> QED BY <2>1, <2>2, <2>3, <3>1, <3>2, <3>3, StillDecode
  <2> QED BY <1>2, <2>4, <2>5, <2>6
<1>3. CASE OutSend
  <2>1. /\ pc = "outSend" /\ outStep = "DECODE" /\ UNCHANGED <<website, recvInBuf, inStep, in, out, reqs>>
        /\ sendOutBuf' = IF inStep = "START" THEN <<Tok("qhead", out.req, out.method)>> ELSE sendOutBuf
        /\ outStep' \in {"TUNNELING", "FINISH", "CHUNK", "RAW"}
        /\ (outStep' # "TUNNELING" => out.method # "CONNECT")
    BY <1>3, <1>b DEF OutSend
  <2>2. /\ Still /\ Clean /\ inStep \in {"START", "FINISH"}
        /\ out.req \in DOMAIN reqs /\ out.method = reqs[out.req].m
    BY <2>1 DEF Account, Guarded
  <2>3. Busy' /\ Source' = <<>> /\ website'.todo = {} /\ Clean'
    BY <2>1, <2>2 DEF Guarded, Busy, Still, Source, Coming, Clean
  <2>4. CASE inStep = "FINISH"
    <3>1. Still'
      BY <2>1, <2>2, <2>3, <2>4 DEF Still, Heads
    <3> QED BY <2>1, <2>2, <2>3, <2>4, <3>1, StillBusy
  <2>5. CASE inStep = "START"
    <3>1. Heads' = {out.req}
      BY <2>1, <2>5, HeadsOne DEF Heads
    <3>2. OwedInv'
      BY <2>1, <2>3, <2>5, <3>1 DEF OwedInv
    <3>3. HeaderInv'
      BY <2>1, <2>3, <2>5 DEF HeaderInv
    <3>4. Ahead(inStep, out.req, out.method, in, Source)'
      <4>1. FinalAhead(out.req, out.method, <<>>)
        BY NothingAhead
      <4> QED BY <2>1, <2>3, <2>5, <4>1 DEF Ahead
    <3> QED BY <2>1, <2>2, <2>3, <2>5, <3>2, <3>3, <3>4 DEF Account, Busy
  <2> QED BY <2>2, <2>4, <2>5
<1>4. CASE OutChunk \/ OutRaw
  <2>1. /\ UNCHANGED <<website, recvInBuf, inStep, in, reqs>>
        /\ out'.req = out.req /\ out'.method = out.method /\ recvOutBuf # <<>>
    BY <1>4, <1>b DEF OutChunk, OutRaw, NextIs, Out
  <2>2. Busy /\ Busy'
    BY <1>4 DEF OutChunk, OutRaw, Busy
  <2>3. \E t \in Seq(Asked) : sendOutBuf' \in {sendOutBuf \o t, <<>>}
    <3>1. CASE OutChunk
      <4> DEFINE h == Head(recvOutBuf)
      <4>1. h \in Asked /\ h \in Token
        BY <2>1, <1>b, HeadTailProperties DEF Asked
      <4>2. sendOutBuf' \in {Append(sendOutBuf, h), <<>>}
        BY <3>1 DEF OutChunk, Unexpected
      <4> HIDE DEF h
      <4>3. Append(sendOutBuf, h) = sendOutBuf \o <<h>>
        BY <4>1, <1>b, TokensDef, AppendIsConcat
      <4>4. <<h>> \in Seq(Asked)
        BY <4>1
      <4> QED BY <4>2, <4>3, <4>4
    <3>2. CASE OutRaw
      <4> DEFINE n == CopySize(recvOutBuf, out.size)
                 t == SubSeq(recvOutBuf, 1, n)
      <4>1. sendOutBuf' \in {sendOutBuf \o t, <<>>}
        BY <3>2 DEF OutRaw, Unexpected
      <4>2. n \in 0..Len(recvOutBuf)
        <5>1. Len(recvOutBuf) \in Nat /\ out.size \in Nat
          BY <1>b, LenProperties DEF Out
        <5> QED BY <5>1 DEF CopySize
      <4> HIDE DEF n
      <4>3. t \in Seq(Asked)
        BY <4>2, <1>b, CutType
      <4> QED BY <4>1, <4>3
    <3> QED BY <1>4, <3>1, <3>2
  <2>4. Heads' \in {Heads, {}}
    BY <2>3, <1>b, HeadsJoin, HeadsNone DEF Heads
  <2> QED BY <2>1, <2>2, <2>4, ShortSame, AccountKept
<1>5. CASE OutTunneling
  BY <1>5 DEF OutTunneling, Guarded
<1>6. CASE OutFinish
  <2>1. /\ outStep = "FINISH" /\ inStep = "FINISH" /\ EndExchange(sendConnectionClose)
        /\ UNCHANGED <<recvInBuf, sendOutBuf>>
    BY <1>6 DEF OutFinish
  <2> QED BY <2>1, EndKept
<1> QED BY <1>1, <1>2, <1>3, <1>4, <1>5, <1>6 DEF ProcessOut

LEMMA AccountConnect ==
  ASSUME DataInv, DataInv', WebInv, PlaceInv, RouteInv, Guarded, Guarded', Account,
         ConnectWebsite, ~Over'
  PROVE  Account'
<1>b. /\ reqs \in Seq(Request) /\ brSecure = FALSE /\ brSecure' = FALSE
      /\ website \in WebsiteEnd /\ recvInBuf \in Tokens /\ in \in In
      /\ (pc = "inRedirected" => outStep # "DECODE")
  BY SourceOK DEF DataInv, FlagInv, ConnectsInv, Guarded
<1>r. /\ pc \in {"established", "viaProxy", "awaitProxy", "tls", "resend"} => outStep = "DECODE"
      /\ pc # "awaitLocal"
      /\ pc = "route" /\ outStep # "DECODE" =>
           owner.rdir # "none" /\ Busy /\ inStep = "START" /\ Still
  BY DEF RouteInv, Parked
<1>a. /\ outStep = "DECODE" =>
           /\ Still /\ Clean /\ out.req \in DOMAIN reqs /\ out.method = reqs[out.req].m
           /\ inStep \in {"START", "FINISH"} \/ (inStep = "TUNNELING" /\ out.method = "CONNECT")
      /\ Busy => out.req \in DOMAIN reqs /\ out.method = reqs[out.req].m
  BY DEF Account
<1>k. ASSUME Shorter, Heads' = Heads, UNCHANGED <<outStep, inStep, in, out, reqs>>
      PROVE  Account'
  BY <1>k, AccountKept
<1>s. ASSUME Shorter, Heads' = Heads, UNCHANGED <<outStep, in, out, reqs>>, pc = "route",
             inStep' = "FINISH"
      PROVE  Account'
  <2>1. Still
    BY <1>s, <1>a, <1>r
  <2>2. Still'
    BY <1>s, <2>1, StillKept
  <2>3. CASE outStep = "DECODE"
    <3>1. Clean'
      BY <1>s, <1>a, <2>3 DEF Clean
    <3> QED BY <1>s, <1>a, <2>2, <2>3, <3>1, StillDecode
  <2>4. CASE outStep # "DECODE"
    <3>1. Busy /\ Busy'
      BY <1>s, <1>r, <2>4 DEF Busy
    <3> QED BY <1>s, <1>a, <2>2, <3>1, StillBusy
  <2> QED BY <2>3, <2>4
<1> USE DEF stepVars, dataVars, envVars, inBufs, outBufs
<1>1. CASE ConnectFlush
  <2>1. /\ Still' /\ (outStep # "DECODE" => Busy /\ inStep' = "START")
        /\ (outStep = "DECODE" => inStep' = inStep) /\ UNCHANGED <<outStep, in, out, reqs>>
    BY <1>1, FlushStep DEF ConnectFlush
  <2>2. CASE outStep = "DECODE"
    <3>1. Clean'
      BY <1>a, <2>1, <2>2 DEF Clean
    <3> QED BY <1>a, <2>1, <2>2, <3>1, StillDecode
  <2>3. CASE outStep # "DECODE"
    <3>1. Busy'
      BY <2>1, <2>3 DEF Busy
    <3> QED BY <1>a, <2>1, <2>3, <3>1, StillBusy
  <2> QED BY <2>2, <2>3
<1>2. CASE LocalAnswer \/ Jump
  <2>1. /\ UNCHANGED <<website, recvInBuf, sendOutBuf, outStep, in, out, reqs>>
        /\ pc = "route" /\ inStep' = "FINISH"
    BY <1>2 DEF LocalAnswer, Jump, Fake
  <2>2. Heads' = Heads
    BY <2>1 DEF Heads
  <2> QED BY <2>1, <2>2, <1>s, ShortSame
<1>3. CASE ConnectFail
  <2>1. /\ UNCHANGED <<recvInBuf, sendOutBuf, outStep, in, out, reqs>> /\ KeepWebsite(FALSE)
        /\ pc = "route" /\ inStep' = "FINISH"
    BY <1>3 DEF ConnectFail, ToWebsite, Fake
  <2>2. Heads' = Heads
    BY <2>1 DEF Heads
  <2> QED BY <2>1, <2>2, <1>s, ShortKept
<1>4. CASE ApiAnswer \/ Rdir \/ ConnectReuse \/ Established \/ InRedirected
  <2>1. UNCHANGED <<website, recvInBuf, sendOutBuf, outStep, inStep, in, out, reqs>>
    BY <1>4 DEF ApiAnswer, Rdir, ConnectReuse, Established, InRedirected
  <2>2. Heads' = Heads
    BY <2>1 DEF Heads
  <2> QED BY <2>1, <2>2, <1>k, ShortSame
<1>5. CASE LocalTls
  BY <1>5, <1>b DEF LocalTls, Over
<1>6. CASE AwaitLine \/ AwaitLocal
  BY <1>6, <1>r DEF AwaitLine, AwaitLocal
<1>7. CASE ConnectOpen
  <2>1. /\ UNCHANGED <<recvInBuf, sendOutBuf, outStep, in, out, reqs>>
        /\ website' = [Disconnected EXCEPT !.open = TRUE, !.host = Target]
        /\ pc = "route" /\ owner.rdir = "none"
        /\ inStep' = inStep \/ (inStep' = "TUNNELING" /\ out.method = "CONNECT")
    BY <1>7 DEF ConnectOpen, ToWebsite
  <2>2. outStep = "DECODE" /\ recvInBuf = <<>>
    BY <2>1, <1>r DEF PlaceInv
  <2>3. website'.net = <<>> /\ website'.queue = <<>> /\ website'.todo = {}
    BY <2>1 DEF Disconnected
  <2>4. Coming' = <<>>
    BY <2>3, JoinEmpty, TokensDef DEF Coming
  <2>5. Source' = <<>>
    BY <2>1, <2>2, <2>4, JoinEmpty, TokensDef DEF Source
  <2>6. Still' /\ Clean'
    BY <2>1, <2>2, <2>3, <2>5, <1>a DEF Still, Heads, Clean
  <2> QED BY <2>1, <2>2, <2>6, <1>a, StillDecode
<1>8. CASE ViaProxy
  <2>1. /\ UNCHANGED <<recvInBuf, outStep, inStep, in, out, reqs>> /\ outStep = "DECODE"
        /\ SendOut(<<Tok("connect", out.req, "-")>>) \/ UNCHANGED <<sendOutBuf, website>>
    BY <1>8, <1>r DEF ViaProxy
  <2>2. HeadsOf(<<Tok("connect", out.req, "-")>>) = {}
    BY HeadsOne
  <2>3. <<Tok("connect", out.req, "-")>> \in Tokens
    <3>1. "connect" \in Kinds /\ "-" \in Values /\ out.req \in Nat
      BY StreamOK DEF Kinds, Values
    <3> QED BY <3>1, TokenOK
  <2>4. Shorter /\ Heads' = Heads
    <3>1. Heads = {}
      BY <2>1, <1>a DEF Still
    <3>2. CASE SendOut(<<Tok("connect", out.req, "-")>>)
      BY <2>1, <2>2, <2>3, <3>1, <3>2, SendShort
    <3>3. CASE UNCHANGED <<sendOutBuf, website>>
      BY <2>1, <3>3, ShortSame DEF Heads
    <3> QED BY <2>1, <3>2, <3>3
  <2> QED BY <2>1, <2>4, <1>k
<1>9. CASE AwaitProxy
  <2>1. /\ UNCHANGED <<sendOutBuf, outStep, inStep, out, reqs>> /\ outStep = "DECODE"
        /\ recvInBuf' = <<>> /\ in'.headers = in.headers /\ KeepWebsite(website.open)
    BY <1>9, <1>b, <1>r DEF AwaitProxy, Over, In
  <2>2. UNCHANGED recvInBuf /\ website.open \in BOOLEAN
    BY <1>9, <1>b, <2>1 DEF AwaitProxy, PlaceInv, WebsiteEnd
  <2>4. Shorter /\ Heads' = Heads
    BY <2>1, <2>2, ShortKept DEF Heads
  <2>3. Still' /\ Clean'
    BY <2>1, <2>4, <1>a, StillKept DEF Clean
  <2> QED BY <2>1, <2>3, <1>a, StillDecode
<1>10. CASE Tls
  <2>1. /\ UNCHANGED <<recvInBuf, sendOutBuf, outStep, inStep, in, out, reqs>>
        /\ UNCHANGED website \/ KeepWebsite(FALSE)
    BY <1>10 DEF Tls
  <2>2. Shorter /\ Heads' = Heads
    BY <2>1, ShortSame, ShortKept DEF Heads
  <2> QED BY <2>1, <2>2, <1>k
<1>12. CASE LocalSecure
  <2>1. /\ UNCHANGED <<website, recvInBuf, sendOutBuf, outStep, in, out, reqs>> /\ pc = "route"
        /\ inStep' \in {inStep, "FINISH"}
    BY <1>12 DEF LocalSecure, SecurePage
  <2>2. Heads' = Heads
    BY <2>1 DEF Heads
  <2> QED BY <2>1, <2>2, <1>k, <1>s, ShortSame
<1>11. CASE Resend
  <2>1. /\ UNCHANGED <<website, recvInBuf, sendOutBuf, outStep, inStep, in, out, reqs>>
    BY <1>11, <1>r DEF Resend
  <2>2. Heads' = Heads
    BY <2>1 DEF Heads
  <2> QED BY <2>1, <2>2, <1>k, ShortSame
<1> QED BY <1>1, <1>2, <1>3, <1>4, <1>5, <1>6, <1>7, <1>8, <1>9, <1>10, <1>11, <1>12
       DEF ConnectWebsite

-----------------------------------------------------------------------------
(* The account is kept: what comes from the website.                       *)

LEMMA BusyKept ==
  ASSUME Busy', OwedInv', HeaderInv', inStep' # "TUNNELING",
         Ahead(inStep, out.req, out.method, in, Source)',
         out'.req \in DOMAIN reqs', out'.method = reqs'[out'.req].m
  PROVE  Account'
<1>1. outStep' \notin {"START", "FIRSTLINE", "HEADERS", "DECODE"}
  BY DEF Busy
<1> QED BY <1>1 DEF Account

\* _ProcessIn takes the first token of what it has before it.
LEMMA TokenTaken ==
  ASSUME DataInv, DataInv', Guarded, Account, pc = "procIn", recvInBuf # <<>>,
         recvInBuf' = Tail(recvInBuf), UNCHANGED <<website, sendOutBuf, outStep, out, reqs>>
  PROVE  /\ Busy /\ Busy' /\ OwedInv /\ HeaderInv
         /\ Ahead(inStep, out.req, out.method, in, Source)
         /\ out'.req \in DOMAIN reqs' /\ out'.method = reqs'[out'.req].m
         /\ Source # <<>> /\ Source \in Tokens /\ Head(Source) = Head(recvInBuf)
         /\ Source' = Tail(Source) /\ Heads' = Heads
         /\ Head(recvInBuf) \in Token
<1>1. /\ Source # <<>> /\ Head(Source) = Head(recvInBuf)
      /\ Tail(Source) = Tail(recvInBuf) \o Coming /\ Head(recvInBuf) \in Token
  BY SourceHead
<1>2. Source' = Tail(Source) /\ Heads' = Heads
  BY <1>1 DEF Source, Coming, Heads
<1>3. Busy
  BY <1>1, BusyThen DEF Still
<1>4. Busy'
  BY <1>3 DEF Busy
<1> QED BY <1>1, <1>2, <1>3, <1>4, BusyThen, SourceOK

LEMMA TwoTails ==
  ASSUME NEW a, NEW b
  PROVE  /\ Tail(<<a>>) = <<>> /\ Tail(<<a, b>>) = <<b>> /\ Head(<<a, b>>) = a /\ Head(<<a>>) = a
         /\ <<a>> # <<>> /\ <<a, b>> # <<>> /\ <<a, b>> # <<a>>
OBVIOUS

LEMMA AccountFirstLine ==
  ASSUME DataInv, DataInv', Guarded, Account, InFirstLine
  PROVE  Account'
<1> DEFINE r == out.req
           m == out.method
           t == Head(recvInBuf)
<1>1. /\ pc = "procIn" /\ inStep = "FIRSTLINE" /\ recvInBuf # <<>> /\ t.k = "rline"
      /\ recvInBuf' = Tail(recvInBuf) /\ inStep' = "HEADERS"
      /\ in' = [in EXCEPT !.resp = t.r, !.code = t.v, !.size = 0, !.chunked = FALSE]
      /\ UNCHANGED <<website, sendOutBuf, outStep, out, reqs>>
  BY DEF InFirstLine, NextIs, envVars, outBufs
<1>2. in'.code = t.v /\ in'.headers = in.headers
  BY <1>1, SourceOK DEF In
<1>3. /\ Busy' /\ OwedInv /\ HeaderInv /\ Ahead(inStep, r, m, in, Source)
      /\ out'.req \in DOMAIN reqs' /\ out'.method = reqs'[out'.req].m
      /\ Source # <<>> /\ Head(Source) = t /\ Source' = Tail(Source) /\ Heads' = Heads
  BY <1>1, TokenTaken
<1> HIDE DEF t
<1>4. HeaderInv'
  <2>1. Clean'
    BY <1>1, <1>2, <1>3 DEF HeaderInv, Clean
  <2> QED BY <1>1, <2>1 DEF HeaderInv
<1>5. Heads = {} /\ website.todo \subseteq {r}
  BY <1>1, <1>3 DEF OwedInv
<1>6. CASE FinalAhead(r, m, Source)
  <2>1. PICK code \in Finals : t = Tok("rline", r, code) /\ HeadAhead(r, m, code, Source')
    BY <1>3, <1>6 DEF FinalAhead
  <2>2. in'.code = code
    BY <1>2, <2>1, TokIs
  <2>3. website.todo = {}
    <3>1. t # InterimLine(r)
      BY <2>1, TokIs DEF InterimLine, Finals
    <3>2. website.todo # {} =>
            Source \in {<<>>, <<InterimLine(r)>>, <<InterimLine(r), InterimHead(r)>>}
      BY <1>1, <1>3 DEF OwedInv
    <3> QED BY <1>3, <3>1, <3>2, TwoTails
  <2>4. OwedInv'
    BY <1>1, <1>3, <1>5, <2>3 DEF OwedInv
  <2>5. Ahead(inStep, out.req, out.method, in, Source)'
    <3>1. code # "100"
      BY DEF Finals
    <3> QED BY <1>1, <2>1, <2>2, <3>1 DEF Ahead
  <2> QED BY <1>1, <1>3, <1>4, <2>4, <2>5, BusyKept
<1>7. CASE InterimAhead(r, m, Source)
  <2>1. t = InterimLine(r) /\ InterimTail(r, m, Source')
    BY <1>3, <1>7 DEF InterimAhead
  <2>2. in'.code = "100"
    BY <1>2, <2>1, TokIs DEF InterimLine
  <2>3. OwedInv'
    <3> DEFINE l == InterimLine(r)
               h == InterimHead(r)
    <3>1. website.todo # {} => /\ Source \in {<<l>>, <<l, h>>} /\ (website.open => Source # <<l>>)
                               /\ website.hinted >= r
      BY <1>1, <1>3 DEF OwedInv
    <3> HIDE DEF l, h
    <3>t. Tail(<<l>>) = <<>> /\ Tail(<<l, h>>) = <<h>> /\ <<h>> # <<>>
      BY TwoTails
    <3>2. website.todo # {} => /\ Source' \in {<<>>, <<h>>} /\ (website.open => Source' # <<>>)
      BY <1>3, <3>1, <3>t
    <3>3. website.todo # {} => /\ Source' \in {<<>>, <<InterimHead(r)>>}
                               /\ (website.open => Source' # <<>>)
      BY <3>2 DEF h
    <3> QED BY <1>1, <1>3, <1>5, <2>2, <3>1, <3>3 DEF OwedInv
  <2>4. Ahead(inStep, out.req, out.method, in, Source)'
    BY <1>1, <2>1, <2>2 DEF Ahead
  <2> QED BY <1>1, <1>3, <1>4, <2>3, <2>4, BusyKept
<1> QED BY <1>1, <1>3, <1>6, <1>7 DEF Ahead

LEMMA AppendIs ==
  ASSUME NEW S, NEW s \in Seq(S), NEW t \in S
  PROVE  /\ Len(Append(s, t)) = Len(s) + 1 /\ Append(s, t)[Len(s) + 1] = t /\ Append(s, t) # <<>>
         /\ \A i \in 1..Len(s) : Append(s, t)[i] = s[i]
         /\ Len(s) \in Nat
<1>1. Len(s) \in Nat
  BY LenProperties
<1>2. /\ Append(s, t) \in Seq(S) /\ Len(Append(s, t)) = Len(s) + 1
      /\ Append(s, t)[Len(s) + 1] = t /\ \A i \in 1..Len(s) : Append(s, t)[i] = s[i]
  BY AppendProperties
<1>3. Append(s, t) # <<>>
  BY <1>1, <1>2, EmptySeq
<1> QED BY <1>1, <1>2, <1>3

LEMMA AccountHeaders ==
  ASSUME DataInv, DataInv', Guarded, Account, InHeaders
  PROVE  Account'
<1> DEFINE r == out.req
           m == out.method
           t == Head(recvInBuf)
           n == Len(in.headers)
<1>1. /\ pc = "procIn" /\ inStep = "HEADERS" /\ recvInBuf # <<>>
      /\ recvInBuf' = Tail(recvInBuf)
      /\ inStep' = IF in.code = "100" THEN "FIRSTLINE" ELSE "DECODE"
      /\ in' = [in EXCEPT !.headers = Append(@, t), !.code = IF @ = "100" THEN "" ELSE @]
      /\ UNCHANGED <<website, sendOutBuf, outStep, out, reqs>>
  BY DEF InHeaders, NextIs, envVars, outBufs
<1>2. /\ in'.code = (IF in.code = "100" THEN "" ELSE in.code)
      /\ in'.headers = Append(in.headers, t) /\ in.headers \in Seq(Token)
  BY <1>1, SourceOK, TokensDef DEF In
<1>3. /\ Busy' /\ OwedInv /\ HeaderInv /\ Ahead(inStep, r, m, in, Source)
      /\ out'.req \in DOMAIN reqs' /\ out'.method = reqs'[out'.req].m
      /\ Source # <<>> /\ Head(Source) = t /\ Source' = Tail(Source) /\ Heads' = Heads
      /\ t \in Token
  BY <1>1, TokenTaken
<1>4. /\ Len(in'.headers) = n + 1 /\ in'.headers[n + 1] = t /\ in'.headers # <<>>
      /\ \A i \in 1..n : in'.headers[i] = in.headers[i]
      /\ n \in Nat
  <2> DEFINE hs == in.headers
  <2>1. hs \in Seq(Token) /\ t \in Token
    BY <1>2, <1>3
  <2> HIDE DEF hs, t
  <2>2. /\ Len(Append(hs, t)) = Len(hs) + 1 /\ Append(hs, t)[Len(hs) + 1] = t
        /\ Append(hs, t) # <<>> /\ \A i \in 1..Len(hs) : Append(hs, t)[i] = hs[i]
        /\ Len(hs) \in Nat
    BY <2>1, AppendIs
  <2>3. in'.headers = Append(hs, t)
    BY <1>2 DEF hs, t
  <2> QED BY <2>2, <2>3 DEF hs
<1>5. \A i \in 1..n : in.headers[i].v = "none"
  BY <1>1, <1>3 DEF HeaderInv, Clean
<1>6. Heads = {} /\ website.todo \subseteq {r}
  BY <1>1, <1>3 DEF OwedInv
<1> HIDE DEF t, n
<1>7. CASE in.code = "100"
  <2>1. t = InterimHead(r) /\ FinalAhead(r, m, Source')
    BY <1>1, <1>3, <1>7 DEF Ahead, InterimTail
  <2>2. inStep' = "FIRSTLINE" /\ in'.code = ""
    BY <1>1, <1>2, <1>7
  <2>3. t.v = "none"
    BY <2>1, TokIs DEF InterimHead
  <2>4. Clean'
    <3>1. \A i \in 1..n + 1 : in'.headers[i].v = "none"
      BY <1>4, <1>5, <2>3
    <3> QED BY <1>4, <3>1 DEF Clean
  <2>5. HeaderInv'
    BY <2>2, <2>4 DEF HeaderInv
  <2>6. OwedInv'
    <3> DEFINE h == InterimHead(r)
    <3>1. website.todo # {} => /\ Source \in {<<>>, <<h>>} /\ website.hinted >= r
      BY <1>1, <1>3 DEF OwedInv
    <3> HIDE DEF h
    <3>t. Tail(<<h>>) = <<>>
      BY TwoTails
    <3>2. website.todo # {} => Source' = <<>> /\ website.hinted >= r
      BY <1>3, <3>1, <3>t
    <3>3. <<>> # <<InterimLine(r)>>
      BY TwoTails
    <3> QED BY <1>1, <1>3, <1>6, <2>2, <3>2, <3>3 DEF OwedInv
  <2>7. Ahead(inStep, out.req, out.method, in, Source)'
    BY <1>1, <2>1, <2>2 DEF Ahead
  <2> QED BY <1>3, <2>2, <2>5, <2>6, <2>7, BusyKept
<1>8. CASE in.code # "100"
  <2>1. in.code \in Finals /\ HeadAhead(r, m, in.code, Source)
    BY <1>1, <1>3, <1>8 DEF Ahead
  <2>2. PICK v \in Frames : /\ t \in {Tok("rhdr", r, v), Tok("rhdrClose", r, v)}
                            /\ in.code # "200" => v = "none"
                            /\ in.code = "101" \/ BodyAhead(r, m, v, Source')
    BY <1>3, <2>1 DEF HeadAhead
  <2>3. t.v = v
    BY <2>2, TokIs
  <2>4. inStep' = "DECODE" /\ in'.code = in.code /\ Own' = v
    BY <1>1, <1>2, <1>4, <1>8, <2>3 DEF Own
  <2>5. HeaderInv'
    <3>1. \A i \in 1..Len(in'.headers) - 1 : in'.headers[i].v = "none"
      BY <1>4, <1>5
    <3> QED BY <1>4, <2>1, <2>2, <2>4, <3>1 DEF HeaderInv
  <2>6. website.todo = {}
    BY <1>1, <1>3, <1>8 DEF OwedInv
  <2>7. OwedInv'
    BY <1>1, <1>3, <1>6, <2>6 DEF OwedInv
  <2>8. Ahead(inStep, out.req, out.method, in, Source)'
    BY <1>1, <2>2, <2>4 DEF Ahead, Own
  <2> QED BY <1>3, <2>4, <2>5, <2>7, <2>8, BusyKept
<1> QED BY <1>7, <1>8

LEMMA AccountChunk ==
  ASSUME DataInv, DataInv', ChunkedInv, Guarded, Account, InChunk
  PROVE  Account'
<1> DEFINE r == out.req
           m == out.method
           t == Head(recvInBuf)
<1>1. /\ pc = "procIn" /\ inStep = "CHUNK" /\ recvInBuf # <<>> /\ in.chunked
      /\ t.k \in {"size", "last"}
      /\ recvInBuf' = Tail(recvInBuf)
      /\ \/ t.k = "size" /\ inStep' = "RAW" /\ in' = [in EXCEPT !.size = 1]
         \/ t.k # "size" /\ inStep' = "FINISH" /\ in' = [in EXCEPT !.size = 0, !.dumped = TRUE]
      /\ UNCHANGED <<website, sendOutBuf, outStep, out, reqs>>
  BY DEF InChunk, NextIs, envVars, outBufs, ChunkedInv
<1>2. /\ in'.headers = in.headers /\ in'.chunked = in.chunked
      /\ (t.k = "size" => in'.size = 1)
  BY <1>1, SourceOK DEF In
<1>3. /\ Busy /\ Busy' /\ OwedInv /\ HeaderInv /\ Ahead(inStep, r, m, in, Source)
      /\ out'.req \in DOMAIN reqs' /\ out'.method = reqs'[out'.req].m
      /\ Source # <<>> /\ Head(Source) = t /\ Source' = Tail(Source) /\ Heads' = Heads
  BY <1>1, TokenTaken
<1>4. website.todo = {} /\ Heads = {}
  BY <1>1, <1>3, BusyThen
<1>5. OwedInv'
  BY <1>1, <1>3, <1>4 DEF OwedInv
<1>6. HeaderInv'
  BY <1>1, <1>2, <1>3 DEF HeaderInv, Own
<1> HIDE DEF t
<1>7. Ahead(inStep, out.req, out.method, in, Source)'
  <2>1. ChunkAhead(r, Source) \/ LastAhead(r, Source)
    BY <1>1, <1>3 DEF Ahead
  <2>2. CASE t.k = "size"
    <3>1. ~LastAhead(r, Source)
      BY <1>3, <2>2, TokIs DEF LastAhead
    <3>2. PieceAhead(r, Source')
      BY <1>3, <2>1, <3>1 DEF ChunkAhead
    <3> QED BY <1>1, <1>2, <2>2, <3>2 DEF Ahead
  <2>3. CASE t.k # "size"
    <3>1. ~ChunkAhead(r, Source)
      BY <1>3, <2>3, TokIs DEF ChunkAhead
    <3>2. Source' = <<>>
      BY <1>3, <2>1, <3>1 DEF LastAhead
    <3> QED BY <1>1, <2>3, <3>2 DEF Ahead
  <2> QED BY <2>2, <2>3
<1> QED BY <1>1, <1>3, <1>5, <1>6, <1>7, BusyKept

\* What DataFeed leaves of what was received.
LEMMA Cut ==
  ASSUME NEW s \in Tokens, s # <<>>
  PROVE  /\ Len(s) \in Nat /\ Len(s) >= 1
         /\ SubSeq(s, 2, Len(s)) = Tail(s)
         /\ SubSeq(s, Len(s) + 1, Len(s)) = <<>>
<1>1. s \in Seq(Token)
  BY TokensDef
<1>2. Len(s) \in Nat /\ Len(s) >= 1
  BY <1>1, LenProperties, EmptySeq
<1>3. Tail(s) \in Seq(Token) /\ Len(Tail(s)) = Len(s) - 1 /\ \A i \in 1..Len(s) - 1 : Tail(s)[i] = s[i + 1]
  BY <1>1, HeadTailProperties
<1>4. /\ SubSeq(s, 2, Len(s)) \in Seq(Token) /\ Len(SubSeq(s, 2, Len(s))) = Len(s) - 1
      /\ \A i \in 1..Len(s) - 1 : SubSeq(s, 2, Len(s))[i] = s[i + 1]
  <2>1. \A i \in 2..Len(s) : s[i] \in Token
    BY <1>1, ElementOfSeq
  <2> DEFINE k == Len(s)
  <2>2. k \in Nat /\ k >= 1 /\ \A i \in 2..k : s[i] \in Token
    BY <1>2, <2>1
  <2> HIDE DEF k
  <2>3. /\ SubSeq(s, 2, k) \in Seq(Token)
        /\ Len(SubSeq(s, 2, k)) = IF 2 <= k THEN k - 2 + 1 ELSE 0
        /\ \A i \in 1..k - 2 + 1 : SubSeq(s, 2, k)[i] = s[2 + i - 1]
    BY <2>2, SubSeqProperties
  <2>4. \A i \in 1..k - 1 : i \in 1..k - 2 + 1 /\ 2 + i - 1 = i + 1
    BY <2>2
  <2>5. Len(SubSeq(s, 2, k)) = k - 1
    BY <2>2, <2>3
  <2>6. \A i \in 1..k - 1 : SubSeq(s, 2, k)[i] = s[i + 1]
    BY <2>3, <2>4
  <2> QED BY <2>3, <2>5, <2>6 DEF k
<1>5. SubSeq(s, 2, Len(s)) = Tail(s)
  BY <1>2, <1>3, <1>4, SeqEqual
<1>6. SubSeq(s, Len(s) + 1, Len(s)) = <<>>
  <2>1. SubSeq(s, Len(s) + 1, Len(s)) \in Seq(Token)
    BY <1>1, <1>2, CutType
  <2>2. Len(SubSeq(s, Len(s) + 1, Len(s))) = 0
    BY <1>2
  <2> QED BY <2>1, <2>2, EmptySeq
<1> QED BY <1>2, <1>5, <1>6

\* What comes after as many pieces as there may be at most.
LEMMA PiecesAfter ==
  ASSUME NEW r, NEW n \in Nat, NEW s \in Tokens, NEW t \in Tokens, Pieces(r, n, s \o t)
  PROVE  /\ Len(s) \in Nat /\ Len(s) <= n /\ Pieces(r, n - Len(s), t)
         /\ (Len(s) = n => t = <<>>)
<1>1. /\ Len(s \o t) = Len(s) + Len(t) /\ Len(s) \in Nat /\ Len(t) \in Nat
      /\ \A i \in 1..Len(s) + Len(t) : (s \o t)[i] = IF i <= Len(s) THEN s[i] ELSE t[i - Len(s)]
  BY TokensDef, ConcatProperties, LenProperties
<1>2. Len(s) + Len(t) <= n /\ \A i \in 1..Len(s) + Len(t) : (s \o t)[i] = Tok("data", r, "-")
  BY <1>1 DEF Pieces
<1>3. ASSUME NEW i \in 1..Len(t) PROVE t[i] = Tok("data", r, "-")
  <2>1. i + Len(s) \in 1..Len(s) + Len(t) /\ ~(i + Len(s) <= Len(s)) /\ (i + Len(s)) - Len(s) = i
    BY <1>1
  <2> QED BY <1>1, <1>2, <2>1
<1>4. Len(s) = n => Len(t) = 0
  BY <1>1, <1>2
<1>5. Len(t) = 0 => t = <<>>
  BY TokensDef, EmptySeq
<1> QED BY <1>1, <1>2, <1>3, <1>4, <1>5 DEF Pieces

LEMMA AccountRaw ==
  ASSUME DataInv, DataInv', ChunkedInv, WebInv, Guarded, Account, InRaw
  PROVE  Account'
<1> DEFINE r    == out.req
           m    == out.method
           n    == CopySize(recvInBuf, in.size)
           left == in.size - n
           D    == recvInBuf' \o Coming
<1>1. /\ pc = "procIn" /\ inStep = "RAW" /\ recvInBuf # <<>>
      /\ recvInBuf' = SubSeq(recvInBuf, n + 1, Len(recvInBuf))
      /\ in'.size = (IF in.size = Unlimited THEN in.size ELSE left)
      /\ in'.headers = in.headers /\ in'.chunked = in.chunked
      /\ inStep' = IF left > 0 THEN "RAW" ELSE IF in.chunked THEN "CHUNK" ELSE "FINISH"
      /\ UNCHANGED <<website, webConn>> \/ KeepWebsite(FALSE)
      /\ UNCHANGED <<sendOutBuf, outStep, out, reqs>>
  BY SourceOK DEF InRaw, envVars, outBufs, In
<1>2. /\ recvInBuf \in Tokens /\ recvInBuf' \in Tokens /\ Coming \in Tokens /\ D \in Tokens
      /\ Source = recvInBuf \o Coming /\ Source \in Tokens /\ in.size \in Nat
  <2>1. recvInBuf' \in Tokens
    BY DEF DataInv, ResponseInv
  <2>2. recvInBuf \in Tokens /\ Coming \in Tokens /\ in.size \in Nat /\ Source \in Tokens
    BY SourceOK DEF In
  <2> QED BY <2>1, <2>2, JoinJoin DEF Source
<1>3. /\ Busy /\ Busy' /\ HeaderInv /\ Ahead(inStep, r, m, in, Source)
      /\ out'.req \in DOMAIN reqs' /\ out'.method = reqs'[out'.req].m
      /\ website.todo = {} /\ Heads = {}
  <2>1. Busy
    BY <1>1, BusyThen
  <2>2. Busy'
    BY <1>1, <2>1 DEF Busy
  <2> QED BY <1>1, <2>1, <2>2, BusyThen
<1>c. /\ Len(recvInBuf) \in Nat /\ Len(recvInBuf) >= 1
      /\ SubSeq(recvInBuf, 2, Len(recvInBuf)) = Tail(recvInBuf)
      /\ SubSeq(recvInBuf, Len(recvInBuf) + 1, Len(recvInBuf)) = <<>>
  BY <1>1, <1>2, Cut
<1>4. \/ website' = website /\ Source' = D
      \/ website' = Disconnected /\ Source' = recvInBuf'
  <2>1. CASE website' = website
    BY <2>1 DEF Source, Coming
  <2>2. CASE website' = Disconnected
    <3>1. Coming' = <<>>
      BY <2>2, JoinEmpty, TokensDef DEF Coming, Disconnected
    <3>2. Source' = recvInBuf'
      BY <1>2, <3>1, JoinEmpty DEF Source
    <3> QED BY <2>2, <3>2
  <2> QED BY <1>1, <2>1, <2>2 DEF KeepWebsite
<1>5. website'.todo = {} /\ Heads' = {}
  <2>1. Disconnected.todo = {}
    BY DEF Disconnected
  <2> QED BY <1>1, <1>3, <1>4, <2>1 DEF Heads
<1>6. OwedInv'
  BY <1>1, <1>5 DEF OwedInv
<1>u. Unlimited = 1000
  BY DEF Unlimited
<1>7. Ahead(inStep', r, m, in', D) /\ HeaderInv'
  <2>1. /\ in.chunked = (Own = "chunk") /\ (~in.chunked => (in.size = Unlimited) = (Own = "eof"))
        /\ Own' = Own
    BY <1>1, <1>3 DEF HeaderInv, Own
  <2>2. inStep' \in {"RAW", "CHUNK", "FINISH"}
    BY <1>1
  <2>3. CASE in.chunked
    <3>1. in.size = 1 /\ PieceAhead(r, Source)
      BY <1>1, <1>3, <2>3 DEF Ahead
    <3>2. n = 1
      <4> DEFINE k == Len(recvInBuf)
      <4>1. k \in Nat /\ k >= 1 /\ n = IF k > in.size THEN in.size ELSE k
        BY <1>c DEF CopySize
      <4> HIDE DEF k, n
      <4> QED BY <3>1, <4>1
    <3>3. left = 0
      BY <3>1, <3>2
    <3> HIDE DEF n, left
    <3>4. recvInBuf' = Tail(recvInBuf) /\ inStep' = "CHUNK"
      BY <1>1, <1>c, <2>3, <3>2, <3>3
    <3>5. Source # <<>> /\ Tail(Source) = D
      BY <1>1, <3>4, SourceHead DEF D
    <3>6. LastAhead(r, D)
      BY <3>1, <3>5 DEF PieceAhead
    <3>7. Ahead(inStep', r, m, in', D)
      BY <3>4, <3>6 DEF Ahead
    <3>8. HeaderInv'
      BY <1>1, <2>1, <2>3, <3>4 DEF HeaderInv
    <3> QED BY <3>7, <3>8
  <2>4. CASE ~in.chunked /\ in.size \in {1, 2} /\ Pieces(r, in.size, Source)
    <3> DEFINE k == Len(recvInBuf)
    <3>1. k <= in.size /\ Pieces(r, in.size - k, Coming) /\ (k = in.size => Coming = <<>>)
      BY <1>2, <2>4, PiecesAfter
    <3>2. n = k
      BY <1>2, <1>c, <3>1 DEF CopySize
    <3>3. left = in.size - k /\ recvInBuf' = <<>>
      <4> HIDE DEF n
      <4> QED BY <1>1, <1>c, <3>2
    <3>4. D = Coming
      BY <1>2, <3>3, JoinEmpty DEF D
    <3> HIDE DEF n, left, D
    <3>5. in'.size = left /\ in.size # Unlimited
      BY <1>1, <1>u, <2>4
    <3>6. CASE left = 0
      <4>1. inStep' = "FINISH" /\ D = <<>>
        BY <1>1, <1>2, <1>c, <2>4, <3>1, <3>3, <3>4, <3>6
      <4> QED BY <4>1 DEF Ahead, HeaderInv
    <3>7. CASE left # 0
      <4>1. left = 1 /\ inStep' = "RAW"
        BY <1>1, <1>2, <1>c, <2>4, <3>1, <3>3, <3>7
      <4>2. Pieces(r, 1, D)
        BY <3>1, <3>3, <3>4, <4>1
      <4>3. Ahead(inStep', r, m, in', D)
        BY <1>1, <2>4, <3>5, <4>1, <4>2 DEF Ahead
      <4>4. in'.size # Unlimited
        BY <1>u, <3>5, <4>1
      <4>5. HeaderInv'
        BY <1>1, <2>1, <2>4, <3>5, <4>1, <4>4 DEF HeaderInv
      <4> QED BY <4>3, <4>5
    <3> QED BY <3>6, <3>7
  <2>5. CASE ~in.chunked /\ in.size = Unlimited /\ Pieces(r, 1, Source)
    <3> DEFINE k == Len(recvInBuf)
    <3>1. k <= 1 /\ (k = 1 => Coming = <<>>)
      <4> DEFINE one == 1
      <4>1. Pieces(r, one, recvInBuf \o Coming) /\ one \in Nat
        BY <1>2, <2>5
      <4> HIDE DEF one
      <4>2. Len(recvInBuf) <= one /\ (Len(recvInBuf) = one => Coming = <<>>)
        BY <1>2, <4>1, PiecesAfter
      <4> QED BY <4>2 DEF one
    <3>2. k = 1 /\ Coming = <<>>
      <4>1. k \in Nat /\ k >= 1
        BY <1>c
      <4> HIDE DEF k
      <4> QED BY <3>1, <4>1
    <3>3. n = k
      BY <1>u, <1>c, <2>5, <3>2 DEF CopySize
    <3>4. left > 0 /\ recvInBuf' = <<>>
      <4>1. left > 0
        BY <1>u, <2>5, <3>2, <3>3
      <4> HIDE DEF n, left
      <4> QED BY <1>1, <1>c, <3>3, <4>1
    <3>5. D = <<>>
      BY <1>2, <3>2, <3>4, JoinEmpty DEF D
    <3> HIDE DEF n, left, D
    <3>6. inStep' = "RAW" /\ in'.size = in.size
      BY <1>1, <2>5, <3>4
    <3>7. Ahead(inStep', r, m, in', D)
      <4>1. Pieces(r, 1, D)
        BY <3>5, NothingAhead
      <4> QED BY <1>1, <2>5, <3>6, <4>1 DEF Ahead
    <3>8. HeaderInv'
      BY <1>1, <2>1, <2>5, <3>6 DEF HeaderInv
    <3> QED BY <3>7, <3>8
  <2> QED BY <1>1, <1>3, <2>3, <2>4, <2>5 DEF Ahead
<1>8. Ahead(inStep, out.req, out.method, in, Source)'
  <2>1. Ahead(inStep', r, m, in', recvInBuf')
    <3> HIDE DEF r, m
    <3>1. Ahead(inStep', r, m, in', recvInBuf' \o Coming)
      BY <1>7 DEF D
    <3> QED BY <1>2, <3>1, AheadCut
  <2> QED BY <1>1, <1>4, <1>7, <2>1
<1>9. inStep' # "TUNNELING"
  BY <1>1
<1> QED BY <1>3, <1>6, <1>7, <1>8, <1>9, BusyKept

\* The headers of a response, read together, say what its last ones say.
LEMMA LastSays ==
  ASSUME DataInv, in.headers # <<>>, Own \in Frames,
         \A i \in 1..Len(in.headers) - 1 : in.headers[i].v = "none"
  PROVE  /\ Says({"chunk"}) = (Own = "chunk")
         /\ ContentType = (Own # "none")
         /\ ContentLength = IF Own \in {"len1", "len2", "bad"} THEN Own ELSE ""
<1> DEFINE hs == in.headers
           n  == Len(hs)
<1>1. hs \in Seq(Token) /\ n \in Nat /\ n >= 1 /\ DOMAIN hs = 1..n /\ hs[n].v = Own
  <2>1. hs \in Seq(Token)
    BY SourceOK, TokensDef DEF In
  <2>2. n \in Nat /\ n # 0 /\ DOMAIN hs = 1..n
    BY <2>1, LenProperties, EmptySeq
  <2>3. n >= 1
    <3> HIDE DEF n
    <3> QED BY <2>2
  <2> QED BY <2>1, <2>2, <2>3 DEF Own
<1>2. \A i \in 1..n - 1 : hs[i].v = "none"
  OBVIOUS
<1>3. \A i \in DOMAIN in.headers : i = n \/ in.headers[i].v = "none"
  <2> HIDE DEF n
  <2> QED BY <1>1, <1>2
<1>4. n \in DOMAIN in.headers /\ in.headers[n].v = Own
  <2> HIDE DEF n
  <2> QED BY <1>1
<1> HIDE DEF n, hs
<1>5. ASSUME NEW F, "none" \notin F PROVE Says(F) = (Own \in F)
  <2>1. Says(F) => Own \in F
    BY <1>3, <1>4, <1>5 DEF Says
  <2>2. Own \in F => Says(F)
    BY <1>4 DEF Says
  <2>3. Says(F) \in BOOLEAN
    BY DEF Says
  <2> QED BY <2>1, <2>2, <2>3
<1>6. Says({"chunk"}) = (Own = "chunk")
  BY <1>5
<1>7. ContentType = (Own # "none")
  BY <1>5 DEF ContentType
<1> DEFINE given == {i \in DOMAIN in.headers : in.headers[i].v \in {"len1", "len2", "bad"}}
<1>8. given = IF Own \in {"len1", "len2", "bad"} THEN {n} ELSE {}
  BY <1>3, <1>4
<1>9. ContentLength = IF given = {} THEN ""
                      ELSE in.headers[CHOOSE i \in given : \A j \in given : i <= j].v
  BY DEF ContentLength
<1>10. CASE Own \in {"len1", "len2", "bad"}
  <2>1. given = {n}
    BY <1>8, <1>10
  <2>2. n <= n
    <3>1. n \in Nat
      BY <1>1
    <3> QED BY <3>1
  <2> HIDE DEF given
  <2> DEFINE first == CHOOSE i \in given : \A j \in given : i <= j
  <2>3. \E i \in given : \A j \in given : i <= j
    BY <2>1, <2>2
  <2>4. first \in given
    BY <2>3
  <2>5. ContentLength = in.headers[first].v
    BY <1>9, <2>1
  <2> HIDE DEF first
  <2>6. first = n
    BY <2>1, <2>4
  <2> QED BY <1>4, <1>6, <1>7, <1>10, <2>5, <2>6
<1>11. CASE Own \notin {"len1", "len2", "bad"}
  <2>1. given = {}
    BY <1>8, <1>11
  <2> HIDE DEF given
  <2>2. ContentLength = ""
    BY <1>9, <2>1
  <2> QED BY <1>6, <1>7, <1>11, <2>2
<1> QED BY <1>10, <1>11

LEMMA AccountDecode ==
  ASSUME DataInv, DataInv', ChunkedInv, Guarded, Guarded', Account, InDecode
  PROVE  Account'
<1> DEFINE r == out.req
           m == out.method
           d == [in EXCEPT !.chunked = @ \/ (Says({"chunk"}) /\ out.method # "HEAD"),
                           !.size = BodySize]
           e(chain) == [d EXCEPT !.chain = chain /\ ContentType, !.dumped = FALSE]
           Goes(f, h, chain) ==
             LET rdir == IF f = "none" THEN owner.rdir ELSE f
             IN /\ owner' = [owner EXCEPT !.rdir = rdir, !.rdirHost = h]
                /\ IF rdir # "none" /\ redirectedIn < MaxRedirect
                   THEN /\ pc' = "connect" /\ in' = d
                        /\ UNCHANGED <<stepVars, sendInBuf, sendConnectionClose>>
                   ELSE Relay(e(chain))
<1>1. \E f \in InFilters :
        \E h \in (IF f \in {"jump", "rdir"} THEN Hosts ELSE {owner.rdirHost}), chain \in Chains :
          Goes(f, h, chain)
  BY ZenonT(40) DEF InDecode
<1>2. PICK f \in InFilters : \E h, chain : Goes(f, h, chain)
  BY <1>1
<1>3. PICK h, chain : Goes(f, h, chain)
  BY <1>2
<1>4. /\ pc = "procIn" /\ inStep = "DECODE" /\ ~(ContentLength = "bad" /\ m # "HEAD")
      /\ UNCHANGED <<website, recvInBuf, sendOutBuf, out, reqs>>
  BY DEF InDecode, envVars, outBufs
<1>5. /\ pc' = "connect" /\ in' = d /\ UNCHANGED <<inStep, outStep>>
      \/ Relay(e(chain))
  BY <1>3 DEF stepVars
<1>6. /\ d.chunked = (in.chunked \/ (Says({"chunk"}) /\ m # "HEAD")) /\ d.size = BodySize
      /\ d.headers = in.headers /\ d.code = in.code
      /\ e(chain).chunked = d.chunked /\ e(chain).size = d.size
      /\ e(chain).headers = in.headers /\ e(chain).code = in.code
  BY SourceOK DEF In
<1> DEFINE i == e(chain)
<1>7. Relay(i) => /\ in' = i
                  /\ outStep' = IF i.code = "101" THEN "TUNNELING" ELSE outStep
                  /\ inStep' = IF i.code = "101" THEN "TUNNELING"
                               ELSE IF i.code \in {"204", "100", "103"} THEN "FINISH"
                               ELSE IF i.chunked THEN "CHUNK" ELSE IF i.size > 0 THEN "RAW" ELSE "FINISH"
  BY DEF Relay
<1> HIDE DEF d, e, Goes, i
<1>8. /\ Busy /\ HeaderInv /\ Ahead(inStep, r, m, in, Source)
      /\ out'.req \in DOMAIN reqs' /\ out'.method = reqs'[out'.req].m
      /\ website.todo = {} /\ Heads = {}
  <2>1. Busy
    <3>1. inStep \notin {"START", "FINISH", "TUNNELING"}
      BY <1>4
    <3> QED BY <3>1, BusyThen
  <2> QED BY <1>4, <2>1, BusyThen
<1>9. Source' = Source /\ Heads' = {} /\ website'.todo = {}
  BY <1>4, <1>8 DEF Source, Coming, Heads
<1>10. OwedInv'
  BY <1>9 DEF OwedInv
<1>11. /\ in.headers # <<>> /\ \A j \in 1..Len(in.headers) - 1 : in.headers[j].v = "none"
       /\ in.code \in Finals /\ Own \in Frames /\ (in.code # "200" => Own = "none")
       /\ in.code = "101" \/ BodyAhead(r, m, Own, Source)
       /\ ~in.chunked
  BY <1>4, <1>8 DEF HeaderInv, Ahead, Own, ChunkedInv
<1>12. CASE pc' = "connect" /\ in' = d /\ UNCHANGED <<inStep, outStep>>
  <2>1. in'.headers = in.headers /\ in'.code = in.code /\ Own' = Own /\ Busy'
    BY <1>6, <1>8, <1>12 DEF Own, Busy
  <2>2. HeaderInv'
    BY <1>4, <1>11, <1>12, <2>1 DEF HeaderInv
  <2>3. Ahead(inStep, out.req, out.method, in, Source)'
    BY <1>4, <1>9, <1>11, <1>12, <2>1 DEF Ahead, Own
  <2> QED BY <1>4, <1>8, <1>10, <1>12, <2>1, <2>2, <2>3, BusyKept
<1>13. CASE Relay(i)
  <2>1. /\ Says({"chunk"}) = (Own = "chunk") /\ ContentType = (Own # "none")
        /\ ContentLength = IF Own \in {"len1", "len2", "bad"} THEN Own ELSE ""
    BY <1>11, LastSays
  <2>2. /\ in'.headers = in.headers /\ in'.code = in.code /\ Own' = Own
        /\ in'.chunked = (Own = "chunk" /\ m # "HEAD") /\ in'.size = BodySize
    BY <1>6, <1>7, <1>11, <1>13, <2>1 DEF i, Own
  <2>3. in.code # "101"
    BY <1>6, <1>7, <1>13 DEF i, Guarded
  <2>4. /\ outStep' = outStep /\ Busy'
        /\ inStep' = IF in.code = "204" THEN "FINISH"
                     ELSE IF in'.chunked THEN "CHUNK" ELSE IF in'.size > 0 THEN "RAW" ELSE "FINISH"
    BY <1>6, <1>7, <1>8, <1>11, <1>13, <2>3 DEF i, Busy, Finals
  <2>5. BodySize = IF m = "HEAD" THEN 0 ELSE IF Own = "len1" THEN 1 ELSE IF Own = "len2" THEN 2
                   ELSE IF Own # "none" THEN Unlimited ELSE 0
    BY <2>1 DEF BodySize
  <2>6. m = "HEAD" \/ Own # "bad"
    BY <1>4, <2>1
  <2>7. Own \in {"none", "len1", "len2", "chunk", "eof", "bad"}
    BY <1>11 DEF Frames
  <2>u. Unlimited = 1000
    BY DEF Unlimited
  <2>8. CASE m = "HEAD" \/ Own = "none"
    <3>0. ~(Own = "chunk" /\ m # "HEAD") /\ in'.size = 0
      BY <2>2, <2>5, <2>8
    <3>a. ~in'.chunked
      BY <2>2, <3>0, Zenon
    <3>b. Source' = <<>>
      BY <1>9, <1>11, <2>3, <2>8 DEF BodyAhead
    <3>1. inStep' = "FINISH" /\ Source' = <<>>
      BY <2>4, <3>0, <3>a, <3>b
    <3>2. HeaderInv' /\ Ahead(inStep, out.req, out.method, in, Source)'
      BY <3>1 DEF HeaderInv, Ahead
    <3> QED BY <1>8, <1>10, <2>4, <3>1, <3>2, BusyKept
  <2>9. CASE m # "HEAD" /\ Own # "none"
    <3>1. in.code # "204"
      BY <1>11, <2>9
    <3>2. CASE Own = "chunk"
      <4>1. inStep' = "CHUNK" /\ in'.chunked
        BY <2>2, <2>4, <2>9, <3>1, <3>2
      <4>2. HeaderInv'
        BY <2>2, <3>2, <4>1 DEF HeaderInv
      <4>3. Ahead(inStep, out.req, out.method, in, Source)'
        <5>1. ChunkAhead(r, Source)
          BY <1>11, <2>3, <3>2 DEF BodyAhead
        <5> QED BY <1>4, <1>9, <4>1, <5>1 DEF Ahead
      <4> QED BY <1>8, <1>10, <2>4, <4>1, <4>2, <4>3, BusyKept
    <3>3. CASE Own \in {"len1", "len2", "eof"}
      <4>0. ~(Own = "chunk" /\ m # "HEAD")
        BY <3>3
      <4>a. ~in'.chunked
        BY <2>2, <4>0, Zenon
      <4>1. ~in'.chunked /\ in'.size = IF Own = "len1" THEN 1 ELSE IF Own = "len2" THEN 2 ELSE 1000
        BY <2>2, <2>5, <2>9, <2>u, <3>3, <4>a
      <4>2. inStep' = "RAW"
        BY <2>4, <3>1, <4>1
      <4>3. HeaderInv'
        BY <2>2, <2>u, <3>3, <4>1, <4>2 DEF HeaderInv
      <4>4. Ahead(inStep, out.req, out.method, in, Source)'
        <5>1. Pieces(r, IF Own = "len2" THEN 2 ELSE 1, Source)
          BY <1>11, <3>3 DEF BodyAhead
        <5> QED BY <1>4, <1>9, <2>u, <3>3, <4>1, <4>2, <5>1 DEF Ahead
      <4> QED BY <1>8, <1>10, <2>4, <4>2, <4>3, <4>4, BusyKept
    <3> QED BY <2>6, <2>7, <2>9, <3>2, <3>3
  <2> QED BY <2>8, <2>9
<1> QED BY <1>5, <1>12, <1>13 DEF i

LEMMA AccountIn ==
  ASSUME DataInv, DataInv', ChunkedInv, WebInv, PlaceInv, Guarded, Guarded', Account,
         ProcessIn, ~Over'
  PROVE  Account'
<1>b. /\ pc = "procIn" /\ ret' = ret /\ outStep # "DECODE"
      /\ inStep # "START" => Busy
  <2>1. pc = "procIn" /\ ret' = ret
    BY DEF ProcessIn, InReturn, InStart, InFirstLine, InGarbage, InHeaders, InDecodeBad, InDecode,
       InChunk, InRaw, InTunneling, InFinish
  <2>2. outStep # "DECODE"
    BY <2>1 DEF DataInv, ConnectsInv, Opening, Opened
  <2> QED BY <2>1, <2>2, BusyThen
<1> USE DEF stepVars, dataVars, envVars, inBufs, outBufs
<1>1. CASE InReturn
  <2>1. UNCHANGED <<website, recvInBuf, sendOutBuf, outStep, inStep, in, out, reqs>>
    BY <1>1 DEF InReturn
  <2>2. Heads' = Heads
    BY <2>1 DEF Heads
  <2> QED BY <2>1, <2>2, ShortSame, AccountKept
<1>2. CASE InStart
  <2>1. /\ inStep = "START" /\ inStep' = "FIRSTLINE" /\ recvInBuf # <<>>
        /\ UNCHANGED <<website, recvInBuf, sendOutBuf, outStep, in, out, reqs>>
    BY <1>2 DEF InStart
  <2>2. Source # <<>>
    BY <2>1, SourceHead
  <2>3. /\ Busy /\ OwedInv /\ HeaderInv /\ Ahead(inStep, out.req, out.method, in, Source)
        /\ out.req \in DOMAIN reqs /\ out.method = reqs[out.req].m
    <3>1. Busy
      BY <2>2, BusyThen DEF Still
    <3> QED BY <3>1, BusyThen
  <2>4. /\ Source' = Source /\ Heads' = Heads /\ Busy' /\ Heads = {}
    BY <2>1, <2>2, <2>3 DEF Source, Coming, Heads, Busy, OwedInv
  <2>5. HeaderInv'
    <3>1. Clean
      BY <2>1, <2>2, <2>3 DEF HeaderInv, Still
    <3>2. Clean'
      BY <2>1, <3>1 DEF Clean
    <3> QED BY <2>1, <3>2 DEF HeaderInv
  <2>6. OwedInv'
    BY <2>1, <2>2, <2>3, <2>4 DEF OwedInv
  <2>7. Ahead(inStep, out.req, out.method, in, Source)'
    BY <2>1, <2>3, <2>4 DEF Ahead
  <2> QED BY <2>1, <2>3, <2>4, <2>5, <2>6, <2>7, BusyKept
<1>3. CASE InFirstLine
  BY <1>3, AccountFirstLine
<1>4. CASE InGarbage
  <2>1. inStep = "FIRSTLINE" /\ recvInBuf # <<>> /\ Head(recvInBuf).k # "rline"
    BY <1>4 DEF InGarbage, NextIs
  <2>2. Source # <<>> /\ Head(Source) = Head(recvInBuf)
    BY <2>1, SourceHead
  <2>3. FinalAhead(out.req, out.method, Source) \/ InterimAhead(out.req, out.method, Source)
    BY <1>b, <2>1, BusyThen DEF Ahead
  <2>4. Head(Source).k = "rline"
    BY <2>2, <2>3, TokIs DEF FinalAhead, InterimAhead, InterimLine
  <2> QED BY <2>1, <2>2, <2>4
<1>5. CASE InHeaders
  BY <1>5, AccountHeaders
<1>6. CASE InDecodeBad
  BY <1>6 DEF InDecodeBad, Over
<1>7. CASE InDecode
  BY <1>7, AccountDecode
<1>8. CASE InChunk
  BY <1>8, AccountChunk
<1>9. CASE InRaw
  BY <1>9, AccountRaw
<1>10. CASE InTunneling
  <2>1. inStep = "TUNNELING"
    BY <1>10 DEF InTunneling
  <2> QED BY <1>b, <2>1, BusyThen
<1>11. CASE InFinish
  <2>1. /\ outStep \in {"START", "FINISH"} /\ inStep = "FINISH"
        /\ EndExchange(sendConnectionClose \/ ~valid) /\ UNCHANGED <<recvInBuf, sendOutBuf>>
    BY <1>11 DEF InFinish
  <2>2. outStep = "FINISH"
    BY <2>1 DEF Account
  <2> QED BY <2>1, <2>2, EndKept
<1> QED BY <1>1, <1>2, <1>3, <1>4, <1>5, <1>6, <1>7, <1>8, <1>9, <1>10, <1>11 DEF ProcessIn

-----------------------------------------------------------------------------
(* The account is kept: what the website does.                             *)

\* The one it owes an answer is the request in hand.
LEMMA OwedWhat ==
  ASSUME DataInv, AskInv, Guarded, Account, Idle, NEW r \in Pending
  PROVE  /\ r = out.req /\ r \in Nat /\ website.todo = {r} /\ Heads = {} /\ Busy /\ Clean
         /\ r \in DOMAIN reqs /\ out.method = reqs[r].m /\ reqs[r].m # "tun"
         /\ \/ inStep \in {"START", "FIRSTLINE"} /\ Source \in {<<>>, <<InterimLine(r), InterimHead(r)>>}
            \/ inStep = "HEADERS" /\ in.code = "100" /\ Source = <<InterimHead(r)>>
         /\ inStep # "START" \/ Source # <<>> => website.hinted >= r
<1>1. r \in website.todo /\ website.open /\ website.todo \subseteq Nat
  BY SourceOK DEF Pending, Idle, WebsiteEnd
<1>2. /\ Busy /\ OwedInv /\ HeaderInv /\ out.req \in DOMAIN reqs /\ out.method = reqs[out.req].m
  <2>1. Busy
    BY <1>1, BusyThen DEF Still
  <2> QED BY <2>1, BusyThen
<1>3. r = out.req /\ website.todo = {r} /\ Heads = {}
  BY <1>1, <1>2 DEF OwedInv
<1>4. \/ /\ inStep \in {"START", "FIRSTLINE"}
         /\ Source \in {<<>>, <<InterimLine(r)>>, <<InterimLine(r), InterimHead(r)>>}
         /\ Source # <<InterimLine(r)>>
      \/ /\ inStep = "HEADERS" /\ in.code = "100"
         /\ Source \in {<<>>, <<InterimHead(r)>>} /\ Source # <<>>
  BY <1>1, <1>2, <1>3 DEF OwedInv
<1>5. Clean
  BY <1>1, <1>2, <1>4 DEF HeaderInv, Still
<1>6. reqs[r].m # "tun"
  BY <1>2, <1>3 DEF AskInv
<1>7. inStep # "START" \/ Source # <<>> => website.hinted >= r
  BY <1>2, <1>3 DEF OwedInv
<1> QED BY <1>1, <1>2, <1>3, <1>4, <1>5, <1>6, <1>7

LEMMA SaidPieces ==
  ASSUME NEW n \in Nat, NEW said \in Nat
  PROVE  PiecesFrom(said, n) \in Tokens /\ (n = 0 => PiecesFrom(said, n) = <<>>)
<1>1. \A i \in 1..n : Tok("tun", said + i, "-") \in Token
  <2>1. "tun" \in Kinds /\ "-" \in Values /\ \A i \in 1..n : said + i \in Nat
    BY DEF Kinds, Values
  <2> QED BY <2>1, TokenOK
<1>2. PiecesFrom(said, n) \in [1..n -> Token]
  BY <1>1 DEF PiecesFrom
<1>3. PiecesFrom(said, n) \in Seq(Token)
  BY <1>2
<1>4. n = 0 => Len(PiecesFrom(said, n)) = 0
  BY <1>2, <1>3
<1> QED BY <1>3, <1>4, EmptySeq, TokensDef

LEMMA AccountAnswer ==
  ASSUME DataInv, DataInv', AskInv, Guarded, Account, WebsiteAnswer
  PROVE  Account'
<1>1. PICK r \in Pending :
        \E a \in Responses : \E n \in (IF a.code = "101" THEN 0..MaxPieces ELSE {0}) :
          website' = [website EXCEPT
            !.todo = @ \ {r}, !.ending = a.close \/ a.frame = "eof", !.said = @ + n,
            !.queue = <<Tok("rline", r, a.code),
                        Tok(IF a.close THEN "rhdrClose" ELSE "rhdr", r, a.frame)>>
                      \o (IF reqs[r].m = "HEAD" THEN <<>> ELSE BodyOf(r, a.frame))
                      \o PiecesFrom(website.said, n)]
  BY DEF WebsiteAnswer
<1>2. UNCHANGED <<recvInBuf, sendOutBuf, outStep, inStep, in, out, reqs>> /\ Idle
  BY DEF WebsiteAnswer, threadVars, envVars, inBufs, outBufs, stepVars, dataVars
<1> DEFINE l == InterimLine(r)
           h == InterimHead(r)
           m == reqs[r].m
<1>3. /\ r = out.req /\ r \in Nat /\ website.todo = {r} /\ Heads = {} /\ Busy /\ Clean
      /\ r \in DOMAIN reqs /\ out.method = m /\ m # "tun"
      /\ \/ inStep \in {"START", "FIRSTLINE"} /\ Source \in {<<>>, <<l, h>>}
         \/ inStep = "HEADERS" /\ in.code = "100" /\ Source = <<h>>
  BY <1>2, OwedWhat
<1>4. PICK a \in Responses, n \in 0..MaxPieces :
        /\ a.code = "101" \/ n = 0
        /\ website' = [website EXCEPT !.todo = @ \ {r}, !.ending = a.close \/ a.frame = "eof",
                                      !.said = @ + n,
                                      !.queue = Answer(r, m, a, PiecesFrom(website.said, n))]
  <2>1. PICK a \in Responses : \E n \in (IF a.code = "101" THEN 0..MaxPieces ELSE {0}) :
          website' = [website EXCEPT !.todo = @ \ {r}, !.ending = a.close \/ a.frame = "eof",
                                     !.said = @ + n,
                                     !.queue = Answer(r, m, a, PiecesFrom(website.said, n))]
    BY <1>1 DEF Answer
  <2>2. 0 \in 0..MaxPieces
    BY DEF MaxPieces
  <2> QED BY <2>1, <2>2
<1> DEFINE p == PiecesFrom(website.said, n)
           w == Answer(r, m, a, p)
<1>p. p \in Tokens /\ (a.code = "101" \/ p = <<>>)
  <2>1. /\ n \in Nat /\ website.said \in Nat
    BY SourceOK DEF WebsiteEnd, MaxPieces
  <2> QED BY <1>4, <2>1, SaidPieces
<1>5. /\ website'.net = website.net /\ website'.queue = w /\ website'.todo = {}
  BY <1>3, <1>4, SourceOK DEF WebsiteEnd
<1>6. /\ w \in Tokens /\ FinalAhead(r, m, w)
      /\ InterimTail(r, m, <<h>> \o w) /\ InterimAhead(r, m, <<l, h>> \o w)
  BY <1>3, <1>p, AnswerAhead DEF Guarded, DataInv, PeerInv
<1> HIDE DEF p, w, l, h, m
<1>7. Source' = Source \o w
  <2>1. website.queue = <<>>
    BY <1>2 DEF Idle
  <2>2. recvInBuf \in Tokens /\ website.net \in Tokens
    BY SourceOK
  <2>3. Source = recvInBuf \o website.net
    BY <2>1, <2>2, JoinEmpty DEF Source, Coming
  <2>4. (recvInBuf \o website.net) \o w = recvInBuf \o (website.net \o w)
    BY <1>6, <2>2, JoinJoin
  <2> QED BY <1>2, <1>5, <2>3, <2>4 DEF Source, Coming
<1>8. Ahead(inStep, out.req, out.method, in, Source)'
  <2>1. CASE Source = <<>>
    <3>1. Source' = w
      BY <1>6, <1>7, <2>1, JoinEmpty
    <3>2. inStep \in {"START", "FIRSTLINE"}
      BY <1>3, <2>1, TwoTails
    <3> QED BY <1>2, <1>3, <1>6, <3>1, <3>2 DEF Ahead
  <2>2. CASE inStep \in {"START", "FIRSTLINE"} /\ Source = <<l, h>>
    BY <1>2, <1>3, <1>6, <1>7, <2>2 DEF Ahead
  <2>3. CASE inStep = "HEADERS" /\ in.code = "100" /\ Source = <<h>>
    BY <1>2, <1>3, <1>6, <1>7, <2>3 DEF Ahead
  <2> QED BY <1>3, <2>1, <2>2, <2>3
<1>9. OwedInv' /\ HeaderInv'
  <2>1. Heads' = {} /\ inStep' \in {"START", "FIRSTLINE", "HEADERS"}
    BY <1>2, <1>3 DEF Heads
  <2>2. Clean'
    BY <1>2, <1>3 DEF Clean
  <2> QED BY <1>5, <2>1, <2>2 DEF OwedInv, HeaderInv
<1>10. Busy' /\ inStep' # "TUNNELING"
  BY <1>2, <1>3 DEF Busy
<1>11. out'.req \in DOMAIN reqs' /\ out'.method = reqs'[out'.req].m
  BY <1>2, <1>3 DEF m
<1> QED BY <1>8, <1>9, <1>10, <1>11, BusyKept

LEMMA AccountInterim ==
  ASSUME DataInv, DataInv', AskInv, Guarded, Account, WebsiteInterim
  PROVE  Account'
<1>1. PICK r \in Pending, c \in Interims :
        /\ website.hinted < r
        /\ website' = [website EXCEPT !.hinted = r,
                         !.queue = <<Tok("rline", r, c), Tok("rhdr", r, "none")>>]
  BY DEF WebsiteInterim
<1>2. UNCHANGED <<recvInBuf, sendOutBuf, outStep, inStep, in, out, reqs>> /\ Idle
  BY DEF WebsiteInterim, threadVars, envVars, inBufs, outBufs, stepVars, dataVars
<1>3. /\ r = out.req /\ r \in Nat /\ website.todo = {r} /\ Heads = {} /\ Busy /\ Clean
      /\ r \in DOMAIN reqs /\ out.method = reqs[r].m
      /\ inStep # "START" \/ Source # <<>> => website.hinted >= r
  BY <1>2, OwedWhat
<1>4. c = "100"
  <2>1. Settings[setting] \in Setting
    BY ConstantsOK DEF DataInv, PeerInv
  <2> QED BY <2>1 DEF Setting, Interims, Guarded, Orderly
<1>5. inStep = "START" /\ Source = <<>>
  <2>1. website.hinted \in Nat /\ ~(website.hinted >= r)
    BY <1>1, <1>3, SourceOK DEF WebsiteEnd
  <2> QED BY <1>3, <2>1
<1> DEFINE l == InterimLine(r)
           h == InterimHead(r)
<1>6. /\ website'.net = website.net /\ website'.queue = <<l, h>> /\ website'.todo = {r}
      /\ website'.hinted = r
  BY <1>1, <1>3, <1>4, SourceOK DEF WebsiteEnd, InterimLine, InterimHead
<1>7. l \in Token /\ h \in Token
  <2>1. "100" \in Values /\ "none" \in Values /\ {"rline", "rhdr"} \subseteq Kinds
    BY DEF Values, Codes, Frames, Kinds
  <2> QED BY <1>3, <2>1, TokenOK DEF InterimLine, InterimHead
<1>8. InterimAhead(out.req, out.method, <<l, h>>)
  <2>1. Head(<<l, h>>) = l /\ Tail(<<l, h>>) = <<h>> /\ Head(<<h>>) = h /\ Tail(<<h>>) = <<>>
    <3> HIDE DEF l, h
    <3> QED BY TwoTails
  <2>2. FinalAhead(out.req, out.method, <<>>)
    BY NothingAhead
  <2>3. InterimTail(out.req, out.method, <<h>>)
    BY <1>3, <2>1, <2>2 DEF InterimTail
  <2> QED BY <1>3, <2>1, <2>3 DEF InterimAhead
<1> HIDE DEF l, h
<1>9. Source' = <<l, h>>
  <2>1. recvInBuf \in Tokens /\ Coming \in Tokens /\ website.net \in Tokens /\ website.queue \in Tokens
    BY SourceOK
  <2>2. recvInBuf = <<>> /\ Coming = <<>>
    BY <1>5, <2>1, Front DEF Source
  <2>3. website.net = <<>>
    BY <2>1, <2>2, Front DEF Coming
  <2>4. <<l, h>> \in Tokens
    BY <1>7, TokensDef
  <2>5. Coming' = <<l, h>>
    BY <1>6, <2>3, <2>4, JoinEmpty DEF Coming
  <2> QED BY <1>2, <2>2, <2>4, <2>5, JoinEmpty DEF Source
<1>10. Ahead(inStep, out.req, out.method, in, Source)'
  BY <1>2, <1>5, <1>8, <1>9 DEF Ahead
<1>11. OwedInv'
  <2>1. Heads' = {} /\ inStep' = "START" /\ out'.req = r
    BY <1>2, <1>3, <1>5 DEF Heads
  <2>2. <<l, h>> # <<l>>
    BY TwoTails
  <2>3. Source' \in {<<>>, <<InterimLine(r)>>, <<InterimLine(r), InterimHead(r)>>}
        /\ Source' # <<InterimLine(r)>>
    BY <1>9, <2>2 DEF l, h
  <2>4. r >= r
    BY <1>3
  <2> QED BY <1>6, <2>1, <2>3, <2>4 DEF OwedInv
<1>12. HeaderInv'
  <2>1. Clean'
    BY <1>2, <1>3 DEF Clean
  <2> QED BY <1>2, <1>5, <2>1 DEF HeaderInv
<1>13. Busy' /\ inStep' # "TUNNELING"
  BY <1>2, <1>3, <1>5 DEF Busy
<1>14. out'.req \in DOMAIN reqs' /\ out'.method = reqs'[out'.req].m
  BY <1>2, <1>3
<1> QED BY <1>10, <1>11, <1>12, <1>13, <1>14, BusyKept

LEMMA AccountEnvironment ==
  ASSUME DataInv, DataInv', AskInv, Guarded, Account, Environment
  PROVE  Account'
<1>1. /\ WebsiteAnswer \/ WebsiteInterim \/ Shorter
      /\ UNCHANGED <<recvInBuf, sendOutBuf, stepVars, out, in>>
  BY QuietEnvironment DEF Guarded
<1>2. CASE Shorter
  <2>1. UNCHANGED <<inStep, outStep, in, out>> /\ Heads' = Heads
    BY <1>1 DEF stepVars, Heads
  <2>2. out.req \in DOMAIN reqs => out.req \in DOMAIN reqs' /\ reqs'[out.req].m = reqs[out.req].m
    <3>1. CASE reqs' = reqs
      BY <3>1
    <3>2. ASSUME NEW x, reqs' = Append(reqs, x)
          PROVE  out.req \in DOMAIN reqs => out.req \in DOMAIN reqs' /\ reqs'[out.req] = reqs[out.req]
      <4> DEFINE rs == reqs
                 S == Request \cup {x}
      <4>1. rs \in Seq(S) /\ x \in S
        BY SourceOK, SeqMonotonic
      <4> HIDE DEF rs, S
      <4>2. /\ Append(rs, x) \in Seq(S) /\ Len(Append(rs, x)) = Len(rs) + 1
            /\ \A i \in 1..Len(rs) : Append(rs, x)[i] = rs[i]
        BY <4>1, AppendProperties
      <4>3. DOMAIN rs = 1..Len(rs) /\ DOMAIN Append(rs, x) = 1..Len(rs) + 1 /\ Len(rs) \in Nat
        BY <4>1, <4>2, LenProperties
      <4>4. \A i \in DOMAIN rs : i \in DOMAIN Append(rs, x) /\ Append(rs, x)[i] = rs[i]
        BY <4>2, <4>3
      <4> QED BY <3>2, <4>4 DEF rs
    <3>3. reqs' = reqs \/ \E x : reqs' = Append(reqs, x)
      <4>1. CASE BrowserRequest \/ BrowserTunnel
        BY <4>1 DEF BrowserRequest, BrowserTunnel
      <4>2. CASE \/ BrowserSend \/ BrowserClose \/ WebsiteAnswer \/ WebsiteTunnel \/ WebsiteInterim \/ WebsiteStray
                 \/ WebsiteSend \/ WebsiteClose \/ Stall \/ IdleExpire \/ SwitchToInvalid
        BY <4>2 DEF BrowserSend, BrowserClose, WebsiteAnswer, WebsiteTunnel, WebsiteInterim, WebsiteStray,
           WebsiteSend, WebsiteClose, Stall, IdleExpire, SwitchToInvalid, envVars
      <4> QED BY <4>1, <4>2 DEF Environment
    <3> QED BY <3>1, <3>2, <3>3
  <2> QED BY <1>2, <2>1, <2>2, AccountKept
<1> QED BY <1>1, <1>2, AccountAnswer, AccountInterim

LEMMA AccountStep ==
  ASSUME DataInv, DataInv', ChunkedInv, WebInv, AskInv, PlaceInv, RouteInv, AccountInv, [Next]_vars
  PROVE  AccountInv'
<1> SUFFICES ASSUME Guarded', ~Over' PROVE Account'
  BY DEF AccountInv
<1>1. Guarded
  BY GuardBack
<1>2. Account
  BY <1>1, OverBack DEF AccountInv
<1>3. CASE UNCHANGED vars \/ Terminated
  <2>1. UNCHANGED <<website, recvInBuf, sendOutBuf, outStep, inStep, in, out, reqs>>
    BY <1>3 DEF vars, Terminated, stepVars, dataVars, envVars, inBufs, outBufs
  <2>2. Heads' = Heads
    BY <2>1 DEF Heads
  <2> QED BY <1>2, <2>1, <2>2, ShortSame, AccountKept
<1>4. CASE Environment
  BY <1>1, <1>2, <1>4, AccountEnvironment
<1>5. CASE ManageLoop
  BY <1>1, <1>2, <1>5, AccountLoop
<1>6. CASE ProcessOut
  BY <1>1, <1>2, <1>6, AccountOut
<1>7. CASE ConnectWebsite
  BY <1>1, <1>2, <1>7, AccountConnect
<1>8. CASE ProcessIn
  BY <1>1, <1>2, <1>8, AccountIn
<1> QED BY <1>3, <1>4, <1>5, <1>6, <1>7, <1>8 DEF Next, Thread

-----------------------------------------------------------------------------
(* The account of the whole connection.                                    *)

ExchangeInv ==
  WebInv /\ EmptiedInv /\ AskInv /\ SaidInv /\ RouteInv /\ PlaceInv /\ AccountInv

LEMMA ExchangeInit == Init => ExchangeInv
<1> SUFFICES ASSUME Init PROVE ExchangeInv
  OBVIOUS
<1>1. WebInv
  BY DEF Init, WebInv, Disconnected
<1>2. EmptiedInv
  BY DEF Init, EmptiedInv, Connecting
<1>3. AskInv
  <2>1. browser.net = <<>> /\ browser.queue = <<>> /\ recvOutBuf = <<>> /\ reqs = <<>>
    BY DEF Init
  <2>2. DOMAIN reqs = {}
    BY <2>1
  <2> QED BY <2>1, <2>2 DEF AskInv
<1>4. SaidInv
  <2>1. browser.got = <<>> /\ sendInBuf = <<>>
    BY DEF Init
  <2> QED BY <2>1 DEF SaidInv
<1>5. RouteInv
  BY DEF Init, RouteInv
<1>6. PlaceInv
  BY DEF Init, PlaceInv, Outer, Leaving, Connecting
<1>7. AccountInv
  <2>1. /\ website = Disconnected /\ recvInBuf = <<>> /\ sendOutBuf = <<>>
        /\ outStep = "START" /\ inStep = "START"
    BY DEF Init
  <2>2. website.net = <<>> /\ website.queue = <<>> /\ website.todo = {}
    BY <2>1 DEF Disconnected
  <2>3. Coming = <<>>
    BY <2>2, JoinEmpty, TokensDef DEF Coming
  <2>4. Source = <<>>
    BY <2>1, <2>3, JoinEmpty, TokensDef DEF Source
  <2>5. Still
    BY <2>1, <2>2, <2>4, HeadsNone DEF Still, Heads
  <2> QED BY <2>1, <2>5 DEF AccountInv, Account, Busy
<1> QED BY <1>1, <1>2, <1>3, <1>4, <1>5, <1>6, <1>7 DEF ExchangeInv

LEMMA ExchangeStep ==
  DataInv /\ DataInv' /\ FramingInv /\ ExchangeInv /\ [Next]_vars => ExchangeInv'
<1> SUFFICES ASSUME DataInv, DataInv', FramingInv, ExchangeInv, [Next]_vars PROVE ExchangeInv'
  OBVIOUS
<1>1. /\ PathInv /\ SourceInv /\ ChunkedInv
      /\ WebInv /\ EmptiedInv /\ AskInv /\ SaidInv /\ RouteInv /\ PlaceInv /\ AccountInv
  BY DEF FramingInv, ExchangeInv
<1>2. WebInv' /\ EmptiedInv' /\ AskInv' /\ SaidInv'
  BY <1>1, WebStep, EmptiedStep, AskStep, SaidStep
<1>3. RouteInv'
  <2>1. CASE Guarded'
    BY <1>1, <2>1, GuardBack, RouteStep
  <2>2. CASE ~Guarded'
    BY <2>2 DEF RouteInv
  <2> QED BY <2>1, <2>2
<1>4. PlaceInv'
  <2>1. CASE Guarded'
    BY <1>1, <2>1, GuardBack, PlaceStep
  <2>2. CASE ~Guarded'
    BY <2>2 DEF PlaceInv
  <2> QED BY <2>1, <2>2
<1>5. AccountInv'
  BY <1>1, AccountStep
<1> QED BY <1>2, <1>3, <1>4, <1>5 DEF ExchangeInv

LEMMA OrderlyStays == DataInv /\ Orderly /\ [Next]_vars => Orderly'
BY SettingStays DEF Orderly, MaxStray, Interims, InFilters, Responses

\* IdleCloseBetween, for every website that sends what it is asked for and
\* nothing else, and with no filter that fetches a response again: the idle
\* clock of _JudgeManageContinue closes the browser's socket only when both
\* machines are at STEP_START and sendInBuf is empty.
THEOREM IdleCloseBetweenHolds == Spec /\ Orderly => IdleCloseBetween
<1> DEFINE Closes ==
      (/\ MaxStray = 0 /\ "103" \notin Interims /\ pc \in {"innerEnd", "outerEnd"}
       /\ brConn /\ ~brConn' /\ valid /\ ~brSecure)
      => \/ outStep = "START" /\ inStep = "START" /\ sendInBuf = <<>>
         \/ outStep = "TUNNELING"
<1>1. DataInv /\ ExchangeInv /\ Orderly /\ [Next]_vars => [Closes]_vars
  <2> SUFFICES ASSUME DataInv, ExchangeInv, Orderly, [Next]_vars,
                      pc \in {"innerEnd", "outerEnd"}, brConn, ~brConn', valid, ~brSecure,
                      outStep # "TUNNELING"
               PROVE  outStep = "START" /\ inStep = "START" /\ sendInBuf = <<>>
    OBVIOUS
  <2>1. InnerEnd \/ OuterEnd
    <3>1. CASE Environment \/ UNCHANGED vars
      BY <3>1, EnvironmentLeavesThread DEF threadVars, vars, socketVars
    <3>2. CASE ManageLoop
      BY <3>2 DEF ManageLoop, OuterReceive, OuterSend, InnerSendOut, InnerReceiveIn,
         InnerSendIn, InnerReceiveOut, TrailReceive, TrailFeed, TrailSend, Trail503, Destroy
    <3>3. CASE ProcessOut
      BY <3>3 DEF ProcessOut, OutReturn, OutStart, OutFirstLine, OutHeaders, OutDecodeBad, OutDecode, OutSend,
         OutChunk, OutRaw, OutTunneling, OutFinish
    <3>4. CASE ConnectWebsite
      BY <3>4 DEF ConnectWebsite, ConnectFlush, LocalAnswer, ApiAnswer, LocalTls, AwaitLine,
         AwaitLocal, LocalSecure, SecurePage, Jump, Rdir, ConnectReuse, ConnectFail, ConnectOpen, ToWebsite, Established,
         ViaProxy, AwaitProxy, Tls, Resend, InRedirected
    <3>5. CASE ProcessIn
      BY <3>5 DEF ProcessIn, InReturn, InStart, InFirstLine, InGarbage, InHeaders, InDecodeBad,
         InDecode, InChunk, InRaw, InTunneling, InFinish
    <3>6. CASE Terminated
      BY <3>6 DEF Terminated
    <3> QED BY <3>1, <3>2, <3>3, <3>4, <3>5, <3>6 DEF Next, Thread
  <2>2. Judge /\ (pc = "innerEnd" => innerRest)
    BY <2>1 DEF InnerEnd, OuterEnd, JudgeIf
  <2>3. outStep = "START"
    BY <2>2 DEF Judge, MustDrop, Expired
  <2>4. inStep = "START"
    <3>1. Guarded /\ ~Over
      BY DEF Guarded, Over
    <3> QED BY <2>3, <3>1 DEF ExchangeInv, AccountInv, Account
  <2>5. sendInBuf = <<>>
    BY <2>2 DEF ExchangeInv, EmptiedInv
  <2> QED BY <2>3, <2>4, <2>5
<1> QED BY DataInit, DataStep, FramingInit, FramingStep, ExchangeInit, ExchangeStep, OrderlyStays,
           <1>1, PTL DEF Spec, IdleCloseBetween

\* OwnFraming, for the same websites, outside tunnels: a body is read the way
\* the head it came with says, whatever interim heads came before it.
THEOREM OwnFramingHolds ==
  Spec /\ Orderly => [](~brSecure /\ outStep # "TUNNELING" => OwnFraming)
<1>1. DataInv /\ ExchangeInv /\ Orderly => (~brSecure /\ outStep # "TUNNELING" => OwnFraming)
  <2> SUFFICES ASSUME DataInv, ExchangeInv, Orderly, ~brSecure, outStep # "TUNNELING",
                      inStep \in {"CHUNK", "RAW"}
               PROVE  in.chunked = (Own = "chunk") /\ (~in.chunked => (in.size = Unlimited) = (Own = "eof"))
    BY DEF OwnFraming, Own
  <2>1. Guarded /\ PlaceInv /\ AccountInv
    BY DEF Guarded, ExchangeInv
  <2>2. ~(pc \in {"raise", "gone"} \/ Over)
    BY <2>1 DEF Over, PlaceInv, Outer
  <2>3. Account
    BY <2>1, <2>2 DEF AccountInv
  <2>4. HeaderInv
    BY <2>1, <2>3, BusyThen
  <2> QED BY <2>4 DEF HeaderInv
<1> QED BY DataInit, DataStep, FramingInit, FramingStep, ExchangeInit, ExchangeStep, OrderlyStays,
           <1>1, PTL DEF Spec

-----------------------------------------------------------------------------
(* What a website gets is for it.  What is on its way from the browser     *)
(* stands request by request, so what _ProcessOut takes for the body of a  *)
(* request is that, and goes where the request was for.                    *)

Up == recvOutBuf \o (browser.net \o browser.queue)

\* From i on, S has t, the rest of request r, and after it the next one's line;
\* it ends before that only if the browser left, or began no other request.
Stands(S, i, t, r, n, open) ==
  /\ \A j \in 1..Len(t) : i + j - 1 <= Len(S) => S[i + j - 1] = t[j]
  /\ i + Len(t) <= Len(S) => S[i + Len(t)] = Tok("line", r + 1, "-")
  /\ open => IF r < n THEN i + Len(t) <= Len(S) ELSE Len(S) = i + Len(t) - 1

\* Every line begins a whole request.
InOrder(S, q, open) ==
  \A i \in 1..Len(S) :
    S[i].k = "line" =>
      Stands(S, i, RequestTokens(S[i].r, q[S[i].r].b), S[i].r, Len(q), open)

LEMMA Dropped ==
  ASSUME NEW S \in Tokens, NEW k \in 0..Len(S)
  PROVE  LET D == SubSeq(S, k + 1, Len(S))
         IN D \in Tokens /\ Len(D) = Len(S) - k /\ \A j \in 1..Len(D) : D[j] = S[k + j]
<1>1. Len(S) \in Nat /\ S \in Seq(Token)
  BY TokensDef, LenProperties
<1>2. \A j \in 1..Len(S) : S[j] \in Token
  BY <1>1, ElementOfSeq
<1>3. SubSeq(S, k + 1, Len(S)) \in Seq(Token)
  BY <1>1, CutType
<1>4. Len(SubSeq(S, k + 1, Len(S))) = Len(S) - k
  BY <1>1, <1>2, SubSeqProperties
<1>5. \A j \in 1..(Len(S) - k) : SubSeq(S, k + 1, Len(S))[j] = S[k + j]
  BY <1>1, <1>2, SubSeqProperties
<1> QED BY <1>3, <1>4, <1>5, TokensDef

LEMMA StandsCut ==
  ASSUME NEW S \in Tokens, NEW t \in Tokens, NEW k \in 0..Len(t), k <= Len(S),
         NEW r \in Nat, NEW n \in Nat, NEW open, Stands(S, 1, t, r, n, open)
  PROVE  /\ Stands(SubSeq(S, k + 1, Len(S)), 1, SubSeq(t, k + 1, Len(t)), r, n, open)
         /\ \A j \in 1..k : S[j] = t[j]
<1> DEFINE D == SubSeq(S, k + 1, Len(S))
           u == SubSeq(t, k + 1, Len(t))
<1>1. Len(S) \in Nat /\ Len(t) \in Nat
  BY TokensDef, LenProperties
<1>2. /\ Len(D) = Len(S) - k /\ \A j \in 1..Len(D) : D[j] = S[k + j]
      /\ Len(u) = Len(t) - k /\ \A j \in 1..Len(u) : u[j] = t[k + j]
  BY <1>1, Dropped
<1>3. /\ \A j \in 1..Len(t) : 1 + j - 1 <= Len(S) => S[1 + j - 1] = t[j]
      /\ 1 + Len(t) <= Len(S) => S[1 + Len(t)] = Tok("line", r + 1, "-")
      /\ open => IF r < n THEN 1 + Len(t) <= Len(S) ELSE Len(S) = 1 + Len(t) - 1
  BY DEF Stands
<1> HIDE DEF D, u
<1>4. ASSUME NEW j \in 1..Len(u), 1 + j - 1 <= Len(D) PROVE D[1 + j - 1] = u[j]
  <2>1. k + j \in 1..Len(t) /\ k + j <= Len(S) /\ j \in 1..Len(D)
    BY <1>1, <1>2, <1>4
  <2>2. S[k + j] = t[k + j]
    BY <1>3, <2>1
  <2> QED BY <1>2, <2>1, <2>2
<1>5. ASSUME 1 + Len(u) <= Len(D) PROVE D[1 + Len(u)] = Tok("line", r + 1, "-")
  <2>1. 1 + Len(u) \in 1..Len(D) /\ k + (1 + Len(u)) = 1 + Len(t) /\ 1 + Len(t) <= Len(S)
    BY <1>1, <1>2, <1>5
  <2> QED BY <1>2, <1>3, <2>1
<1>6. open => IF r < n THEN 1 + Len(u) <= Len(D) ELSE Len(D) = 1 + Len(u) - 1
  BY <1>1, <1>2, <1>3
<1>7. Stands(D, 1, u, r, n, open)
  BY <1>4, <1>5, <1>6 DEF Stands
<1>8. \A j \in 1..k : S[j] = t[j]
  BY <1>1, <1>3
<1> QED BY <1>7, <1>8 DEF D, u

LEMMA OrderCut ==
  ASSUME NEW S \in Tokens, NEW k \in 0..Len(S), NEW q, Len(q) \in Nat, NEW open,
         InOrder(S, q, open),
         \A i \in 1..Len(S) : RequestTokens(S[i].r, q[S[i].r].b) \in Tokens
  PROVE  InOrder(SubSeq(S, k + 1, Len(S)), q, open)
<1> DEFINE D == SubSeq(S, k + 1, Len(S))
<1>1. /\ Len(S) \in Nat /\ Len(D) = Len(S) - k /\ \A j \in 1..Len(D) : D[j] = S[k + j]
  BY Dropped, TokensDef, LenProperties
<1> HIDE DEF D
<1>2. ASSUME NEW i \in 1..Len(D), D[i].k = "line"
      PROVE  Stands(D, i, RequestTokens(D[i].r, q[D[i].r].b), D[i].r, Len(q), open)
  <2> DEFINE t == RequestTokens(D[i].r, q[D[i].r].b)
             r == D[i].r
  <2>1. D[i] = S[k + i] /\ k + i \in 1..Len(S)
    BY <1>1
  <2>2. t \in Tokens /\ Stands(S, k + i, t, r, Len(q), open)
    BY <1>2, <2>1 DEF InOrder
  <2>3. Len(t) \in Nat
    BY <2>2, TokensDef, LenProperties
  <2> HIDE DEF t, r
  <2>4. /\ \A j \in 1..Len(t) : k + i + j - 1 <= Len(S) => S[k + i + j - 1] = t[j]
        /\ k + i + Len(t) <= Len(S) => S[k + i + Len(t)] = Tok("line", r + 1, "-")
        /\ open => IF r < Len(q) THEN k + i + Len(t) <= Len(S) ELSE Len(S) = k + i + Len(t) - 1
    BY <2>2 DEF Stands
  <2>5. ASSUME NEW j \in 1..Len(t), i + j - 1 <= Len(D) PROVE D[i + j - 1] = t[j]
    <3>1. i + j - 1 \in 1..Len(D) /\ k + (i + j - 1) = k + i + j - 1 /\ k + i + j - 1 <= Len(S)
      BY <1>1, <2>3, <2>5
    <3> QED BY <1>1, <2>4, <3>1
  <2>6. ASSUME i + Len(t) <= Len(D) PROVE D[i + Len(t)] = Tok("line", r + 1, "-")
    <3>1. i + Len(t) \in 1..Len(D) /\ k + (i + Len(t)) = k + i + Len(t) /\ k + i + Len(t) <= Len(S)
      BY <1>1, <2>3, <2>6
    <3> QED BY <1>1, <2>4, <3>1
  <2>7. open => IF r < Len(q) THEN i + Len(t) <= Len(D) ELSE Len(D) = i + Len(t) - 1
    BY <1>1, <2>3, <2>4
  <2> QED BY <2>5, <2>6, <2>7 DEF Stands, t, r
<1> QED BY <1>2 DEF InOrder, D

\* What the browser sends next goes where the stream ends.
LEMMA StandsMore ==
  ASSUME NEW S \in Tokens, NEW t \in Tokens, NEW i \in Nat \ {0}, NEW n \in Nat, NEW r \in 0..n,
         NEW u \in Tokens, u # <<>>, u[1] = Tok("line", n + 1, "-"),
         i <= Len(S) + 1, Stands(S, i, t, r, n, TRUE)
  PROVE  Stands(S \o u, i, t, r, n + 1, TRUE)
<1>1. Len(S) \in Nat /\ Len(t) \in Nat /\ Len(u) \in Nat /\ Len(u) > 0
  BY TokensDef, LenProperties, EmptySeq
<1>2. /\ Len(S \o u) = Len(S) + Len(u)
      /\ \A j \in 1..Len(S) : (S \o u)[j] = S[j]
      /\ (S \o u)[Len(S) + 1] = u[1]
  BY <1>1, TokensDef, ConcatProperties
<1>3. /\ \A j \in 1..Len(t) : i + j - 1 <= Len(S) => S[i + j - 1] = t[j]
      /\ i + Len(t) <= Len(S) => S[i + Len(t)] = Tok("line", r + 1, "-")
      /\ IF r < n THEN i + Len(t) <= Len(S) ELSE Len(S) = i + Len(t) - 1
  BY DEF Stands
<1> DEFINE W == S \o u
<1> HIDE DEF W
<1>4. ASSUME NEW j \in 1..Len(t) PROVE W[i + j - 1] = t[j]
  <2>1. i + j - 1 \in 1..Len(S)
    BY <1>1, <1>3
  <2> QED BY <1>2, <1>3, <2>1 DEF W
<1>5. W[i + Len(t)] = Tok("line", r + 1, "-")
  <2>1. CASE r < n
    <3>1. i + Len(t) \in 1..Len(S)
      BY <1>1, <1>3, <2>1
    <3> QED BY <1>2, <1>3, <3>1 DEF W
  <2>2. CASE r = n
    <3>1. i + Len(t) = Len(S) + 1
      BY <1>1, <1>3, <2>2
    <3> QED BY <1>2, <2>2, <3>1 DEF W
  <2> QED BY <2>1, <2>2
<1>6. r < n + 1 /\ i + Len(t) <= Len(W)
  BY <1>1, <1>2, <1>3 DEF W
<1> QED BY <1>4, <1>5, <1>6 DEF Stands, W

LEMMA StandsClosed ==
  ASSUME NEW S \in Tokens, NEW w \in Tokens, NEW t \in Tokens, NEW i \in Nat \ {0}, NEW n, NEW r,
         NEW open, Stands(S \o w, i, t, r, n, open)
  PROVE  Stands(S, i, t, r, n, FALSE)
<1>1. Len(S) \in Nat /\ Len(t) \in Nat /\ Len(w) \in Nat
  BY TokensDef, LenProperties
<1> DEFINE W == S \o w
<1>2. /\ Len(W) = Len(S) + Len(w)
      /\ \A j \in 1..Len(S) : W[j] = S[j]
  BY <1>1, TokensDef, ConcatProperties
<1> HIDE DEF W
<1>3. /\ \A j \in 1..Len(t) : i + j - 1 <= Len(W) => W[i + j - 1] = t[j]
      /\ i + Len(t) <= Len(W) => W[i + Len(t)] = Tok("line", r + 1, "-")
  BY DEF Stands, W
<1>4. ASSUME NEW j \in 1..Len(t), i + j - 1 <= Len(S) PROVE S[i + j - 1] = t[j]
  <2>1. i + j - 1 \in 1..Len(S) /\ i + j - 1 <= Len(W)
    BY <1>1, <1>2, <1>4
  <2> QED BY <1>2, <1>3, <2>1
<1>5. ASSUME i + Len(t) <= Len(S) PROVE S[i + Len(t)] = Tok("line", r + 1, "-")
  <2>1. i + Len(t) \in 1..Len(S) /\ i + Len(t) <= Len(W)
    BY <1>1, <1>2, <1>5
  <2> QED BY <1>2, <1>3, <2>1
<1> QED BY <1>4, <1>5 DEF Stands

-----------------------------------------------------------------------------
(* What a request looks like.                                              *)

LEMMA ConsCut ==
  ASSUME NEW a \in Token, NEW s \in Tokens
  PROVE  LET c == <<a>> \o s
         IN c \in Tokens /\ Len(c) = 1 + Len(s) /\ c[1] = a /\ SubSeq(c, 2, Len(c)) = s
            /\ \A j \in 1..Len(s) : c[1 + j] = s[j]
<1>1. <<a>> \in Seq(Token) /\ s \in Seq(Token) /\ Len(s) \in Nat
  BY TokensDef, LenProperties
<1>2. Len(<<a>>) = 1 /\ <<a>>[1] = a
  OBVIOUS
<1> DEFINE c == <<a>> \o s
<1>3. /\ c \in Tokens /\ Len(c) = 1 + Len(s) /\ c[1] = a
      /\ \A j \in 1..Len(s) : c[1 + j] = s[j]
  BY <1>1, <1>2, TokensDef, ConcatProperties
<1> HIDE DEF c
<1>4. 1 \in 0..Len(c) /\ 1 + 1 = 2
  BY <1>1, <1>3
<1>5. LET D == SubSeq(c, 2, Len(c))
      IN D \in Tokens /\ Len(D) = Len(s) /\ \A j \in 1..Len(D) : D[j] = s[j]
  BY <1>1, <1>3, <1>4, Dropped
<1>6. SubSeq(c, 2, Len(c)) = s
  BY <1>1, <1>5, TokensDef, SeqEqual
<1> QED BY <1>3, <1>6 DEF c

BodyTokensFor(r, b) ==
  CASE b = "len"   -> <<Tok("byte", r, "-"), Tok("byte", r, "-")>>
    [] b = "chunk" -> <<Tok("size", r, "-"), Tok("byte", r, "-"), Tok("last", r, "-")>>
    [] OTHER       -> <<>>
AfterLine(r, b) == <<Tok("hdr", r, "-")>> \o BodyTokensFor(r, b)

LEMMA RequestShape ==
  ASSUME NEW r \in Nat, NEW b
  PROVE  /\ BodyTokensFor(r, b) \in Tokens /\ AfterLine(r, b) \in Tokens
         /\ RequestTokens(r, b) \in Tokens /\ RequestTokens(r, b) # <<>>
         /\ RequestTokens(r, b)[1] = Tok("line", r, "-")
         /\ Len(RequestTokens(r, b)) >= 2 /\ Len(AfterLine(r, b)) >= 1
         /\ SubSeq(RequestTokens(r, b), 2, Len(RequestTokens(r, b))) = AfterLine(r, b)
         /\ SubSeq(AfterLine(r, b), 2, Len(AfterLine(r, b))) = BodyTokensFor(r, b)
         /\ AfterLine(r, b)[1] = Tok("hdr", r, "-")
         /\ \A j \in 2..Len(RequestTokens(r, b)) : RequestTokens(r, b)[j].k # "line"
<1> DEFINE t(k) == Tok(k, r, "-")
           body == BodyTokensFor(r, b)
<1>1. \A k \in {"line", "hdr", "byte", "size", "last"} : t(k) \in Token /\ t(k).k = k
  BY DEF Tok, Token, Kinds, Values
<1> HIDE DEF t
<1>2. /\ t("line") \in Token /\ t("hdr") \in Token /\ t("byte") \in Token
      /\ t("size") \in Token /\ t("last") \in Token
      /\ t("hdr").k = "hdr" /\ t("byte").k = "byte" /\ t("size").k = "size" /\ t("last").k = "last"
  BY <1>1
<1>b. \/ body = <<t("byte"), t("byte")>>
      \/ body = <<t("size"), t("byte"), t("last")>>
      \/ body = <<>>
  BY DEF BodyTokensFor, t
<1>3. body \in Tokens /\ \A j \in 1..Len(body) : body[j].k # "line"
  <2>1. CASE body = <<t("byte"), t("byte")>>
    BY <1>2, <2>1, TokensDef
  <2>2. CASE body = <<t("size"), t("byte"), t("last")>>
    BY <1>2, <2>2, TokensDef
  <2>3. CASE body = <<>>
    BY <2>3, TokensDef
  <2> QED BY <1>b, <2>1, <2>2, <2>3
<1>4. RequestTokens(r, b) = <<t("line"), t("hdr")>> \o body
  BY DEF RequestTokens, BodyTokensFor, t
<1>5. AfterLine(r, b) = <<t("hdr")>> \o body
  BY DEF AfterLine, t
<1> HIDE DEF body
<1>6. /\ AfterLine(r, b) \in Tokens /\ Len(AfterLine(r, b)) = 1 + Len(body)
      /\ AfterLine(r, b)[1] = t("hdr")
      /\ SubSeq(AfterLine(r, b), 2, Len(AfterLine(r, b))) = body
      /\ \A j \in 1..Len(body) : AfterLine(r, b)[1 + j] = body[j]
  BY <1>2, <1>3, <1>5, ConsCut
<1>7. RequestTokens(r, b) = <<t("line")>> \o AfterLine(r, b)
  <2>1. <<t("line")>> \in Seq(Token) /\ <<t("hdr")>> \in Seq(Token) /\ body \in Seq(Token)
    BY <1>2, <1>3, TokensDef
  <2>2. <<t("line"), t("hdr")>> = <<t("line")>> \o <<t("hdr")>>
    OBVIOUS
  <2>3. (<<t("line")>> \o <<t("hdr")>>) \o body = <<t("line")>> \o (<<t("hdr")>> \o body)
    BY <2>1, ConcatAssociative
  <2> QED BY <1>4, <1>5, <2>2, <2>3
<1> DEFINE q == RequestTokens(r, b)
           a == AfterLine(r, b)
<1> HIDE DEF q, a
<1>8. /\ q \in Tokens /\ Len(q) = 1 + Len(a) /\ q[1] = t("line") /\ SubSeq(q, 2, Len(q)) = a
      /\ \A j \in 1..Len(a) : q[1 + j] = a[j]
  BY <1>2, <1>6, <1>7, ConsCut DEF q, a
<1>9. Len(body) \in Nat /\ Len(a) = 1 + Len(body) /\ q # <<>>
  BY <1>3, <1>6, <1>8, TokensDef, LenProperties DEF a
<1>10. ASSUME NEW j \in 2..Len(q) PROVE q[j].k # "line"
  <2>1. j - 1 \in 1..Len(a) /\ 1 + (j - 1) = j /\ Len(a) \in Nat
    BY <1>8, <1>9
  <2>2. q[j] = a[j - 1]
    BY <1>8, <2>1
  <2>3. CASE j = 2
    BY <1>2, <1>6, <2>2, <2>3 DEF a
  <2>4. CASE j # 2
    <3>1. j - 2 \in 1..Len(body) /\ 1 + (j - 2) = j - 1
      BY <1>9, <2>1, <2>4
    <3>2. a[j - 1] = body[j - 2]
      BY <1>6, <3>1 DEF a
    <3> QED BY <1>3, <2>2, <3>1, <3>2
  <2> QED BY <2>3, <2>4
<1>11. Len(q) >= 2 /\ Len(a) >= 1
  BY <1>8, <1>9
<1> QED BY <1>3, <1>6, <1>8, <1>9, <1>10, <1>11 DEF t, body, q, a

-----------------------------------------------------------------------------
(* What the browser does to the stream.                                    *)

LEMMA OrderMore ==
  ASSUME NEW q \in Seq(Request), NEW x \in Request, NEW S \in Seq(Piece(Len(q))),
         InOrder(S, q, TRUE)
  PROVE  InOrder(S \o RequestTokens(Len(q) + 1, x.b), Append(q, x), TRUE)
<1> DEFINE n == Len(q)
           u == RequestTokens(n + 1, x.b)
           W == S \o u
           p == Append(q, x)
<1>1. n \in Nat /\ S \in Tokens /\ \A i \in 1..Len(S) : S[i].r \in 1..n
  <2>1. n \in Nat
    BY LenProperties
  <2>2. \A i \in 1..Len(S) : S[i] \in Piece(n)
    BY ElementOfSeq
  <2> QED BY <2>1, <2>2, PiecesAreTokens DEF Piece
<1>2. /\ u \in Tokens /\ u # <<>> /\ u[1] = Tok("line", n + 1, "-")
      /\ \A j \in 2..Len(u) : u[j].k # "line"
  BY <1>1, RequestShape
<1> HIDE DEF n, u
<1>3. /\ Len(S) \in Nat /\ Len(u) \in Nat /\ Len(W) = Len(S) + Len(u)
      /\ \A i \in 1..Len(S) + Len(u) : W[i] = IF i <= Len(S) THEN S[i] ELSE u[i - Len(S)]
  BY <1>1, <1>2, TokensDef, ConcatProperties, LenProperties
<1>4. /\ Len(p) = n + 1 /\ p[n + 1] = x /\ \A r \in 1..n : p[r] = q[r]
  BY <1>1, AppendProperties DEF n
<1> HIDE DEF W, p
<1>5. ASSUME NEW i \in 1..Len(W), W[i].k = "line"
      PROVE  Stands(W, i, RequestTokens(W[i].r, p[W[i].r].b), W[i].r, Len(p), TRUE)
  <2>1. CASE i <= Len(S)
    <3>1. i \in 1..Len(S) /\ W[i] = S[i] /\ i <= Len(S) + 1 /\ i \in Nat \ {0}
      BY <1>3, <2>1
    <3> DEFINE r == S[i].r
               t == RequestTokens(r, q[r].b)
    <3>2. r \in 1..n /\ p[r] = q[r]
      BY <1>1, <1>4, <3>1
    <3>3. Stands(S, i, t, r, n, TRUE)
      BY <1>5, <3>1 DEF InOrder, n
    <3>4. t \in Tokens /\ r \in 0..n
      BY <1>1, <3>2, RequestShape
    <3> HIDE DEF t, r
    <3>5. Stands(S \o u, i, t, r, n + 1, TRUE)
      BY <1>1, <1>2, <3>1, <3>3, <3>4, StandsMore
    <3> QED BY <1>4, <3>1, <3>2, <3>5 DEF W, t, r
  <2>2. CASE i > Len(S)
    <3>1. i - Len(S) \in 1..Len(u) /\ W[i] = u[i - Len(S)]
      BY <1>3, <2>2
    <3>2. i = Len(S) + 1
      <4>1. i - Len(S) \notin 2..Len(u)
        BY <1>2, <1>5, <3>1
      <4> QED BY <1>3, <3>1, <4>1
    <3>3. W[i] = Tok("line", n + 1, "-") /\ W[i].r = n + 1
      <4>1. W[i] = u[1]
        BY <1>3, <3>1, <3>2
      <4> QED BY <1>2, <4>1 DEF Tok
    <3>4. RequestTokens(W[i].r, p[W[i].r].b) = u
      BY <1>4, <3>3 DEF u
    <3>5. ASSUME NEW j \in 1..Len(u) PROVE W[i + j - 1] = u[j]
      <4>1. i + j - 1 \in 1..Len(S) + Len(u) /\ ~(i + j - 1 <= Len(S)) /\ i + j - 1 - Len(S) = j
        BY <1>3, <3>2
      <4> QED BY <1>3, <4>1
    <3>6. ~(i + Len(u) <= Len(W)) /\ Len(W) = i + Len(u) - 1 /\ ~(n + 1 < n + 1)
      BY <1>1, <1>3, <3>2
    <3>7. Stands(W, i, u, n + 1, n + 1, TRUE)
      BY <3>5, <3>6 DEF Stands
    <3> QED BY <1>4, <3>3, <3>4, <3>7
  <2>3. i <= Len(S) \/ i > Len(S)
    BY <1>3
  <2> QED BY <2>1, <2>2, <2>3
<1> QED BY <1>5 DEF InOrder, W, p, u, n

LEMMA OrderClosed ==
  ASSUME NEW q \in Seq(Request), NEW S \in Seq(Piece(Len(q))), NEW w \in Tokens, NEW open,
         InOrder(S \o w, q, open)
  PROVE  InOrder(S, q, FALSE)
<1> SUFFICES ASSUME NEW i \in 1..Len(S), S[i].k = "line"
             PROVE  Stands(S, i, RequestTokens(S[i].r, q[S[i].r].b), S[i].r, Len(q), FALSE)
  BY DEF InOrder
<1>1. S \in Tokens /\ S[i].r \in Nat
  <2>1. S[i] \in Piece(Len(q)) /\ Len(q) \in Nat
    BY ElementOfSeq, LenProperties
  <2> QED BY <2>1, PiecesAreTokens DEF Piece
<1>2. i \in 1..Len(S \o w) /\ (S \o w)[i] = S[i] /\ i \in Nat \ {0}
  BY <1>1, TokensDef, ConcatProperties, LenProperties
<1>3. RequestTokens(S[i].r, q[S[i].r].b) \in Tokens
  BY <1>1, RequestShape
<1>4. Stands(S \o w, i, RequestTokens(S[i].r, q[S[i].r].b), S[i].r, Len(q), open)
  BY <1>2 DEF InOrder
<1> QED BY <1>1, <1>2, <1>3, <1>4, StandsClosed

LEMMA CutJoin ==
  ASSUME NEW s \in Tokens, NEW t \in Tokens, NEW k \in 0..Len(s)
  PROVE  /\ SubSeq(s \o t, k + 1, Len(s \o t)) = SubSeq(s, k + 1, Len(s)) \o t
         /\ k <= Len(s \o t) /\ \A j \in 1..Len(s) : (s \o t)[j] = s[j]
<1> DEFINE W == s \o t
           d == SubSeq(s, k + 1, Len(s))
<1>1. /\ Len(s) \in Nat /\ Len(t) \in Nat /\ W \in Tokens /\ Len(W) = Len(s) + Len(t)
      /\ \A i \in 1..Len(s) + Len(t) : W[i] = IF i <= Len(s) THEN s[i] ELSE t[i - Len(s)]
  BY TokensDef, ConcatProperties, LenProperties
<1> HIDE DEF W
<1>2. k \in 0..Len(W)
  BY <1>1
<1>3. d \in Tokens /\ Len(d) = Len(s) - k /\ \A j \in 1..Len(d) : d[j] = s[k + j]
  BY Dropped
<1> DEFINE E == SubSeq(W, k + 1, Len(W))
<1>4. E \in Tokens /\ Len(E) = Len(W) - k /\ \A j \in 1..Len(E) : E[j] = W[k + j]
  BY <1>1, <1>2, Dropped
<1> HIDE DEF E, d
<1>5. /\ d \o t \in Tokens /\ Len(d \o t) = Len(d) + Len(t)
      /\ \A i \in 1..Len(d) + Len(t) : (d \o t)[i] = IF i <= Len(d) THEN d[i] ELSE t[i - Len(d)]
  BY <1>3, TokensDef, ConcatProperties
<1>6. Len(E) = Len(d \o t)
  BY <1>1, <1>3, <1>4, <1>5
<1>7. ASSUME NEW j \in 1..Len(E) PROVE E[j] = (d \o t)[j]
  <2>1. E[j] = W[k + j] /\ k + j \in 1..Len(s) + Len(t) /\ j \in 1..Len(d) + Len(t)
    BY <1>1, <1>3, <1>4
  <2>2. CASE j <= Len(d)
    BY <1>1, <1>3, <1>5, <2>1, <2>2
  <2>3. CASE j > Len(d)
    <3>1. ~(k + j <= Len(s)) /\ ~(j <= Len(d)) /\ k + j - Len(s) = j - Len(d)
      BY <1>1, <1>3, <2>3
    <3> QED BY <1>1, <1>5, <2>1, <3>1
  <2>4. j <= Len(d) \/ j > Len(d)
    BY <1>1, <1>3
  <2> QED BY <2>2, <2>3, <2>4
<1>8. E = d \o t
  BY <1>4, <1>5, <1>6, <1>7, TokensDef, SeqEqual
<1>9. k <= Len(W) /\ \A j \in 1..Len(s) : W[j] = s[j]
  BY <1>1, <1>2
<1> QED BY <1>8, <1>9 DEF E, d, W

LEMMA MovedOn ==
  ASSUME NEW n \in Tokens, NEW q \in Tokens, q # <<>>
  PROVE  Append(n, Head(q)) \o Tail(q) = n \o q
<1> DEFINE h == Head(q)
           t == Tail(q)
<1>1. h \in Token /\ t \in Tokens
  BY TokensDef, HeadTailProperties
<1>2. q = <<h>> \o t
  BY TokensDef, HeadTailProperties, ConcatSimplifications
<1>3. Append(n, h) = n \o <<h>>
  BY <1>1, TokensDef, AppendIsConcat
<1>4. <<h>> \in Tokens
  BY <1>1, TokensDef
<1> HIDE DEF h, t
<1> DEFINE x == <<h>>
<1>x. x \in Tokens
  BY <1>4
<1> HIDE DEF x
<1>5. (n \o x) \o t = n \o (x \o t)
  <2>1. n \in Tokens /\ x \in Tokens /\ t \in Tokens
    BY <1>1, <1>x
  <2> QED BY <2>1, JoinJoin
<1> QED BY <1>2, <1>3, <1>5 DEF h, t, x

-----------------------------------------------------------------------------
(* The request in hand, and those behind it.                               *)

\* What _ProcessOut has still to take of the request in hand.
Rest(t) ==
  /\ outStep \in {"START", "FIRSTLINE", "FINISH"} => t = <<>>
  /\ outStep = "HEADERS" => t = AfterLine(out.req, reqs[out.req].b)
  /\ outStep = "DECODE" => t = BodyTokensFor(out.req, reqs[out.req].b)
  /\ outStep = "CHUNK" =>
       /\ out.chunked
       /\ t \in {<<Tok("size", out.req, "-"), Tok("byte", out.req, "-"), Tok("last", out.req, "-")>>,
                 <<Tok("last", out.req, "-")>>}
  /\ outStep = "RAW" =>
       \/ out.chunked /\ out.size = 1 /\ t = <<Tok("byte", out.req, "-"), Tok("last", out.req, "-")>>
       \/ ~out.chunked /\ out.size = 2 /\ t = <<Tok("byte", out.req, "-"), Tok("byte", out.req, "-")>>
       \/ ~out.chunked /\ out.size = 1 /\ t = <<Tok("byte", out.req, "-")>>

\* What is on its way begins with that, and the rest is whole requests.
UpInv ==
  Guarded => /\ InOrder(Up, reqs, browser.open)
             /\ \E t \in Tokens : Rest(t) /\ Stands(Up, 1, t, out.req, Len(reqs), browser.open)

\* Only a POST has a body; and how much of it there is, _ProcessOut knows before
\* it sends the head.
AsksInv ==
  Guarded =>
    /\ \A r \in DOMAIN reqs : reqs[r].h \in Hosts /\ (reqs[r].b # "none" => reqs[r].m = "POST")
    /\ pc \in Connecting /\ outStep = "DECODE" =>
         /\ out.chunked = (reqs[out.req].b = "chunk")
         /\ out.size = IF reqs[out.req].b = "len" THEN 2 ELSE 0

LEMMA UpOK ==
  ASSUME DataInv
  PROVE  /\ recvOutBuf \in Tokens /\ browser.net \in Tokens /\ browser.queue \in Tokens
         /\ browser.net \o browser.queue \in Tokens
         /\ Up \in Seq(Piece(Len(reqs))) /\ Up \in Tokens
         /\ Len(reqs) \in Nat /\ reqs \in Seq(Request) /\ browser \in BrowserEnd(Len(reqs))
         /\ out.req \in 0..Len(reqs) /\ out \in Out(Len(reqs))
         /\ outStep \notin {"START", "FIRSTLINE"} => out.req \in DOMAIN reqs
         /\ \A r \in DOMAIN reqs : r \in 1..Len(reqs) /\ reqs[r] \in Request
<1>1. /\ reqs \in Seq(Request) /\ browser \in BrowserEnd(Len(reqs))
      /\ recvOutBuf \in Seq(Piece(Len(reqs))) /\ out \in Out(Len(reqs)) /\ Len(reqs) \in Nat
  BY LenProperties DEF DataInv, RequestInv
<1>2. browser.net \in Seq(Piece(Len(reqs))) /\ browser.queue \in Seq(Piece(Len(reqs)))
      /\ out.req \in 0..Len(reqs)
  BY <1>1 DEF BrowserEnd, Out
<1>3. browser.net \o browser.queue \in Seq(Piece(Len(reqs)))
  BY <1>2, ConcatProperties
<1>4. Up \in Seq(Piece(Len(reqs)))
  BY <1>1, <1>3, ConcatProperties DEF Up
<1>5. /\ recvOutBuf \in Tokens /\ browser.net \in Tokens /\ browser.queue \in Tokens
      /\ browser.net \o browser.queue \in Tokens /\ Up \in Tokens
  BY <1>1, <1>2, <1>3, <1>4, PiecesAreTokens
<1>6. DOMAIN reqs = 1..Len(reqs) /\ \A r \in 1..Len(reqs) : reqs[r] \in Request
  BY <1>1, LenProperties, ElementOfSeq
<1>7. outStep \notin {"START", "FIRSTLINE"} => out.req \in DOMAIN reqs
  BY <1>1, <1>2, <1>6 DEF DataInv, FirstInv
<1> QED BY <1>1, <1>2, <1>4, <1>5, <1>6, <1>7

LEMMA AsksOfUp ==
  ASSUME DataInv
  PROVE  \A i \in 1..Len(Up) :
           /\ Up[i].r \in DOMAIN reqs
           /\ RequestTokens(Up[i].r, reqs[Up[i].r].b) \in Tokens
<1> TAKE i \in 1..Len(Up)
<1>1. Up[i] \in Piece(Len(reqs)) /\ DOMAIN reqs = 1..Len(reqs) /\ Len(reqs) \in Nat
  BY UpOK, ElementOfSeq, LenProperties
<1>2. Up[i].r \in 1..Len(reqs) /\ Up[i].r \in Nat
  BY <1>1 DEF Piece
<1> QED BY <1>1, <1>2, RequestShape

\* _ProcessOut takes n tokens: they are what is left of the request, so far.
LEMMA UpCut ==
  ASSUME DataInv, Guarded, UpInv, NEW n \in 0..Len(recvOutBuf),
         recvOutBuf' = SubSeq(recvOutBuf, n + 1, Len(recvOutBuf)), UNCHANGED <<browser, reqs>>,
         NEW r \in Nat, NEW t \in Tokens, n <= Len(t),
         Stands(Up, 1, t, r, Len(reqs), browser.open)
  PROVE  /\ InOrder(Up', reqs', browser'.open)
         /\ Stands(Up', 1, SubSeq(t, n + 1, Len(t)), r, Len(reqs'), browser'.open)
         /\ \A j \in 1..n : recvOutBuf[j] = t[j]
         /\ SubSeq(t, n + 1, Len(t)) \in Tokens
<1>1. /\ recvOutBuf \in Tokens /\ browser.net \o browser.queue \in Tokens /\ Up \in Tokens
      /\ Len(reqs) \in Nat
  BY UpOK
<1>2. /\ Up' = SubSeq(Up, n + 1, Len(Up)) /\ n <= Len(Up)
      /\ \A j \in 1..Len(recvOutBuf) : Up[j] = recvOutBuf[j]
  BY <1>1, CutJoin DEF Up
<1>3. Len(Up) \in Nat /\ Len(t) \in Nat /\ Len(recvOutBuf) \in Nat
  BY <1>1, TokensDef, LenProperties
<1>4. n \in 0..Len(Up) /\ n \in 0..Len(t)
  BY <1>2, <1>3
<1>5. InOrder(Up, reqs, browser.open)
  BY DEF UpInv
<1>6. InOrder(Up', reqs', browser'.open)
  BY <1>1, <1>2, <1>4, <1>5, AsksOfUp, OrderCut
<1>7. /\ Stands(Up', 1, SubSeq(t, n + 1, Len(t)), r, Len(reqs'), browser'.open)
      /\ \A j \in 1..n : Up[j] = t[j]
  BY <1>1, <1>2, <1>4, StandsCut
<1>8. \A j \in 1..n : recvOutBuf[j] = t[j]
  <2>1. \A j \in 1..n : j \in 1..Len(recvOutBuf)
    BY <1>3
  <2> QED BY <1>2, <1>7, <2>1
<1>9. SubSeq(t, n + 1, Len(t)) \in Tokens
  BY <1>4, Dropped
<1> QED BY <1>6, <1>7, <1>8, <1>9

LEMMA UpKept ==
  ASSUME UpInv, Guarded, Up' = Up, UNCHANGED <<reqs, browser.open, out>>,
         outStep' = outStep \/ {outStep, outStep'} \subseteq {"START", "FIRSTLINE", "FINISH"}
  PROVE  UpInv'
<1>1. PICK t \in Tokens : Rest(t) /\ Stands(Up, 1, t, out.req, Len(reqs), browser.open)
  BY DEF UpInv
<1>2. Rest(t)'
  BY <1>1 DEF Rest
<1>3. InOrder(Up, reqs, browser.open)
  BY DEF UpInv
<1>4. Stands(Up', 1, t, out'.req, Len(reqs'), browser'.open) /\ InOrder(Up', reqs', browser'.open)
  BY <1>1, <1>3
<1> QED BY <1>2, <1>4 DEF UpInv

LEMMA UpParts ==
  ASSUME DataInv
  PROVE  /\ (recvOutBuf \o browser.net) \o browser.queue
             = recvOutBuf \o (browser.net \o browser.queue)
         /\ recvOutBuf \o browser.net \in Tokens
<1> DEFINE s == recvOutBuf
           t == browser.net
           u == browser.queue
<1>1. s \in Tokens /\ t \in Tokens /\ u \in Tokens
  BY UpOK
<1> HIDE DEF s, t, u
<1>2. (s \o t) \o u = s \o (t \o u) /\ s \o t \in Tokens
  BY <1>1, JoinJoin
<1> QED BY <1>2 DEF s, t, u

LEMMA UpReceive == ASSUME DataInv, ReceiveOut PROVE Up' = Up /\ browser'.open = browser.open
<1>1. CASE brConn
  <2>1. /\ recvOutBuf' = recvOutBuf \o browser.net /\ browser'.net = <<>>
        /\ browser'.queue = browser.queue /\ browser'.open = browser.open
    BY <1>1, UpOK DEF ReceiveOut, BrowserEnd
  <2>2. Up' = (recvOutBuf \o browser.net) \o browser.queue
    BY <2>1, UpOK, JoinEmpty DEF Up
  <2>3. (recvOutBuf \o browser.net) \o browser.queue = recvOutBuf \o (browser.net \o browser.queue)
    BY UpParts
  <2> QED BY <2>1, <2>2, <2>3 DEF Up
<1>2. CASE ~brConn
  BY <1>2 DEF ReceiveOut, Up
<1> QED BY <1>1, <1>2

LEMMA UpEnvironment ==
  ASSUME DataInv, DataInv', SaidInv, UpInv, Guarded, Guarded', Environment
  PROVE  UpInv'
<1>1. UNCHANGED <<recvOutBuf, outStep, out, brConn>>
  BY EnvironmentLeavesThread DEF threadVars, outBufs, stepVars, dataVars
<1>2. CASE BrowserRequest
  <2>1. PICK m \in Methods, h \in Hosts, b \in Bodies \cup {"none"} :
          /\ reqs' = Append(reqs, [m |-> m, h |-> h, b |-> b])
          /\ browser' = [browser EXCEPT !.queue = RequestTokens(Len(reqs) + 1, b)]
    BY <1>2 DEF BrowserRequest
  <2>2. browser.open /\ browser.queue = <<>>
    BY <1>2 DEF BrowserRequest
  <2> DEFINE x == [m |-> m, h |-> h, b |-> b]
             n == Len(reqs)
             u == RequestTokens(n + 1, b)
  <2>3. x \in Request /\ x.b = b
    <3>1. Hosts \subseteq HostNames
      BY SettingOK DEF DataInv, PeerInv
    <3> QED BY <3>1 DEF Request
  <2>4. n \in Nat /\ u \in Tokens /\ u # <<>> /\ u[1] = Tok("line", n + 1, "-")
    BY UpOK, RequestShape
  <2>5. Up = recvOutBuf \o browser.net
    BY <2>2, UpOK, JoinEmpty DEF Up
  <2>6. browser'.net = browser.net /\ browser'.queue = u /\ browser'.open
    BY <2>1, <2>2, UpOK DEF BrowserEnd
  <2> HIDE DEF u
  <2>7. Up' = Up \o u
    <3> DEFINE s == recvOutBuf
               t == browser.net
    <3>1. s \in Tokens /\ t \in Tokens /\ u \in Tokens
      BY <2>4, UpOK
    <3>2. Up' = s \o (t \o u) /\ Up = s \o t
      BY <1>1, <2>5, <2>6 DEF Up
    <3> HIDE DEF s, t
    <3>3. (s \o t) \o u = s \o (t \o u)
      BY <3>1, JoinJoin
    <3> QED BY <3>2, <3>3
  <2>8. PICK t \in Tokens : Rest(t) /\ Stands(Up, 1, t, out.req, n, browser.open)
    BY DEF UpInv
  <2>9. InOrder(Up, reqs, TRUE) /\ Stands(Up, 1, t, out.req, n, TRUE)
    BY <2>2, <2>8 DEF UpInv
  <2>10. reqs' = Append(reqs, x)
    BY <2>1
  <2> HIDE DEF x
  <2>11. InOrder(Up \o u, Append(reqs, x), TRUE)
    <3>1. InOrder(Up \o RequestTokens(Len(reqs) + 1, x.b), Append(reqs, x), TRUE)
      BY <2>3, <2>9, UpOK, OrderMore
    <3> QED BY <2>3, <3>1 DEF u
  <2>12. Stands(Up \o u, 1, t, out.req, n + 1, TRUE)
    <3>1. 1 <= Len(Up) + 1 /\ out.req \in 0..n /\ 1 \in Nat \ {0}
      BY UpOK, TokensDef, LenProperties
    <3> QED BY <2>4, <2>9, <3>1, UpOK, StandsMore
  <2>13. Len(reqs') = n + 1 /\ \A r \in DOMAIN reqs : reqs'[r] = reqs[r]
    BY <2>3, <2>10, UpOK, AppendProperties
  <2>14. Rest(t)'
    <3>1. outStep \in {"HEADERS", "DECODE"} => reqs'[out.req] = reqs[out.req]
      BY <2>13, UpOK
    <3> QED BY <1>1, <2>8, <3>1 DEF Rest
  <2>15. browser'.open = TRUE
    BY <2>2, <2>1, UpOK DEF BrowserEnd
  <2>16. /\ InOrder(Up', reqs', browser'.open)
         /\ Stands(Up', 1, t, out'.req, Len(reqs'), browser'.open)
    BY <1>1, <2>7, <2>10, <2>11, <2>12, <2>13, <2>15
  <2> QED BY <2>14, <2>16 DEF UpInv
<1>3. CASE BrowserTunnel
  BY <1>3, NotUpgraded DEF BrowserTunnel, SaidInv, Guarded
<1>4. CASE BrowserSend
  <2>1. /\ browser.queue # <<>> /\ reqs' = reqs /\ browser'.open = browser.open
        /\ browser'.queue = Tail(browser.queue)
        /\ browser'.net = Append(browser.net, Head(browser.queue))
    BY <1>4, UpOK DEF BrowserSend, BrowserEnd, envVars
  <2>2. browser'.net \o browser'.queue = browser.net \o browser.queue
    BY <2>1, UpOK, MovedOn
  <2>3. Up' = Up
    BY <1>1, <2>2 DEF Up
  <2> QED BY <1>1, <2>1, <2>3, UpKept
<1>5. CASE BrowserClose
  <2>1. /\ reqs' = reqs /\ browser'.open = FALSE /\ browser'.queue = <<>>
        /\ browser'.net = browser.net
    BY <1>5, UpOK DEF BrowserClose, BrowserEnd, envVars
  <2> DEFINE S == recvOutBuf \o browser.net
  <2>2. Up' = S /\ Up = S \o browser.queue /\ S \in Tokens
    <3>1. S \o browser.queue = Up /\ S \in Tokens
      BY UpParts DEF Up
    <3>2. browser'.net \o browser'.queue = browser.net
      BY <2>1, UpOK, JoinEmpty
    <3> QED BY <1>1, <3>1, <3>2 DEF Up
  <2>3. S \in Seq(Piece(Len(reqs)))
    <3>1. browser.net \in Seq(Piece(Len(reqs))) /\ recvOutBuf \in Seq(Piece(Len(reqs)))
      BY UpOK DEF BrowserEnd, DataInv, RequestInv
    <3> QED BY <3>1, ConcatProperties
  <2> HIDE DEF S
  <2>4. PICK t \in Tokens : Rest(t) /\ Stands(Up, 1, t, out.req, Len(reqs), browser.open)
    BY DEF UpInv
  <2>5. InOrder(S, reqs, FALSE)
    <3>1. InOrder(S \o browser.queue, reqs, browser.open)
      BY <2>2 DEF UpInv
    <3> QED BY <2>3, <3>1, UpOK, OrderClosed
  <2>6. Stands(S, 1, t, out.req, Len(reqs), FALSE)
    <3>1. Stands(S \o browser.queue, 1, t, out.req, Len(reqs), browser.open)
      BY <2>2, <2>4
    <3>2. browser.queue \in Tokens /\ 1 \in Nat \ {0}
      BY UpOK
    <3> QED BY <2>2, <3>1, <3>2, StandsClosed
  <2>7. Rest(t)'
    BY <1>1, <2>1, <2>4 DEF Rest
  <2>8. InOrder(Up', reqs', browser'.open) /\ Stands(Up', 1, t, out'.req, Len(reqs'), browser'.open)
    BY <1>1, <2>1, <2>2, <2>5, <2>6
  <2> QED BY <2>7, <2>8 DEF UpInv
<1>6. CASE \/ WebsiteAnswer \/ WebsiteTunnel \/ WebsiteInterim \/ WebsiteStray \/ WebsiteSend \/ WebsiteClose
           \/ Stall \/ IdleExpire \/ SwitchToInvalid
  <2>1. UNCHANGED <<browser, reqs>>
    BY <1>6 DEF WebsiteAnswer, WebsiteTunnel, WebsiteInterim, WebsiteStray, WebsiteSend, WebsiteClose, Stall,
       IdleExpire, SwitchToInvalid, envVars
  <2>2. Up' = Up
    BY <1>1, <2>1 DEF Up
  <2> QED BY <1>1, <2>1, <2>2, UpKept
<1> QED BY <1>2, <1>3, <1>4, <1>5, <1>6 DEF Environment

LEMMA Pair ==
  ASSUME NEW a \in Token, NEW b \in Token
  PROVE  <<a>> \o <<b>> = <<a, b>>
<1>1. <<a>> \in Tokens /\ <<b>> \in Tokens /\ <<a, b>> \in Tokens
  BY TokensDef
<1>2. Len(<<a>>) = 1 /\ <<a>>[1] = a /\ Len(<<b>>) = 1 /\ <<b>>[1] = b
      /\ Len(<<a, b>>) = 2 /\ <<a, b>>[1] = a /\ <<a, b>>[2] = b
  OBVIOUS
<1> DEFINE x == <<a>>
           y == <<b>>
           w == <<a, b>>
<1>3. /\ x \in Seq(Token) /\ y \in Seq(Token) /\ w \in Seq(Token)
      /\ Len(x) = 1 /\ x[1] = a /\ Len(y) = 1 /\ y[1] = b /\ Len(w) = 2 /\ w[1] = a /\ w[2] = b
  BY <1>1, <1>2, TokensDef
<1> HIDE DEF x, y, w
<1>4. /\ x \o y \in Seq(Token) /\ Len(x \o y) = 2
      /\ \A i \in 1..2 : (x \o y)[i] = IF i <= 1 THEN x[i] ELSE y[i - 1]
  BY <1>3, ConcatProperties
<1>5. \A i \in 1..Len(x \o y) : (x \o y)[i] = w[i]
  <2> TAKE i \in 1..Len(x \o y)
  <2>1. CASE i = 1
    BY <1>3, <1>4, <2>1
  <2>2. CASE i = 2
    BY <1>3, <1>4, <2>2
  <2> QED BY <1>4, <2>1, <2>2
<1>6. x \o y = w
  BY <1>3, <1>4, <1>5, SeqEqual
<1> QED BY <1>6 DEF x, y, w

LEMMA Triple ==
  ASSUME NEW a \in Token, NEW b \in Token, NEW c \in Token
  PROVE  <<a>> \o <<b, c>> = <<a, b, c>>
<1>1. <<a>> \in Tokens /\ <<b, c>> \in Tokens /\ <<a, b, c>> \in Tokens
  BY TokensDef
<1>2. Len(<<a>>) = 1 /\ <<a>>[1] = a /\ Len(<<b, c>>) = 2 /\ <<b, c>>[1] = b /\ <<b, c>>[2] = c
      /\ Len(<<a, b, c>>) = 3 /\ <<a, b, c>>[1] = a /\ <<a, b, c>>[2] = b /\ <<a, b, c>>[3] = c
  OBVIOUS
<1> DEFINE x == <<a>>
           y == <<b, c>>
           w == <<a, b, c>>
<1>3. /\ x \in Seq(Token) /\ y \in Seq(Token) /\ w \in Seq(Token)
      /\ Len(x) = 1 /\ x[1] = a /\ Len(y) = 2 /\ y[1] = b /\ y[2] = c
      /\ Len(w) = 3 /\ w[1] = a /\ w[2] = b /\ w[3] = c
  BY <1>1, <1>2, TokensDef
<1> HIDE DEF x, y, w
<1>4. /\ x \o y \in Seq(Token) /\ Len(x \o y) = 3
      /\ \A i \in 1..3 : (x \o y)[i] = IF i <= 1 THEN x[i] ELSE y[i - 1]
  <2>1. /\ x \o y \in Seq(Token) /\ Len(x \o y) = Len(x) + Len(y)
        /\ \A i \in 1..Len(x) + Len(y) : (x \o y)[i] = IF i <= Len(x) THEN x[i] ELSE y[i - Len(x)]
    BY <1>3, ConcatProperties
  <2>2. Len(x) + Len(y) = 3
    BY <1>3
  <2> QED BY <1>3, <2>1, <2>2
<1>5. \A i \in 1..Len(x \o y) : (x \o y)[i] = w[i]
  <2> TAKE i \in 1..Len(x \o y)
  <2>1. CASE i = 1
    BY <1>3, <1>4, <2>1
  <2>2. CASE i = 2
    BY <1>3, <1>4, <2>2
  <2>3. CASE i = 3
    BY <1>3, <1>4, <2>3
  <2> QED BY <1>4, <2>1, <2>2, <2>3
<1>6. x \o y = w
  BY <1>3, <1>4, <1>5, SeqEqual
<1> QED BY <1>6 DEF x, y, w

LEMMA CutOne ==
  ASSUME NEW a \in Token
  PROVE  Len(<<a>>) = 1 /\ <<a>>[1] = a /\ SubSeq(<<a>>, 2, 1) = <<>>
<1> DEFINE s == <<>>
<1>1. s \in Tokens /\ <<a>> \o s = <<a>>
  <2>1. <<a>> \in Tokens
    BY TokensDef
  <2> QED BY <2>1, JoinEmpty
<1> HIDE DEF s
<1>2. SubSeq(<<a>>, 2, Len(<<a>>)) = s
  BY <1>1, ConsCut
<1>3. Len(<<a>>) = 1 /\ <<a>>[1] = a
  OBVIOUS
<1> QED BY <1>2, <1>3 DEF s

LEMMA CutTwo ==
  ASSUME NEW a \in Token, NEW b \in Token
  PROVE  /\ Len(<<a, b>>) = 2 /\ SubSeq(<<a, b>>, 2, 2) = <<b>>
         /\ SubSeq(<<a, b>>, 3, 2) = <<>>
<1> DEFINE s == <<b>>
           w == <<a, b>>
<1>1. s \in Tokens /\ w \in Tokens /\ <<a>> \o s = w /\ Len(w) = 2
  BY TokensDef, Pair
<1> HIDE DEF s, w
<1>2. SubSeq(w, 2, Len(w)) = s
  BY <1>1, ConsCut
<1>3. PICK k : k = 2
  OBVIOUS
<1> DEFINE D == SubSeq(w, k + 1, Len(w))
<1>4. D \in Tokens /\ Len(D) = Len(w) - k
  <2>1. k \in 0..Len(w)
    BY <1>1, <1>3
  <2> QED BY <1>1, <2>1, Dropped
<1> HIDE DEF D
<1>5. D = <<>>
  BY <1>1, <1>3, <1>4, TokensDef, EmptySeq
<1>6. k + 1 = 3
  BY <1>3
<1> QED BY <1>1, <1>2, <1>5, <1>6 DEF D, s, w

LEMMA CutThree ==
  ASSUME NEW a \in Token, NEW b \in Token, NEW c \in Token
  PROVE  Len(<<a, b, c>>) = 3 /\ <<a, b, c>>[1] = a /\ SubSeq(<<a, b, c>>, 2, 3) = <<b, c>>
<1> DEFINE s == <<b, c>>
           w == <<a, b, c>>
<1>1. s \in Tokens /\ <<a>> \o s = w /\ Len(w) = 3 /\ w[1] = a
  BY TokensDef, Triple
<1> HIDE DEF s, w
<1>2. SubSeq(w, 2, Len(w)) = s
  BY <1>1, ConsCut
<1> QED BY <1>1, <1>2 DEF s, w

\* The steps of _ProcessOut take the request piece by piece.
LEMMA UpTaken ==
  ASSUME DataInv, Guarded, UpInv, NEW n \in 0..Len(recvOutBuf),
         recvOutBuf' = SubSeq(recvOutBuf, n + 1, Len(recvOutBuf)), UNCHANGED <<browser, reqs>>,
         NEW t \in Tokens, n <= Len(t), out'.req \in Nat,
         Stands(Up, 1, t, out'.req, Len(reqs), browser.open),
         NEW u, u = SubSeq(t, n + 1, Len(t)), Rest(u)'
  PROVE  UpInv'
<1>1. /\ InOrder(Up', reqs', browser'.open) /\ u \in Tokens
      /\ Stands(Up', 1, u, out'.req, Len(reqs'), browser'.open)
  BY UpCut
<1> QED BY <1>1 DEF UpInv

LEMMA FirstTaken ==
  ASSUME DataInv, recvOutBuf # <<>>
  PROVE  /\ Len(recvOutBuf) \in Nat /\ 1 \in 0..Len(recvOutBuf) /\ Len(recvOutBuf) >= 1
         /\ Tail(recvOutBuf) = SubSeq(recvOutBuf, 1 + 1, Len(recvOutBuf))
         /\ Head(recvOutBuf) = recvOutBuf[1] /\ Up[1] = recvOutBuf[1] /\ 1 \in 1..Len(Up)
<1>1. /\ Len(recvOutBuf) \in Nat /\ Len(recvOutBuf) >= 1
      /\ Tail(recvOutBuf) = SubSeq(recvOutBuf, 2, Len(recvOutBuf))
  BY UpOK, Cut
<1>2. Head(recvOutBuf) = recvOutBuf[1]
  BY UpOK, TokensDef
<1>3. 1 \in 0..Len(recvOutBuf) /\ 1 + 1 = 2 /\ 1 \in 1..Len(recvOutBuf)
  BY <1>1
<1>4. Up[1] = recvOutBuf[1] /\ 1 <= Len(Up)
  BY <1>3, UpOK, CutJoin DEF Up
<1>5. Len(Up) \in Nat
  BY UpOK, TokensDef, LenProperties
<1> QED BY <1>1, <1>2, <1>3, <1>4, <1>5

LEMMA UpOut ==
  ASSUME DataInv, DataInv', AccountInv, AsksInv, UpInv, Guarded, Guarded', ProcessOut
  PROVE  UpInv'
<1>0. PICK t \in Tokens : Rest(t) /\ Stands(Up, 1, t, out.req, Len(reqs), browser.open)
  BY DEF UpInv
<1>r. /\ out.req \in Nat /\ (outStep \notin {"START", "FIRSTLINE"} => out.req \in DOMAIN reqs)
      /\ out \in Out(Len(reqs)) /\ recvOutBuf \in Tokens
  BY UpOK
<1>o. out'.req = out.req => out'.req \in Nat /\ Stands(Up, 1, t, out'.req, Len(reqs), browser.open)
  BY <1>0, <1>r
<1>p. PICK z, b, l : z = Tok("size", out.req, "-") /\ b = Tok("byte", out.req, "-")
                     /\ l = Tok("last", out.req, "-")
  OBVIOUS
<1>q. /\ z \in Token /\ b \in Token /\ l \in Token
      /\ z.k = "size" /\ l.k = "last"
  BY <1>p, <1>r DEF Tok, Token, Kinds, Values
<1>s. Len(<<z, b, l>>) = 3 /\ <<z, b, l>>[1] = z /\ SubSeq(<<z, b, l>>, 2, 3) = <<b, l>>
  BY <1>q, CutThree
<1>t. Len(<<l>>) = 1 /\ <<l>>[1] = l /\ SubSeq(<<l>>, 2, 1) = <<>>
  BY <1>q, CutOne
<1>u. Len(<<b, l>>) = 2 /\ SubSeq(<<b, l>>, 2, 2) = <<l>>
  BY <1>q, CutTwo
<1>v. Len(<<b, b>>) = 2 /\ SubSeq(<<b, b>>, 2, 2) = <<b>> /\ SubSeq(<<b, b>>, 3, 2) = <<>>
  BY <1>q, CutTwo
<1>w. Len(<<b>>) = 1 /\ SubSeq(<<b>>, 2, 1) = <<>>
  BY <1>q, CutOne
<1>1. CASE OutFirstLine
  <2>1. /\ recvOutBuf # <<>> /\ Head(recvOutBuf).k = "line" /\ recvOutBuf' = Tail(recvOutBuf)
        /\ UNCHANGED <<browser, reqs>> /\ outStep' = "HEADERS" /\ out'.req = Head(recvOutBuf).r
    BY <1>1 DEF OutFirstLine, NextIs, envVars
  <2>2. Up[1].k = "line" /\ Up[1].r = out'.req /\ 1 \in 1..Len(Up)
    BY <2>1, FirstTaken
  <2>3. PICK r \in DOMAIN reqs : r = out'.req
    BY <2>2, AsksOfUp
  <2>4. r \in Nat
    BY UpOK
  <2>5. PICK w : w = RequestTokens(r, reqs[r].b)
    OBVIOUS
  <2>6. PICK u : u = AfterLine(r, reqs[r].b)
    OBVIOUS
  <2>7. Stands(Up, 1, w, r, Len(reqs), browser.open)
    BY <2>2, <2>3, <2>5 DEF UpInv, InOrder
  <2>8. w \in Tokens /\ 1 <= Len(w) /\ SubSeq(w, 1 + 1, Len(w)) = u
    <3>1. w \in Tokens /\ Len(w) >= 2 /\ SubSeq(w, 2, Len(w)) = u
      BY <2>4, <2>5, <2>6, RequestShape
    <3>2. Len(w) \in Nat
      BY <3>1, TokensDef, LenProperties
    <3> QED BY <3>1, <3>2
  <2>9. Rest(u)'
    BY <2>1, <2>3, <2>6 DEF Rest
  <2>10. out'.req \in Nat /\ Stands(Up, 1, w, out'.req, Len(reqs), browser.open)
    BY <2>3, <2>4, <2>7
  <2>11. 1 \in 0..Len(recvOutBuf) /\ recvOutBuf' = SubSeq(recvOutBuf, 1 + 1, Len(recvOutBuf))
    BY <2>1, FirstTaken
  <2> QED BY <2>1, <2>8, <2>9, <2>10, <2>11, UpTaken
<1>2. CASE OutHeaders
  <2>1. /\ recvOutBuf # <<>> /\ recvOutBuf' = Tail(recvOutBuf)
        /\ UNCHANGED <<browser, reqs, out>> /\ outStep = "HEADERS" /\ outStep' = "DECODE"
    BY <1>2 DEF OutHeaders, NextIs, envVars, dataVars
  <2>2. t = AfterLine(out.req, reqs[out.req].b)
    BY <1>0, <2>1 DEF Rest
  <2>3. PICK u : u = BodyTokensFor(out.req, reqs[out.req].b)
    OBVIOUS
  <2>4. 1 <= Len(t) /\ SubSeq(t, 1 + 1, Len(t)) = u
    BY <1>r, <2>2, <2>3, RequestShape
  <2>5. Rest(u)'
    BY <2>1, <2>3 DEF Rest
  <2>6. 1 \in 0..Len(recvOutBuf) /\ recvOutBuf' = SubSeq(recvOutBuf, 1 + 1, Len(recvOutBuf))
    BY <2>1, FirstTaken
  <2> QED BY <1>o, <2>1, <2>4, <2>5, <2>6, UpTaken
<1>3. CASE OutDecode
  <2>1. /\ UNCHANGED <<recvOutBuf, browser, reqs, outStep>> /\ outStep = "DECODE"
        /\ out'.req = out.req
    BY <1>3, <1>r DEF OutDecode, envVars, outBufs, Out
  <2>2. Rest(t)' /\ Up' = Up
    BY <1>0, <2>1 DEF Rest, Up
  <2>3. /\ InOrder(Up', reqs', browser'.open)
        /\ Stands(Up', 1, t, out'.req, Len(reqs'), browser'.open)
    BY <1>0, <2>1, <2>2 DEF UpInv
  <2> QED BY <2>2, <2>3 DEF UpInv
<1>4. CASE OutSend
  <2>1. /\ UNCHANGED <<recvOutBuf, browser, reqs, out>> /\ outStep = "DECODE"
        /\ out.method # "CONNECT"
        /\ outStep' = IF out.method = "HEAD" THEN "FINISH"
                      ELSE IF out.chunked THEN "CHUNK" ELSE IF out.size > 0 THEN "RAW" ELSE "FINISH"
        /\ pc = "outSend"
    <3>1. pc = "outSend" => outStep = "DECODE"
      BY DEF DataInv, ConnectsInv
    <3> QED BY <1>4, <3>1 DEF OutSend, envVars, outBufs, dataVars, Guarded
  <2>2. /\ out.chunked = (reqs[out.req].b = "chunk")
        /\ out.size = IF reqs[out.req].b = "len" THEN 2 ELSE 0
        /\ reqs[out.req].b # "none" => reqs[out.req].m = "POST"
    BY <1>r, <2>1 DEF AsksInv, Connecting
  <2>c. out.chunked <=> reqs[out.req].b = "chunk"
    <3>1. out.chunked \in BOOLEAN
      BY <1>r DEF Out
    <3> QED BY <2>2, <3>1
  <2>3. out.method = reqs[out.req].m
    BY <2>1 DEF AccountInv, Over, Account
  <2>4. t = BodyTokensFor(out.req, reqs[out.req].b)
    BY <1>0, <2>1 DEF Rest
  <2>5. Rest(t)'
    <3>1. CASE reqs[out.req].b = "chunk"
      <4>1. outStep' = "CHUNK" /\ out'.chunked
        BY <2>1, <2>2, <2>c, <2>3, <3>1
      <4>2. t = <<z, b, l>>
        BY <1>p, <2>4, <3>1 DEF BodyTokensFor
      <4> QED BY <1>p, <2>1, <4>1, <4>2 DEF Rest
    <3>2. CASE reqs[out.req].b = "len"
      <4>1. outStep' = "RAW" /\ ~out'.chunked /\ out'.size = 2
        <5>1. ~out.chunked /\ out.size = 2 /\ out.method = "POST"
          BY <2>2, <2>c, <2>3, <3>2
        <5> QED BY <2>1, <5>1
      <4>2. t = <<b, b>>
        BY <1>p, <2>4, <3>2 DEF BodyTokensFor
      <4> QED BY <1>p, <2>1, <4>1, <4>2 DEF Rest
    <3>3. CASE reqs[out.req].b \notin {"chunk", "len"}
      <4>1. outStep' = "FINISH"
        <5>1. ~out.chunked /\ out.size = 0
          BY <2>2, <2>c, <3>3
        <5> QED BY <2>1, <5>1
      <4>2. t = <<>>
        BY <2>4, <3>3 DEF BodyTokensFor
      <4> QED BY <4>1, <4>2 DEF Rest
    <3> QED BY <3>1, <3>2, <3>3
  <2>6. Up' = Up
    BY <2>1 DEF Up
  <2>7. /\ InOrder(Up', reqs', browser'.open)
        /\ Stands(Up', 1, t, out'.req, Len(reqs'), browser'.open)
    BY <1>0, <2>1, <2>6 DEF UpInv
  <2> QED BY <2>5, <2>7 DEF UpInv
<1>5. CASE OutChunk
  <2>1. /\ recvOutBuf # <<>> /\ recvOutBuf' = Tail(recvOutBuf) /\ UNCHANGED <<browser, reqs>>
        /\ outStep = "CHUNK" /\ Head(recvOutBuf).k \in {"size", "last"}
        /\ out'.req = out.req /\ out'.chunked = out.chunked
        /\ Head(recvOutBuf).k = "size" => outStep' = "RAW" /\ out'.size = 1
        /\ Head(recvOutBuf).k = "last" => outStep' = "FINISH"
    BY <1>5, <1>r DEF OutChunk, NextIs, envVars, Out
  <2>2. out.chunked /\ t \in {<<z, b, l>>, <<l>>}
    BY <1>0, <1>p, <2>1 DEF Rest
  <2>3. 1 <= Len(t) /\ t[1].k \in {"size", "last"} /\ (t[1].k = "size" => t = <<z, b, l>>)
        /\ (t[1].k = "last" => t = <<l>>)
    <3>1. CASE t = <<z, b, l>>
      BY <1>q, <1>s, <3>1
    <3>2. CASE t = <<l>>
      BY <1>q, <1>t, <3>2
    <3> QED BY <2>2, <3>1, <3>2
  <2>4. 1 \in 0..Len(recvOutBuf) /\ recvOutBuf' = SubSeq(recvOutBuf, 1 + 1, Len(recvOutBuf))
        /\ Head(recvOutBuf) = recvOutBuf[1]
    BY <2>1, FirstTaken
  <2>5. t[1].k = Head(recvOutBuf).k
    <3>1. \A j \in 1..1 : recvOutBuf[j] = t[j]
      BY <1>0, <1>r, <2>1, <2>3, <2>4, UpCut
    <3> QED BY <2>4, <3>1
  <2>6. \E u : u = SubSeq(t, 1 + 1, Len(t)) /\ Rest(u)'
    <3>1. CASE Head(recvOutBuf).k = "size"
      <4>1. SubSeq(t, 1 + 1, Len(t)) = <<b, l>>
        <5>1. t = <<z, b, l>> /\ Len(t) = 3 /\ 1 + 1 = 2
          BY <1>s, <2>3, <2>5, <3>1
        <5> QED BY <1>s, <5>1
      <4>2. PICK u : u = <<b, l>>
        OBVIOUS
      <4>3. Rest(u)'
        BY <1>p, <2>1, <2>2, <3>1, <4>2 DEF Rest
      <4> QED BY <4>1, <4>2, <4>3
    <3>2. CASE Head(recvOutBuf).k = "last"
      <4>1. SubSeq(t, 1 + 1, Len(t)) = <<>>
        <5>1. t = <<l>> /\ Len(t) = 1 /\ 1 + 1 = 2
          BY <1>t, <2>3, <2>5, <3>2
        <5> QED BY <1>t, <5>1
      <4>2. PICK u : u = <<>>
        OBVIOUS
      <4>3. Rest(u)'
        BY <2>1, <3>2, <4>2 DEF Rest
      <4> QED BY <4>1, <4>2, <4>3
    <3> QED BY <2>1, <3>1, <3>2
  <2>7. PICK u : u = SubSeq(t, 1 + 1, Len(t)) /\ Rest(u)'
    BY <2>6
  <2> QED BY <1>o, <2>1, <2>3, <2>4, <2>7, UpTaken
<1>6. CASE OutRaw
  <2>1. PICK n : n = CopySize(recvOutBuf, out.size)
    OBVIOUS
  <2>2. /\ recvOutBuf # <<>> /\ recvOutBuf' = SubSeq(recvOutBuf, n + 1, Len(recvOutBuf))
        /\ UNCHANGED <<browser, reqs>> /\ outStep = "RAW"
        /\ out'.req = out.req /\ out'.chunked = out.chunked /\ out'.size = out.size - n
        /\ outStep' = IF out.size - n > 0 THEN "RAW" ELSE IF out.chunked THEN "CHUNK" ELSE "FINISH"
    BY <1>6, <1>r, <2>1 DEF OutRaw, envVars, Out
  <2>3. \/ out.chunked /\ out.size = 1 /\ t = <<b, l>>
        \/ ~out.chunked /\ out.size = 2 /\ t = <<b, b>>
        \/ ~out.chunked /\ out.size = 1 /\ t = <<b>>
    BY <1>0, <1>p, <2>2 DEF Rest
  <2>4. Len(recvOutBuf) \in Nat /\ Len(recvOutBuf) >= 1
    BY <2>2, FirstTaken
  <2>5. out.size \in {1, 2} /\ out.size <= Len(t) /\ Len(t) \in Nat
    <3>1. CASE t = <<b, l>> /\ out.size = 1
      BY <1>u, <3>1
    <3>2. CASE t = <<b, b>> /\ out.size = 2
      BY <1>v, <3>2
    <3>3. CASE t = <<b>> /\ out.size = 1
      BY <1>w, <3>3
    <3> QED BY <2>3, <3>1, <3>2, <3>3
  <2>6. n \in {1, 2} /\ n <= out.size /\ n \in 0..Len(recvOutBuf) /\ n <= Len(t)
    <3>1. n = IF Len(recvOutBuf) > out.size THEN out.size ELSE Len(recvOutBuf)
      BY <2>1 DEF CopySize
    <3>2. n \in 1..out.size /\ n \in 0..Len(recvOutBuf)
      BY <2>4, <2>5, <3>1
    <3> QED BY <2>5, <3>2
  <2>7. \E u : u = SubSeq(t, n + 1, Len(t)) /\ Rest(u)'
    <3>1. CASE t = <<b, l>> /\ out.chunked /\ out.size = 1
      <4>1. n = 1 /\ outStep' = "CHUNK" /\ out'.chunked
        BY <2>2, <2>6, <3>1
      <4>2. SubSeq(t, n + 1, Len(t)) = <<l>>
        <5>1. t = <<b, l>> /\ Len(t) = 2 /\ n + 1 = 2
          BY <1>u, <3>1, <4>1
        <5> QED BY <1>u, <5>1
      <4>3. PICK u : u = <<l>>
        OBVIOUS
      <4>4. Rest(u)'
        BY <1>p, <2>2, <4>1, <4>3 DEF Rest
      <4> QED BY <4>2, <4>3, <4>4
    <3>2. CASE t = <<b, b>> /\ ~out.chunked /\ out.size = 2 /\ n = 1
      <4>1. outStep' = "RAW" /\ ~out'.chunked /\ out'.size = 1
        BY <2>2, <3>2
      <4>2. SubSeq(t, n + 1, Len(t)) = <<b>>
        <5>1. t = <<b, b>> /\ Len(t) = 2 /\ n + 1 = 2
          BY <1>v, <3>2
        <5> QED BY <1>v, <5>1
      <4>3. PICK u : u = <<b>>
        OBVIOUS
      <4>4. Rest(u)'
        BY <1>p, <2>2, <4>1, <4>3 DEF Rest
      <4> QED BY <4>2, <4>3, <4>4
    <3>3. CASE t = <<b, b>> /\ ~out.chunked /\ out.size = 2 /\ n = 2
      <4>1. outStep' = "FINISH"
        BY <2>2, <3>3
      <4>2. SubSeq(t, n + 1, Len(t)) = <<>>
        <5>1. t = <<b, b>> /\ Len(t) = 2 /\ n + 1 = 3
          BY <1>v, <3>3
        <5> QED BY <1>v, <5>1
      <4>3. PICK u : u = <<>>
        OBVIOUS
      <4>4. Rest(u)'
        BY <4>1, <4>3 DEF Rest
      <4> QED BY <4>2, <4>3, <4>4
    <3>4. CASE t = <<b>> /\ ~out.chunked /\ out.size = 1
      <4>1. n = 1 /\ outStep' = "FINISH"
        BY <2>2, <2>6, <3>4
      <4>2. SubSeq(t, n + 1, Len(t)) = <<>>
        <5>1. t = <<b>> /\ Len(t) = 1 /\ n + 1 = 2
          BY <1>w, <3>4, <4>1
        <5> QED BY <1>w, <5>1
      <4>3. PICK u : u = <<>>
        OBVIOUS
      <4>4. Rest(u)'
        BY <4>1, <4>3 DEF Rest
      <4> QED BY <4>2, <4>3, <4>4
    <3> QED BY <2>3, <2>6, <3>1, <3>2, <3>3, <3>4
  <2>8. PICK u : u = SubSeq(t, n + 1, Len(t)) /\ Rest(u)'
    BY <2>7
  <2> QED BY <1>o, <2>2, <2>6, <2>8, UpTaken
<1>7. CASE OutTunneling
  BY <1>7 DEF OutTunneling, Guarded
<1>8. CASE OutReturn \/ OutStart \/ OutDecodeBad
  <2>1. UNCHANGED <<recvOutBuf, browser, reqs, out>>
        /\ (outStep' = outStep \/ {outStep, outStep'} \subseteq {"START", "FIRSTLINE", "FINISH"})
    BY <1>8 DEF OutReturn, OutStart, OutDecodeBad, envVars, outBufs, dataVars, stepVars
  <2> QED BY <2>1, UpKept DEF Up
<1>9. CASE OutFinish
  <2>1. UNCHANGED <<recvOutBuf, browser.net, browser.queue, browser.open, reqs, out>>
        /\ {outStep, outStep'} \subseteq {"START", "FIRSTLINE", "FINISH"}
    BY <1>9, UpOK DEF OutFinish, EndExchange, SendIn, BrowserEnd, envVars, outBufs, dataVars
  <2>2. Up' = Up
    BY <2>1 DEF Up
  <2> QED BY <2>1, <2>2, UpKept
<1> QED BY <1>1, <1>2, <1>3, <1>4, <1>5, <1>6, <1>7, <1>8, <1>9 DEF ProcessOut

LEMMA UpStep ==
  DataInv /\ DataInv' /\ SaidInv /\ RouteInv /\ AccountInv /\ AsksInv /\ UpInv /\ [Next]_vars => UpInv'
<1> SUFFICES ASSUME DataInv, DataInv', SaidInv, RouteInv, AccountInv, AsksInv, UpInv, [Next]_vars,
                    Guarded'
             PROVE  UpInv'
  BY DEF UpInv
<1>g. Guarded
  BY GuardBack
<1>b. browser \in BrowserEnd(Len(reqs)) /\ pc # "awaitLocal"
  BY <1>g, UpOK DEF RouteInv
<1>e. outStep' = outStep \/ {outStep, outStep'} \subseteq {"START", "FIRSTLINE", "FINISH"}
        => (UNCHANGED <<recvOutBuf, reqs, out>> /\ UNCHANGED <<browser.net, browser.queue, browser.open>>
              => UpInv')
  BY <1>g, UpKept DEF Up
<1>s. ASSUME NEW buf, NEW keep, SendIn(buf, keep)
      PROVE  UNCHANGED <<browser.net, browser.queue, browser.open>>
  BY <1>s, <1>b DEF SendIn, BrowserEnd
<1>w. ASSUME NEW r, ApiWrite(r)
      PROVE  UNCHANGED <<browser.net, browser.queue, browser.open>>
  BY <1>w, <1>b DEF ApiWrite, BrowserEnd
<1> USE DEF outBufs, envVars, dataVars, stepVars
<1>1. CASE UNCHANGED vars \/ Terminated
  <2>1. UNCHANGED <<recvOutBuf, reqs, browser, out, outStep>>
    BY <1>1 DEF vars, Terminated
  <2> QED BY <2>1, <1>e
<1>2. CASE Environment
  BY <1>2, <1>g, UpEnvironment
<1>3. CASE ManageLoop
  <2>1. CASE OuterReceive \/ InnerReceiveOut
    <3>1. ReceiveOut /\ UNCHANGED <<reqs, out, outStep>>
      BY <2>1 DEF OuterReceive, InnerReceiveOut
    <3> QED BY <3>1, <1>g, UpReceive, UpKept
  <2>2. CASE OuterSend \/ InnerSendIn \/ TrailSend \/ Trail503
    <3>1. UNCHANGED <<recvOutBuf, reqs, out, outStep>> /\ \E buf, keep : SendIn(buf, keep)
      BY <2>2 DEF OuterSend, InnerSendIn, TrailSend, Trail503
    <3> QED BY <3>1, <1>e, <1>s
  <2>3. CASE \/ InnerSendOut \/ InnerReceiveIn \/ InnerEnd \/ TrailReceive \/ TrailFeed
             \/ OuterEnd \/ Destroy
    <3>1. UNCHANGED <<recvOutBuf, reqs, browser, out, outStep>>
      BY <2>3 DEF InnerSendOut, InnerReceiveIn, InnerEnd, TrailReceive, TrailFeed, OuterEnd, Destroy
    <3> QED BY <3>1, <1>e
  <2> QED BY <1>3, <2>1, <2>2, <2>3 DEF ManageLoop
<1>4. CASE ProcessOut
  BY <1>4, <1>g, UpOut
<1>5. CASE ConnectWebsite
  <2>1. CASE LocalAnswer \/ Established
    <3>1. UNCHANGED <<recvOutBuf, reqs, out, outStep>> /\ \E buf, keep : SendIn(buf, keep)
      BY <2>1 DEF LocalAnswer, Established
    <3> QED BY <3>1, <1>e, <1>s
  <2>2. CASE ApiAnswer
    <3>1. UNCHANGED <<recvOutBuf, reqs, out, outStep>> /\ \E r : ApiWrite(r)
      BY <2>2 DEF ApiAnswer
    <3> QED BY <3>1, <1>e, <1>w
  <2>3. CASE AwaitLine \/ AwaitLocal
    BY <2>3, <1>b DEF AwaitLine, AwaitLocal
  <2>4. CASE LocalSecure
    <3>1. /\ UNCHANGED <<recvOutBuf, reqs, out, outStep>>
          /\ browser' = browser \/ (\E buf, keep : SendIn(buf, keep)) \/ (\E r : ApiWrite(r))
      BY <2>4 DEF LocalSecure, SecurePage
    <3> QED BY <3>1, <1>e, <1>s, <1>w
  <2>5. CASE LocalTls
    <3>1. UNCHANGED <<recvOutBuf, reqs, browser, out, outStep>>
      BY <2>5 DEF LocalTls, Guarded
    <3> QED BY <3>1, <1>e
  <2>6. CASE \/ ConnectFlush \/ Jump \/ Rdir \/ ConnectReuse \/ ConnectFail \/ ConnectOpen
             \/ ViaProxy \/ AwaitProxy \/ Tls \/ Resend \/ InRedirected
    <3>1. UNCHANGED <<recvOutBuf, reqs, browser, out, outStep>>
      BY <2>6 DEF ConnectFlush, Jump, Rdir, ConnectReuse, ConnectFail, ConnectOpen, ViaProxy,
         AwaitProxy, Tls, Resend, InRedirected
    <3> QED BY <3>1, <1>e
  <2> QED BY <1>5, <2>1, <2>2, <2>3, <2>4, <2>5, <2>6 DEF ConnectWebsite
<1>6. CASE ProcessIn
  <2>1. CASE InFinish
    <3>1. /\ UNCHANGED <<recvOutBuf, reqs, out>>
          /\ (\E buf, keep : SendIn(buf, keep)) \/ browser' = browser
          /\ {outStep, outStep'} \subseteq {"START", "FINISH"}
      BY <2>1 DEF InFinish, EndExchange
    <3> QED BY <3>1, <1>e, <1>s
  <2>2. CASE InDecode
    <3>1. UNCHANGED <<recvOutBuf, reqs, browser, out>> /\ outStep' \in {outStep, "TUNNELING"}
      BY <2>2 DEF InDecode, Relay
    <3> QED BY <3>1, <1>e DEF Guarded
  <2>3. CASE \/ InReturn \/ InStart \/ InFirstLine \/ InGarbage \/ InHeaders \/ InDecodeBad
             \/ InChunk \/ InRaw \/ InTunneling
    <3>1. UNCHANGED <<recvOutBuf, reqs, browser, out, outStep>>
      BY <2>3 DEF InReturn, InStart, InFirstLine, InGarbage, InHeaders, InDecodeBad,
         InChunk, InRaw, InTunneling
    <3> QED BY <3>1, <1>e
  <2> QED BY <1>6, <2>1, <2>2, <2>3 DEF ProcessIn
<1> QED BY <1>1, <1>2, <1>3, <1>4, <1>5, <1>6 DEF Next, Thread

LEMMA AsksStep == DataInv /\ SaidInv /\ RouteInv /\ AsksInv /\ [Next]_vars => AsksInv'
<1> SUFFICES ASSUME DataInv, SaidInv, RouteInv, AsksInv, [Next]_vars, Guarded' PROVE AsksInv'
  BY DEF AsksInv
<1>g. Guarded /\ Hosts' = Hosts
  BY GuardBack, SettingStays DEF Hosts
<1>a. /\ \A r \in DOMAIN reqs : reqs[r].h \in Hosts /\ (reqs[r].b # "none" => reqs[r].m = "POST")
      /\ pc \in Connecting /\ outStep = "DECODE" =>
           /\ out.chunked = (reqs[out.req].b = "chunk")
           /\ out.size = IF reqs[out.req].b = "len" THEN 2 ELSE 0
  BY <1>g DEF AsksInv
<1>b. /\ pc # "awaitLocal" /\ (outStep = "DECODE" => pc \notin {"procIn"})
      /\ out \in Out(Len(reqs)) /\ reqs \in Seq(Request) /\ Len(reqs) \in Nat
      /\ outStep = "DECODE" => out.req \in DOMAIN reqs
  BY <1>g, UpOK DEF RouteInv, DataInv, ConnectsInv, Opening, Opened
<1>k. ASSUME UNCHANGED <<reqs, out>>,
             pc' \in Connecting /\ outStep' = "DECODE" => pc \in Connecting /\ outStep = "DECODE"
      PROVE  AsksInv'
  BY <1>a, <1>g, <1>k DEF AsksInv
<1>l. ASSUME UNCHANGED reqs, pc' \notin Connecting \/ outStep' # "DECODE" PROVE AsksInv'
  BY <1>a, <1>g, <1>l DEF AsksInv
<1> USE DEF envVars, dataVars, stepVars
<1>1. CASE UNCHANGED vars \/ Terminated
  <2>1. UNCHANGED <<reqs, out, pc, outStep>>
    BY <1>1 DEF vars, Terminated
  <2> QED BY <2>1, <1>k
<1>2. CASE Environment
  <2>0. UNCHANGED <<out, pc, outStep>>
    BY <1>2, EnvironmentLeavesThread DEF threadVars
  <2>1. CASE BrowserRequest
    <3>1. PICK m \in Methods, h \in Hosts, b \in Bodies \cup {"none"} :
            /\ reqs' = Append(reqs, [m |-> m, h |-> h, b |-> b])
            /\ b # "none" => m = "POST"
      BY <2>1 DEF BrowserRequest
    <3> DEFINE q == [m |-> m, h |-> h, b |-> b]
    <3>2. q.h \in Hosts /\ (q.b # "none" => q.m = "POST")
      BY <3>1
    <3> HIDE DEF q
    <3>3. /\ DOMAIN reqs' = 1..Len(reqs) + 1 /\ reqs'[Len(reqs) + 1] = q
          /\ \A r \in DOMAIN reqs : reqs'[r] = reqs[r]
          /\ DOMAIN reqs = 1..Len(reqs)
      BY <1>b, <3>1 DEF q
    <3>4. \A r \in 1..Len(reqs) + 1 : r = Len(reqs) + 1 \/ r \in 1..Len(reqs)
      BY <1>b
    <3>5. \A r \in DOMAIN reqs' : reqs'[r].h \in Hosts /\ (reqs'[r].b # "none" => reqs'[r].m = "POST")
      BY <3>2, <3>3, <3>4, <1>a
    <3>6. outStep = "DECODE" => reqs'[out.req] = reqs[out.req]
      BY <3>3, <1>b
    <3> QED BY <2>0, <3>5, <3>6, <1>a, <1>g DEF AsksInv
  <2>2. CASE BrowserTunnel
    BY <2>2, <1>g, NotUpgraded DEF BrowserTunnel, SaidInv, Guarded
  <2>3. CASE \/ BrowserSend \/ BrowserClose
             \/ WebsiteAnswer \/ WebsiteTunnel \/ WebsiteInterim \/ WebsiteStray \/ WebsiteSend \/ WebsiteClose
             \/ Stall \/ IdleExpire \/ SwitchToInvalid
    <3>1. UNCHANGED reqs
      BY <2>3 DEF BrowserSend, BrowserClose, WebsiteAnswer, WebsiteTunnel, WebsiteInterim, WebsiteStray,
         WebsiteSend, WebsiteClose, Stall, IdleExpire, SwitchToInvalid
    <3> QED BY <2>0, <3>1, <1>k
  <2> QED BY <1>2, <2>1, <2>2, <2>3 DEF Environment
<1>3. CASE ManageLoop
  <2>1. UNCHANGED reqs /\ pc' \notin Connecting
    <3>1. ret \in Returns
      BY DEF DataInv, CountInv
    <3> QED BY <1>3 DEF ManageLoop, OuterReceive, OuterSend, InnerSendOut, InnerReceiveIn,
     InnerSendIn, InnerReceiveOut, InnerEnd, TrailReceive, TrailFeed, TrailSend, Trail503,
     OuterEnd, Destroy, Connecting
  <2> QED BY <2>1, <1>l
<1>4. CASE ProcessOut
  <2>1. CASE OutDecode
    <3>1. /\ UNCHANGED <<reqs, outStep>> /\ outStep = "DECODE"
          /\ out' = [out EXCEPT !.chunked = (reqs[out.req].b = "chunk"),
                                !.size = IF reqs[out.req].b = "len" THEN 2 ELSE 0]
      BY <2>1 DEF OutDecode
    <3>2. /\ out'.req = out.req /\ out'.chunked = (reqs[out.req].b = "chunk")
          /\ out'.size = IF reqs[out.req].b = "len" THEN 2 ELSE 0
      BY <3>1, <1>b DEF Out
    <3> QED BY <3>1, <3>2, <1>a, <1>g DEF AsksInv
  <2>2. CASE \/ OutReturn \/ OutStart \/ OutFirstLine \/ OutHeaders \/ OutDecodeBad \/ OutSend
             \/ OutChunk \/ OutRaw \/ OutTunneling \/ OutFinish
    <3>1. ret \in Returns
      BY DEF DataInv, CountInv
    <3>2. UNCHANGED reqs /\ pc' \notin Connecting
      BY <2>2, <3>1 DEF OutReturn, OutStart, OutFirstLine, OutHeaders, OutDecodeBad, OutSend,
         OutChunk, OutRaw, OutTunneling, OutFinish, Connecting, Returns
    <3> QED BY <3>2, <1>l
  <2> QED BY <1>4, <2>1, <2>2 DEF ProcessOut
<1>5. CASE ConnectWebsite
  <2>1. CASE AwaitLine \/ AwaitLocal
    BY <2>1, <1>b DEF AwaitLine, AwaitLocal
  <2>2. CASE \/ ConnectFlush \/ LocalAnswer \/ ApiAnswer \/ LocalTls \/ LocalSecure \/ Jump \/ Rdir
             \/ ConnectReuse \/ ConnectFail \/ ConnectOpen
    <3>1. UNCHANGED <<reqs, out, outStep>> /\ pc \in Connecting
      BY <2>2 DEF ConnectFlush, LocalAnswer, ApiAnswer, LocalTls, LocalSecure, Jump, Rdir, ConnectReuse,
         ConnectFail, ConnectOpen, ToWebsite, Connecting
    <3> QED BY <3>1, <1>k
  <2>3. CASE Established \/ ViaProxy \/ AwaitProxy \/ Tls \/ Resend \/ InRedirected
    <3>1. UNCHANGED <<reqs, out, outStep>> /\ pc \in Connecting
      BY <2>3 DEF Established, ViaProxy, AwaitProxy, Tls, Resend, InRedirected, Connecting
    <3> QED BY <3>1, <1>k
  <2> QED BY <1>5, <2>1, <2>2, <2>3 DEF ConnectWebsite
<1>6. CASE ProcessIn
  <2>1. CASE InDecode
    <3>1. UNCHANGED reqs /\ pc = "procIn" /\ outStep' \in {outStep, "TUNNELING"}
      BY <2>1 DEF InDecode, Relay
    <3>2. outStep' # "DECODE"
      BY <3>1, <1>b
    <3> QED BY <3>1, <3>2, <1>l
  <2>2. CASE \/ InReturn \/ InStart \/ InFirstLine \/ InGarbage \/ InHeaders \/ InDecodeBad
             \/ InChunk \/ InRaw \/ InTunneling \/ InFinish
    <3>1. ret \in Returns
      BY DEF DataInv, CountInv
    <3>2. UNCHANGED reqs /\ pc' \notin Connecting
      BY <2>2, <3>1 DEF InReturn, InStart, InFirstLine, InGarbage, InHeaders, InDecodeBad,
         InChunk, InRaw, InTunneling, InFinish, Connecting, Returns
    <3> QED BY <3>2, <1>l
  <2> QED BY <1>6, <2>1, <2>2 DEF ProcessIn
<1> QED BY <1>1, <1>2, <1>3, <1>4, <1>5, <1>6 DEF Next, Thread

\* What STEP_CHUNK and STEP_RAW pass on is of the request in hand.
LEMMA TakenMine ==
  ASSUME DataInv, Guarded, UpInv, NEW n \in 0..Len(recvOutBuf),
         (outStep = "CHUNK" /\ n <= 1) \/ (outStep = "RAW" /\ n <= out.size)
  PROVE  \A j \in 1..n : recvOutBuf[j].r = out.req
<1>1. PICK t \in Tokens : Rest(t) /\ Stands(Up, 1, t, out.req, Len(reqs), browser.open)
  BY DEF UpInv
<1>2. PICK z, b, l : z = Tok("size", out.req, "-") /\ b = Tok("byte", out.req, "-")
                     /\ l = Tok("last", out.req, "-")
  OBVIOUS
<1>3. z.r = out.req /\ b.r = out.req /\ l.r = out.req
  BY <1>2 DEF Tok
<1>4. n <= Len(t) /\ Len(t) \in Nat /\ \A j \in 1..Len(t) : t[j].r = out.req
  <2>0. \/ n <= 1 /\ t \in {<<z, b, l>>, <<l>>}
        \/ n <= out.size /\ out.size = 1 /\ t = <<b, l>>
        \/ n <= out.size /\ out.size = 2 /\ t = <<b, b>>
        \/ n <= out.size /\ out.size = 1 /\ t = <<b>>
    BY <1>1, <1>2 DEF Rest
  <2>1. CASE n <= 1 /\ t = <<z, b, l>>
    BY <1>3, <2>1
  <2>2. CASE n <= 1 /\ t = <<l>>
    BY <1>3, <2>2
  <2>3. CASE n <= 1 /\ t = <<b, l>>
    BY <1>3, <2>3
  <2>4. CASE n <= 2 /\ t = <<b, b>>
    BY <1>3, <2>4
  <2>5. CASE n <= 1 /\ t = <<b>>
    BY <1>3, <2>5
  <2> QED BY <2>0, <2>1, <2>2, <2>3, <2>4, <2>5
<1>5. /\ n <= Len(Up) /\ \A j \in 1..Len(recvOutBuf) : Up[j] = recvOutBuf[j]
      /\ Len(recvOutBuf) \in Nat /\ Len(Up) \in Nat
  BY UpOK, CutJoin, TokensDef, LenProperties DEF Up
<1>6. \A j \in 1..Len(t) : 1 + j - 1 <= Len(Up) => Up[1 + j - 1] = t[j]
  BY <1>1 DEF Stands
<1> TAKE j \in 1..n
<1>7. j \in 1..Len(t) /\ j \in 1..Len(recvOutBuf) /\ 1 + j - 1 = j /\ j <= Len(Up)
  BY <1>4, <1>5
<1>8. recvOutBuf[j] = t[j]
  BY <1>5, <1>6, <1>7
<1> QED BY <1>4, <1>7, <1>8

-----------------------------------------------------------------------------
(* Where a request goes.                                                   *)

\* Nothing answers a request before _ConnectWebsite has looked for its host.
StartInv ==
  Guarded /\ outStep = "DECODE" /\ pc \in {"procOut", "connect", "route"} => inStep = "START"

LEMMA StartStep == DataInv /\ AccountInv /\ StartInv /\ [Next]_vars => StartInv'
<1> SUFFICES ASSUME DataInv, AccountInv, StartInv, [Next]_vars, Guarded', outStep' = "DECODE",
                    pc' \in {"procOut", "connect", "route"}
             PROVE  inStep' = "START"
  BY DEF StartInv
<1>g. Guarded
  BY GuardBack
<1>b. /\ outStep = "DECODE" => pc \in {"procOut", "raise", "gone"} \cup Opening \cup Opened
      /\ ret \in Returns
      /\ pc = "outSend" => outStep = "DECODE"
      /\ outStep = "DECODE" /\ pc \in {"procOut", "connect", "route"} => inStep = "START"
  BY <1>g DEF DataInv, ConnectsInv, StartInv
<1> USE DEF stepVars
<1>1. CASE UNCHANGED vars \/ Terminated
  BY <1>1, <1>b DEF vars, Terminated
<1>2. CASE Environment
  BY <1>2, <1>b, EnvironmentLeavesThread DEF threadVars
<1>3. CASE ManageLoop
  BY <1>3, <1>b DEF ManageLoop, OuterReceive, OuterSend, InnerSendOut, InnerReceiveIn,
     InnerSendIn, InnerReceiveOut, InnerEnd, TrailReceive, TrailFeed, TrailSend, Trail503,
     OuterEnd, Destroy, Opening, Opened
<1>4. CASE ProcessOut
  <2>1. CASE OutHeaders
    <3>1. pc = "procOut" /\ outStep = "HEADERS" /\ inStep' = inStep
      BY <2>1 DEF OutHeaders
    <3> QED BY <3>1, <1>g DEF AccountInv, Over, Account
  <2>2. CASE OutDecode
    BY <2>2, <1>b DEF OutDecode
  <2>3. CASE \/ OutReturn \/ OutStart \/ OutFirstLine \/ OutDecodeBad \/ OutSend
             \/ OutChunk \/ OutRaw \/ OutTunneling \/ OutFinish
    BY <2>3, <1>b DEF OutReturn, OutStart, OutFirstLine, OutDecodeBad, OutSend,
       OutChunk, OutRaw, OutTunneling, OutFinish, EndExchange, Returns
  <2> QED BY <1>4, <2>1, <2>2, <2>3 DEF ProcessOut
<1>5. CASE ConnectWebsite
  BY <1>5, <1>b DEF ConnectWebsite, ConnectFlush, LocalAnswer, ApiAnswer, LocalTls, AwaitLine,
     AwaitLocal, LocalSecure, SecurePage, Jump, Rdir, ConnectReuse, ConnectFail, ConnectOpen, ToWebsite, Established,
     ViaProxy, AwaitProxy, Tls, Resend, InRedirected, ConnectReturn
<1>6. CASE ProcessIn
  <2>1. pc = "procIn" /\ outStep # "DECODE"
    BY <1>6, <1>b DEF ProcessIn, InReturn, InStart, InFirstLine, InGarbage, InHeaders, InDecodeBad,
       InDecode, InChunk, InRaw, InTunneling, InFinish, Opening, Opened
  <2>2. outStep' \in {outStep, "TUNNELING", "START"}
    BY <1>6 DEF ProcessIn, InReturn, InStart, InFirstLine, InGarbage, InHeaders, InDecodeBad,
       InDecode, Relay, InChunk, InRaw, InTunneling, InFinish, EndExchange
  <2> QED BY <2>1, <2>2
<1> QED BY <1>1, <1>2, <1>3, <1>4, <1>5, <1>6 DEF Next, Thread

\* No filter and no proxy changes where a request goes, and none is for the
\* proxy itself.
Straight == OutFilters = {"none"} /\ InFilters = {"none"} /\ ~UseProxy /\ Local \notin Hosts
ForIt(s, h, q) == \A i \in 1..Len(s) : s[i].r \in DOMAIN q /\ q[s[i].r].h = h

\* While _ConnectWebsite runs, sendOutBuf may still hold what the last website
\* did not take: OutSend puts the new head in its place.
Reached == {"established", "viaProxy", "tls", "resend", "outSend"}
SendInv ==
  Guarded /\ Straight =>
    /\ owner.rdir = "none" /\ pc # "awaitProxy"
    /\ pc \in Connecting => /\ outStep = "DECODE" /\ owner.url = reqs[out.req].h
                            /\ owner.contact = <<owner.url, owner.https>>
    /\ webConn => website.host = prevHost
    /\ webConn /\ pc \in Reached => /\ website.host = owner.contact
                                    /\ out.method # "CONNECT" => inStep = "START"
    /\ webConn /\ Busy => website.host[1] = reqs[out.req].h
    /\ webConn /\ pc \notin Connecting => ForIt(sendOutBuf, website.host[1], reqs)
    /\ ForIt(website.got, website.host[1], reqs)

\* The connection to the website stays, with what went over it, or is closed.
Held == \/ webConn' = webConn /\ website'.host = website.host /\ website'.got = website.got
        \/ ~webConn' /\ website' = Disconnected

LEMMA HeldKept ==
  ASSUME DataInv, (\E keep : KeepWebsite(keep)) \/ ReceiveIn \/ UNCHANGED <<webConn, website>>
  PROVE  Held
<1>1. website \in WebsiteEnd /\ webConn \in BOOLEAN
  BY DEF DataInv, WebsiteInv, FlagInv
<1>2. CASE \E keep : KeepWebsite(keep)
  <2>1. PICK keep : KeepWebsite(keep)
    BY <1>2
  <2>2. CASE webConn /\ keep
    BY <1>1, <2>1, <2>2 DEF KeepWebsite, Held
  <2>3. CASE ~(webConn /\ keep)
    BY <2>1, <2>3 DEF KeepWebsite, Held
  <2> QED BY <2>2, <2>3
<1>3. CASE ReceiveIn
  <2>1. CASE webConn /\ website.open
    BY <1>1, <1>3, <2>1 DEF ReceiveIn, Held, WebsiteEnd
  <2>2. CASE ~(webConn /\ website.open)
    BY <1>3, <2>2 DEF ReceiveIn, Held
  <2> QED BY <2>1, <2>2
<1>4. CASE UNCHANGED <<webConn, website>>
  BY <1>4 DEF Held
<1> QED BY <1>2, <1>3, <1>4

LEMMA ForNone == \A h, q : ForIt(<<>>, h, q) /\ ForIt(Disconnected.got, h, q)
<1>1. Disconnected.got = <<>>
  BY DEF Disconnected
<1> QED BY <1>1 DEF ForIt

LEMMA ForJoin ==
  ASSUME NEW h, NEW q, NEW s \in Tokens, NEW t \in Tokens, ForIt(s, h, q), ForIt(t, h, q)
  PROVE  ForIt(s \o t, h, q)
<1> SUFFICES ASSUME NEW i \in 1..Len(s \o t)
             PROVE  (s \o t)[i].r \in DOMAIN q /\ q[(s \o t)[i].r].h = h
  BY DEF ForIt
<1>1. /\ Len(s) \in Nat /\ Len(t) \in Nat /\ Len(s \o t) = Len(s) + Len(t)
      /\ \A j \in 1..Len(s) + Len(t) : (s \o t)[j] = IF j <= Len(s) THEN s[j] ELSE t[j - Len(s)]
  BY TokensDef, ConcatProperties, LenProperties
<1>2. CASE i <= Len(s)
  <2>1. i \in 1..Len(s) /\ (s \o t)[i] = s[i]
    BY <1>1, <1>2
  <2> QED BY <2>1 DEF ForIt
<1>3. CASE i > Len(s)
  <2>1. i - Len(s) \in 1..Len(t) /\ (s \o t)[i] = t[i - Len(s)]
    BY <1>1, <1>3
  <2> QED BY <2>1 DEF ForIt
<1> QED BY <1>1, <1>2, <1>3

LEMMA ForFirst ==
  ASSUME NEW h, NEW q, NEW s \in Tokens, NEW n \in 0..Len(s), NEW r \in DOMAIN q, q[r].h = h,
         \A j \in 1..n : s[j].r = r
  PROVE  ForIt(SubSeq(s, 1, n), h, q) /\ SubSeq(s, 1, n) \in Tokens
<1>1. Len(s) \in Nat /\ \A j \in 1..Len(s) : s[j] \in Token
  BY TokensDef, LenProperties, ElementOfSeq
<1>2. SubSeq(s, 1, n) \in Tokens /\ Len(SubSeq(s, 1, n)) = n /\ \A j \in 1..n : SubSeq(s, 1, n)[j] = s[j]
  BY <1>1, TokensDef, SubSeqProperties
<1> QED BY <1>2 DEF ForIt

LEMMA ForOne ==
  ASSUME NEW h, NEW q, NEW e \in Token, e.r \in DOMAIN q, q[e.r].h = h
  PROVE  ForIt(<<e>>, h, q) /\ <<e>> \in Tokens
<1>1. Len(<<e>>) = 1 /\ <<e>>[1] = e /\ <<e>> \in Tokens
  BY TokensDef
<1>2. \A i \in 1..1 : <<e>>[i] = e
  BY <1>1
<1> QED BY <1>1, <1>2 DEF ForIt

LEMMA SendStep ==
  DataInv /\ DataInv' /\ RouteInv /\ AsksInv /\ UpInv /\ StartInv /\ SendInv /\ [Next]_vars => SendInv'
<1> SUFFICES ASSUME DataInv, DataInv', RouteInv, AsksInv, UpInv, StartInv, SendInv, [Next]_vars,
                    Guarded', Straight'
             PROVE  SendInv'
  BY DEF SendInv
<1>g. Guarded
  BY GuardBack
<1>s. Straight
  BY SettingStays DEF Straight, OutFilters, InFilters, UseProxy, Hosts
<1>i. /\ owner.rdir = "none" /\ pc # "awaitProxy"
      /\ pc \in Connecting => /\ outStep = "DECODE" /\ owner.url = reqs[out.req].h
                              /\ owner.contact = <<owner.url, owner.https>>
      /\ webConn => website.host = prevHost
      /\ webConn /\ pc \in Reached => /\ website.host = owner.contact
                                      /\ out.method # "CONNECT" => inStep = "START"
      /\ webConn /\ Busy => website.host[1] = reqs[out.req].h
      /\ webConn /\ pc \notin Connecting => ForIt(sendOutBuf, website.host[1], reqs)
      /\ ForIt(website.got, website.host[1], reqs)
  BY <1>g, <1>s DEF SendInv
<1>h. /\ outStep = "DECODE" => reqs[out.req].h \in Hosts
      /\ outStep \notin {"START", "FIRSTLINE"} => out.req \in DOMAIN reqs
      /\ pc \in Connecting => owner.url # Local
      /\ pc # "awaitLocal" /\ Local \notin Hosts
  BY <1>g, <1>s, <1>i, UpOK DEF AsksInv, Straight, RouteInv
<1>t. /\ ret \in Returns /\ out \in Out(Len(reqs)) /\ owner \in Owner /\ website \in WebsiteEnd
      /\ brSecure = FALSE /\ outStep' # "TUNNELING" /\ outStep # "TUNNELING"
      /\ webConn \in BOOLEAN /\ recvOutBuf \in Tokens /\ sendOutBuf \in Tokens
      /\ outStep = "DECODE" => pc \in {"procOut", "raise", "gone"} \cup Opening \cup Opened
      /\ pc = "inRedirected" => outStep # "DECODE"
  BY <1>g, UpOK DEF DataInv, CountInv, RequestInv, OwnerInv, WebsiteInv, FlagInv, Guarded, ConnectsInv
<1>f. Held => /\ webConn' => webConn /\ website'.host = website.host
              /\ ForIt(website'.got, website'.host[1], reqs)
  BY <1>i, ForNone DEF Held
<1>A. ASSUME Held, UNCHANGED <<reqs, sendOutBuf, prevHost>>, owner'.rdir = "none",
             pc \notin Connecting, pc' \notin Connecting,
             outStep' \in {"CHUNK", "RAW", "FINISH"} => Busy /\ out'.req = out.req
      PROVE  SendInv'
  <2>1. pc' # "awaitProxy" /\ pc' \notin Reached
    BY <1>A DEF Connecting, Reached
  <2> QED BY <1>A, <1>f, <1>i, <2>1 DEF SendInv, Busy
<1>B. ASSUME Held, UNCHANGED <<reqs, sendOutBuf, prevHost, owner, out, outStep>>,
             pc \in Connecting, pc' \in Connecting \ {"awaitProxy"},
             pc' \in Reached => pc \in Reached /\ inStep' = inStep
      PROVE  SendInv'
  <2>1. outStep' = "DECODE"
    BY <1>B, <1>i
  <2> QED BY <1>B, <1>f, <1>i, <2>1 DEF SendInv, Busy
<1> USE DEF envVars, dataVars, stepVars, outBufs, socketVars
<1>1. CASE UNCHANGED vars \/ Terminated
  <2>1. UNCHANGED <<reqs, sendOutBuf, prevHost, owner, out, outStep, inStep, pc, webConn, website>>
    BY <1>1 DEF vars, Terminated
  <2> QED BY <2>1, <1>i DEF SendInv, Busy
<1>2. CASE Environment
  <2>1. UNCHANGED <<sendOutBuf, prevHost, owner, out, outStep, inStep, pc, webConn>>
    BY <1>2, EnvironmentLeavesThread DEF threadVars
  <2>2. website'.host = website.host /\ website'.got = website.got
    BY <1>2, <1>t DEF Environment, BrowserRequest, BrowserTunnel, BrowserSend, BrowserClose,
       WebsiteAnswer, WebsiteTunnel, WebsiteInterim, WebsiteStray, WebsiteSend, WebsiteClose,
       Stall, IdleExpire, SwitchToInvalid, WebsiteEnd
  <2>3. \A r \in DOMAIN reqs : r \in DOMAIN reqs' /\ reqs'[r] = reqs[r]
    <3>1. CASE reqs' = reqs
      BY <3>1
    <3>2. CASE \E x : reqs' = Append(reqs, x)
      BY <3>2, UpOK
    <3> QED BY <1>2, <3>1, <3>2 DEF Environment, BrowserRequest, BrowserTunnel, BrowserSend,
          BrowserClose, WebsiteAnswer, WebsiteTunnel, WebsiteInterim, WebsiteStray, WebsiteSend, WebsiteClose,
          Stall, IdleExpire, SwitchToInvalid
  <2>4. ASSUME NEW s, NEW h, ForIt(s, h, reqs) PROVE ForIt(s, h, reqs')
    BY <2>3, <2>4 DEF ForIt
  <2>5. outStep \notin {"START", "FIRSTLINE"} => reqs'[out.req] = reqs[out.req]
    BY <1>h, <2>3
  <2>6. pc \in Connecting => reqs'[out.req] = reqs[out.req]
    BY <1>i, <2>5
  <2>7. ForIt(website'.got, website'.host[1], reqs')
    BY <1>i, <2>2, <2>4
  <2>8. webConn' /\ pc' \notin Connecting => ForIt(sendOutBuf', website'.host[1], reqs')
    BY <1>i, <2>1, <2>2, <2>4
  <2> QED BY <1>i, <2>1, <2>2, <2>5, <2>6, <2>7, <2>8 DEF SendInv, Busy
<1>3. CASE ManageLoop
  <2>1. CASE InnerSendOut
    <3>1. /\ SendOut(sendOutBuf) /\ pc = "innerSendOut" /\ pc' = "innerReceiveIn"
          /\ UNCHANGED <<reqs, prevHost, owner, out, outStep, inStep>>
      BY <2>1 DEF InnerSendOut
    <3>2. pc \notin Connecting /\ pc' \notin Connecting /\ pc' \notin Reached
      BY <3>1 DEF Connecting, Reached
    <3>3. webConn' => webConn /\ website'.host = website.host
      BY <3>1, <1>t DEF SendOut, WebsiteEnd, KeepWebsite
    <3>4. sendOutBuf' \in {sendOutBuf, <<>>}
      BY <3>1 DEF SendOut
    <3>5. webConn' => ForIt(sendOutBuf', website'.host[1], reqs')
      BY <3>1, <3>2, <3>3, <3>4, <1>i, ForNone
    <3>6. ForIt(website'.got, website'.host[1], reqs')
      <4>1. CASE UNCHANGED website
        BY <4>1, <3>1, <1>i
      <4>2. CASE website' = Disconnected
        BY <4>2, ForNone
      <4>3. CASE webConn /\ website'.got = website.got \o sendOutBuf /\ website'.host = website.host
        <5>1. ForIt(sendOutBuf, website.host[1], reqs) /\ ForIt(website.got, website.host[1], reqs)
          BY <4>3, <3>2, <1>i
        <5>2. website.got \in Tokens
          BY <1>t DEF WebsiteEnd
        <5>3. ForIt(website.got \o sendOutBuf, website.host[1], reqs)
          BY <5>1, <5>2, <1>t, ForJoin
        <5> QED BY <5>3, <4>3, <3>1
      <4> QED BY <3>1, <1>t, <4>1, <4>2, <4>3 DEF SendOut, WebsiteEnd, KeepWebsite
    <3> QED BY <3>1, <3>2, <3>3, <3>5, <3>6, <1>i DEF SendInv, Busy
  <2>2. CASE \/ OuterReceive \/ OuterSend \/ InnerReceiveIn \/ InnerSendIn \/ InnerReceiveOut
             \/ InnerEnd \/ TrailReceive \/ TrailFeed \/ TrailSend \/ Trail503 \/ OuterEnd
             \/ Destroy
    <3>1. UNCHANGED <<reqs, sendOutBuf, prevHost, owner, out, outStep>>
      BY <2>2 DEF OuterReceive, OuterSend, InnerReceiveIn, InnerSendIn, InnerReceiveOut,
         InnerEnd, TrailReceive, TrailFeed, TrailSend, Trail503, OuterEnd, Destroy
    <3>2. pc \notin Connecting /\ pc' \notin Connecting
      BY <2>2, <1>t DEF OuterReceive, OuterSend, InnerReceiveIn, InnerSendIn, InnerReceiveOut,
         InnerEnd, TrailReceive, TrailFeed, TrailSend, Trail503, OuterEnd, Destroy, Connecting
    <3>3. Held
      <4>1. CASE InnerReceiveIn \/ TrailReceive
        BY <4>1, HeldKept DEF InnerReceiveIn, TrailReceive
      <4>2. CASE InnerEnd \/ OuterEnd \/ Destroy
        BY <4>2, HeldKept DEF InnerEnd, OuterEnd, Destroy, JudgeIf, Judge
      <4>3. CASE \/ OuterReceive \/ OuterSend \/ InnerSendIn \/ InnerReceiveOut \/ TrailFeed
                 \/ TrailSend \/ Trail503
        BY <4>3, HeldKept DEF OuterReceive, OuterSend, InnerSendIn, InnerReceiveOut, TrailFeed,
           TrailSend, Trail503
      <4> QED BY <2>2, <4>1, <4>2, <4>3
    <3> QED BY <3>1, <3>2, <3>3, <1>i, <1>A DEF Busy
  <2> QED BY <1>3, <2>1, <2>2 DEF ManageLoop
<1>4. CASE ProcessOut
  <2>w. CASE OutReturn \/ OutStart \/ OutFirstLine \/ OutHeaders \/ OutDecodeBad \/ OutFinish
    <3>1. /\ UNCHANGED <<reqs, sendOutBuf, prevHost>> /\ owner'.rdir \in {owner.rdir, "none"}
          /\ outStep' \in {"CHUNK", "RAW", "FINISH"} => Busy /\ out'.req = out.req
      BY <2>w, <1>t DEF OutReturn, OutStart, OutFirstLine, OutHeaders, OutDecodeBad, OutFinish, EndExchange,
         Busy, Owner
    <3>2. pc \notin Connecting /\ pc' \notin Connecting
      BY <2>w, <1>t DEF OutReturn, OutStart, OutFirstLine, OutHeaders, OutDecodeBad, OutFinish, Connecting, Returns
    <3>3. Held
      BY <2>w, HeldKept DEF OutReturn, OutStart, OutFirstLine, OutHeaders, OutDecodeBad, OutFinish, EndExchange
    <3> QED BY <3>1, <3>2, <3>3, <1>i, <1>A
  <2>1. CASE OutDecode
    <3>1. /\ pc = "procOut" /\ outStep = "DECODE" /\ out'.req = out.req
          /\ UNCHANGED <<reqs, sendOutBuf, prevHost, outStep, webConn, website>>
      BY <2>1, <1>t DEF OutDecode, Out
    <3>2. /\ owner'.rdir = "none" /\ owner'.url = reqs[out.req].h
          /\ owner'.contact = <<owner'.url, owner'.https>> /\ pc' = "connect"
      <4>1. reqs[out.req].h # Local /\ OutFilters = {"none"}
        BY <3>1, <1>h, <1>s DEF Straight
      <4> QED BY <2>1, <4>1, <1>t DEF OutDecode
    <3>3. pc' \in Connecting /\ pc' \notin Reached /\ pc' # "awaitProxy"
      BY <3>2 DEF Connecting, Reached
    <3> QED BY <3>1, <3>2, <3>3, <1>i DEF SendInv, Busy
  <2>2. CASE OutSend
    <3>1. /\ pc = "outSend" /\ out.method # "CONNECT" /\ pc' = "procOut"
          /\ UNCHANGED <<reqs, prevHost, owner, out, inStep, webConn, website>>
          /\ sendOutBuf' = IF inStep = "START" THEN <<Tok("qhead", out.req, out.method)>> ELSE sendOutBuf
      BY <2>2, <1>t DEF OutSend
    <3>2. pc \in Connecting /\ pc \in Reached /\ pc' \notin Connecting /\ pc' \notin Reached
      BY <3>1 DEF Connecting, Reached
    <3>3. out.req \in DOMAIN reqs
      BY <3>2, <1>h, <1>i
    <3>4. webConn => website.host[1] = reqs[out.req].h
      BY <3>2, <1>i
    <3>5. webConn => ForIt(sendOutBuf', website.host[1], reqs)
      <4>1. Tok("qhead", out.req, out.method) \in Token
        <5>1. out.req \in Nat /\ out.method \in Verbs
          BY <1>t, UpOK DEF Out
        <5> QED BY <5>1 DEF Tok, Token, Kinds, Values
      <4>2. Tok("qhead", out.req, out.method).r = out.req
        BY DEF Tok
      <4>3. webConn => inStep = "START"
        BY <3>1, <3>2, <1>i
      <4> QED BY <3>1, <3>3, <3>4, <4>1, <4>2, <4>3, ForOne
    <3> QED BY <3>1, <3>2, <3>4, <3>5, <1>i DEF SendInv, Busy
  <2>3. CASE OutChunk
    <3>1. /\ pc = "procOut" /\ outStep = "CHUNK" /\ recvOutBuf # <<>> /\ pc' = pc
          /\ UNCHANGED <<reqs, prevHost, owner, webConn, website>> /\ out'.req = out.req
          /\ sendOutBuf' \in {Append(sendOutBuf, Head(recvOutBuf)), <<>>}
      BY <2>3, <1>t DEF OutChunk, NextIs, Unexpected, Out
    <3>2. pc \notin Connecting /\ pc \notin Reached
      BY <3>1 DEF Connecting, Reached
    <3>3. Head(recvOutBuf) \in Token /\ Head(recvOutBuf).r = out.req
      <4>1. Head(recvOutBuf) = recvOutBuf[1] /\ 1 \in 0..Len(recvOutBuf)
        BY <3>1, FirstTaken
      <4>2. \A j \in 1..1 : recvOutBuf[j].r = out.req
        BY <3>1, <4>1, <1>g, TakenMine
      <4> QED BY <4>1, <4>2, <3>1, <1>t, TokensDef, HeadTailProperties
    <3>4. webConn => ForIt(sendOutBuf', website.host[1], reqs)
      <4>1. CASE sendOutBuf' = <<>>
        BY <4>1, ForNone
      <4>2. CASE sendOutBuf' = Append(sendOutBuf, Head(recvOutBuf)) /\ webConn
        <5>1. sendOutBuf' = sendOutBuf \o <<Head(recvOutBuf)>>
          BY <4>2, <3>3, <1>t, TokensDef, AppendIsConcat
        <5>2. out.req \in DOMAIN reqs /\ reqs[out.req].h = website.host[1]
          BY <4>2, <3>1, <1>h, <1>i DEF Busy
        <5>3. ForIt(<<Head(recvOutBuf)>>, website.host[1], reqs) /\ <<Head(recvOutBuf)>> \in Tokens
          BY <3>3, <5>2, ForOne
        <5>4. ForIt(sendOutBuf, website.host[1], reqs)
          BY <4>2, <3>2, <1>i
        <5>5. ForIt(sendOutBuf \o <<Head(recvOutBuf)>>, website.host[1], reqs)
          BY <5>3, <5>4, <1>t, ForJoin
        <5> QED BY <5>1, <5>5
      <4> QED BY <3>1, <4>1, <4>2
    <3>5. Busy
      BY <3>1 DEF Busy
    <3> QED BY <3>1, <3>2, <3>4, <3>5, <1>i DEF SendInv
  <2>4. CASE OutRaw
    <3>0. PICK n : n = CopySize(recvOutBuf, out.size)
      OBVIOUS
    <3>1. /\ pc = "procOut" /\ outStep = "RAW" /\ recvOutBuf # <<>> /\ pc' = pc
          /\ UNCHANGED <<reqs, prevHost, owner, webConn, website>> /\ out'.req = out.req
          /\ sendOutBuf' \in {sendOutBuf \o SubSeq(recvOutBuf, 1, n), <<>>}
      BY <2>4, <1>t, <3>0 DEF OutRaw, Unexpected, Out
    <3>2. pc \notin Connecting /\ pc \notin Reached
      BY <3>1 DEF Connecting, Reached
    <3>3. n \in 0..Len(recvOutBuf) /\ n <= out.size /\ \A j \in 1..n : recvOutBuf[j].r = out.req
      <4>1. Len(recvOutBuf) \in Nat /\ out.size \in Nat
        BY <1>t, TokensDef, LenProperties DEF Out
      <4>2. n \in 0..Len(recvOutBuf) /\ n <= out.size
        BY <3>0, <4>1 DEF CopySize
      <4> QED BY <3>1, <4>2, <1>g, TakenMine
    <3>4. webConn => ForIt(sendOutBuf', website.host[1], reqs)
      <4>1. CASE sendOutBuf' = <<>>
        BY <4>1, ForNone
      <4>2. CASE sendOutBuf' = sendOutBuf \o SubSeq(recvOutBuf, 1, n) /\ webConn
        <5>1. out.req \in DOMAIN reqs /\ reqs[out.req].h = website.host[1]
          BY <4>2, <3>1, <1>h, <1>i DEF Busy
        <5>2. ForIt(SubSeq(recvOutBuf, 1, n), website.host[1], reqs) /\ SubSeq(recvOutBuf, 1, n) \in Tokens
          BY <3>3, <5>1, <1>t, ForFirst
        <5>3. ForIt(sendOutBuf, website.host[1], reqs)
          BY <4>2, <3>2, <1>i
        <5>4. ForIt(sendOutBuf \o SubSeq(recvOutBuf, 1, n), website.host[1], reqs)
          BY <5>2, <5>3, <1>t, ForJoin
        <5> QED BY <5>4, <4>2
      <4> QED BY <3>1, <4>1, <4>2
    <3>5. Busy
      BY <3>1 DEF Busy
    <3> QED BY <3>1, <3>2, <3>4, <3>5, <1>i DEF SendInv
  <2>5. CASE OutTunneling
    BY <2>5, <1>t DEF OutTunneling
  <2> QED BY <1>4, <2>w, <2>1, <2>2, <2>3, <2>4, <2>5 DEF ProcessOut
<1>5. CASE ConnectWebsite
  <2>1. CASE \/ LocalAnswer \/ ApiAnswer \/ LocalTls \/ LocalSecure \/ Jump \/ Rdir
    <3>1. /\ pc = "route"
          /\ owner.rdir \in {"killed", "jump", "rdir"} \/ owner.url = Local
      BY <2>1 DEF LocalAnswer, ApiAnswer, LocalTls, LocalSecure, Jump, Rdir, FromFile, FromTls, ToLocal
    <3> QED BY <3>1, <1>h, <1>i DEF Connecting
  <2>2. CASE AwaitLine \/ AwaitLocal \/ AwaitProxy \/ InRedirected
    <3>1. pc \in {"awaitLocal", "awaitProxy", "inRedirected"}
      BY <2>2 DEF AwaitLine, AwaitLocal, AwaitProxy, InRedirected
    <3> QED BY <3>1, <1>h, <1>i, <1>t DEF Connecting
  <2>3. CASE ConnectFlush
    <3>1. pc = "connect" /\ pc' = "route" /\ UNCHANGED <<reqs, sendOutBuf, prevHost, owner, out, outStep>>
      BY <2>3 DEF ConnectFlush
    <3>2. Held
      <4>1. CASE inStep = "DECODE"
        BY <2>3, <4>1, HeldKept DEF ConnectFlush
      <4>2. CASE inStep # "DECODE"
        <5>1. /\ webConn' = (webConn /\ website.open)
              /\ website' = IF webConn /\ website.open THEN [website EXCEPT !.net = <<>>] ELSE Disconnected
          BY <2>3, <4>2 DEF ConnectFlush
        <5> QED BY <5>1, <1>t DEF Held, WebsiteEnd
      <4> QED BY <4>1, <4>2
    <3> QED BY <3>1, <3>2, <1>B DEF Connecting, Reached
  <2>4. CASE ConnectReuse \/ ConnectFail \/ ConnectOpen
    <3>1. /\ pc = "route" /\ owner'.url = owner.url /\ owner'.https = owner.https
          /\ owner'.rdir = owner.rdir /\ owner'.contact = owner.contact
          /\ UNCHANGED <<reqs, out, outStep, sendOutBuf>>
      <4>1. Target = owner.contact
        BY <1>s DEF Target, Straight
      <4> QED BY <2>4, <4>1, <1>t DEF ConnectReuse, ConnectFail, ConnectOpen, ToWebsite, Owner
    <3>2. pc \in Connecting /\ outStep = "DECODE" /\ inStep = "START"
      BY <3>1, <1>g, <1>i DEF Connecting, StartInv
    <3>3. pc' \in Reached /\ pc' \in Connecting /\ pc' # "awaitProxy"
      BY <2>4, <3>2 DEF ConnectReuse, ConnectFail, ConnectOpen, ConnectReturn, Connecting, Reached
    <3>4. webConn' => /\ website'.host = prevHost' /\ website'.host = owner.contact
                      /\ out.method # "CONNECT" => inStep' = "START"
      <4>1. Target = owner.contact
        BY <1>s DEF Target, Straight
      <4>2. CASE ConnectReuse
        BY <4>1, <4>2, <3>2, <1>i DEF ConnectReuse, SameHost
      <4>3. CASE ConnectFail
        BY <4>3 DEF ConnectFail, KeepWebsite
      <4>4. CASE ConnectOpen
        BY <4>1, <4>4, <3>2 DEF ConnectOpen, Disconnected
      <4> QED BY <2>4, <4>2, <4>3, <4>4
    <3>5. ForIt(website'.got, website'.host[1], reqs)
      <4>1. website'.got = <<>> \/ website' = website
        <5>1. CASE ConnectReuse
          BY <5>1 DEF ConnectReuse
        <5>2. CASE ConnectFail
          BY <5>2 DEF ConnectFail, KeepWebsite, Disconnected
        <5>3. CASE ConnectOpen
          <6>1. website' = [Disconnected EXCEPT !.open = TRUE, !.host = Target]
            BY <5>3 DEF ConnectOpen
          <6> QED BY <6>1 DEF Disconnected
        <5> QED BY <2>4, <5>1, <5>2, <5>3
      <4> QED BY <4>1, <1>i, ForNone
    <3> QED BY <3>1, <3>2, <3>3, <3>4, <3>5, <1>i DEF SendInv, Busy
  <2>5. CASE Established \/ ViaProxy \/ Tls \/ Resend
    <3>1. /\ pc \in {"established", "viaProxy", "tls", "resend"}
          /\ UNCHANGED <<reqs, prevHost, owner, out, outStep, inStep>>
      BY <2>5 DEF Established, ViaProxy, Tls, Resend
    <3>2. pc \in Connecting /\ pc \in Reached /\ outStep = "DECODE"
      BY <3>1, <1>i DEF Connecting, Reached
    <3>3. ~NeedsConnect
      BY <3>2, <1>i DEF NeedsConnect
    <3>4. sendOutBuf' = sendOutBuf /\ pc' \in {"viaProxy", "tls", "resend", "outSend"}
      BY <2>5, <3>2, <3>3 DEF Established, ViaProxy, Tls, Resend, ConnectReturn
    <3>5. Held
      BY <2>5, <3>2, <3>3, HeldKept DEF Established, ViaProxy, Tls, Resend
    <3> QED BY <3>1, <3>2, <3>4, <3>5, <1>B DEF Connecting, Reached
  <2> QED BY <1>5, <2>1, <2>2, <2>3, <2>4, <2>5 DEF ConnectWebsite
<1>6. CASE ProcessIn
  <2>1. UNCHANGED <<reqs, sendOutBuf, prevHost, out>> /\ pc = "procIn"
    BY <1>6 DEF ProcessIn, InReturn, InStart, InFirstLine, InGarbage, InHeaders, InDecodeBad,
       InDecode, InChunk, InRaw, InTunneling, InFinish
  <2>2. outStep' \in {"CHUNK", "RAW", "FINISH"} => Busy
    <3>1. CASE InDecode
      BY <3>1, <1>t DEF InDecode, Relay, Busy
    <3>2. CASE InFinish
      BY <3>2 DEF InFinish, EndExchange
    <3>3. CASE \/ InReturn \/ InStart \/ InFirstLine \/ InGarbage \/ InHeaders \/ InDecodeBad
               \/ InChunk \/ InRaw \/ InTunneling
      BY <3>3 DEF InReturn, InStart, InFirstLine, InGarbage, InHeaders, InDecodeBad,
         InChunk, InRaw, InTunneling, Busy
    <3> QED BY <1>6, <3>1, <3>2, <3>3 DEF ProcessIn
  <2>3. Held
    <3>1. CASE InRaw \/ InFinish
      BY <3>1, HeldKept DEF InRaw, InFinish, EndExchange
    <3>2. CASE \/ InReturn \/ InStart \/ InFirstLine \/ InGarbage \/ InHeaders \/ InDecodeBad
               \/ InDecode \/ InChunk \/ InTunneling
      BY <3>2, HeldKept DEF InReturn, InStart, InFirstLine, InGarbage, InHeaders, InDecodeBad,
         InDecode, InChunk, InTunneling
    <3> QED BY <1>6, <3>1, <3>2 DEF ProcessIn
  <2>4. owner'.rdir = "none" /\ pc' \notin Connecting
    <3>1. CASE InDecode
      <4>1. InFilters = {"none"}
        BY <1>s DEF Straight
      <4> QED BY <3>1, <4>1, <1>i, <1>t DEF InDecode, Relay, Owner, Connecting
    <3>2. CASE \/ InReturn \/ InStart \/ InFirstLine \/ InGarbage \/ InHeaders \/ InDecodeBad
               \/ InChunk \/ InRaw \/ InTunneling \/ InFinish
      BY <3>2, <1>i, <1>t DEF InReturn, InStart, InFirstLine, InGarbage, InHeaders, InDecodeBad,
         InChunk, InRaw, InTunneling, InFinish, Connecting, Returns
    <3> QED BY <1>6, <3>1, <3>2 DEF ProcessIn
  <2> QED BY <2>1, <2>2, <2>3, <2>4, <1>A DEF Connecting
<1> QED BY <1>1, <1>2, <1>3, <1>4, <1>5, <1>6 DEF Next, Thread

-----------------------------------------------------------------------------
(* Together.                                                               *)

HostInv == UpInv /\ AsksInv /\ StartInv /\ SendInv

LEMMA HostInit == Init => HostInv
<1> SUFFICES ASSUME Init PROVE HostInv
  OBVIOUS
<1>1. UpInv
  <2>1. /\ browser.net = <<>> /\ browser.queue = <<>> /\ recvOutBuf = <<>> /\ reqs = <<>>
        /\ out.req = 0 /\ outStep = "START"
    BY DEF Init
  <2>2. Up = <<>> /\ Len(Up) = 0 /\ Len(reqs) = 0
    BY <2>1, JoinEmpty, TokensDef DEF Up
  <2>3. InOrder(Up, reqs, browser.open)
    BY <2>2 DEF InOrder
  <2>4. <<>> \in Tokens /\ Rest(<<>>)
    BY <2>1, TokensDef DEF Rest
  <2>5. Stands(Up, 1, <<>>, out.req, Len(reqs), browser.open)
    BY <2>1, <2>2 DEF Stands
  <2> QED BY <2>3, <2>4, <2>5 DEF UpInv
<1>2. AsksInv
  <2>1. reqs = <<>> /\ pc = "outerReceive"
    BY DEF Init
  <2>2. DOMAIN reqs = {} /\ pc \notin Connecting
    BY <2>1 DEF Connecting
  <2> QED BY <2>2 DEF AsksInv
<1>3. StartInv
  BY DEF Init, StartInv
<1>4. SendInv
  <2>1. website.got = <<>> /\ ~webConn /\ owner.rdir = "none" /\ pc = "outerReceive"
    BY DEF Init, Disconnected
  <2> QED BY <2>1, ForNone DEF SendInv, Connecting, Reached
<1> QED BY <1>1, <1>2, <1>3, <1>4 DEF HostInv

LEMMA HostStep == DataInv /\ DataInv' /\ ExchangeInv /\ HostInv /\ [Next]_vars => HostInv'
<1> SUFFICES ASSUME DataInv, DataInv', ExchangeInv, HostInv, [Next]_vars PROVE HostInv'
  OBVIOUS
<1>1. SaidInv /\ RouteInv /\ AccountInv /\ UpInv /\ AsksInv /\ StartInv /\ SendInv
  BY DEF ExchangeInv, HostInv
<1> QED BY <1>1, UpStep, AsksStep, StartStep, SendStep DEF HostInv

\* SentToItsHost, for the same websites, outside tunnels, and when no host is
\* the proxy's own: whatever socket _ConnectWebsite keeps, and whatever the
\* last website left of sendOutBuf, a website gets only requests for it.
THEOREM SentToItsHostHolds ==
  Spec /\ Orderly => [](Local \notin Hosts /\ ~brSecure /\ outStep # "TUNNELING" => SentToItsHost)
<1>1. DataInv /\ HostInv /\ Orderly
        => (Local \notin Hosts /\ ~brSecure /\ outStep # "TUNNELING" => SentToItsHost)
  <2> SUFFICES ASSUME DataInv, HostInv, Orderly, Local \notin Hosts, ~brSecure, outStep # "TUNNELING",
                      OutFilters = {"none"} /\ InFilters = {"none"} /\ ~UseProxy,
                      NEW i \in DOMAIN website.got
               PROVE  reqs[website.got[i].r].h = website.host[1]
    BY DEF SentToItsHost
  <2>1. ForIt(website.got, website.host[1], reqs)
    BY DEF HostInv, SendInv, Guarded, Straight
  <2>2. website.got \in Tokens
    BY UpOK DEF DataInv, WebsiteInv, WebsiteEnd
  <2>3. i \in 1..Len(website.got)
    BY <2>2, TokensDef, LenProperties
  <2> QED BY <2>1, <2>3 DEF ForIt
<1> QED BY DataInit, DataStep, FramingInit, FramingStep, ExchangeInit, ExchangeStep, HostInit, HostStep,
           OrderlyStays, <1>1, PTL DEF Spec

=============================================================================
