--------------------- MODULE RequestManagerStream_proofs ---------------------
(***************************************************************************)
(* What the browser gets can be parsed, whatever the website sends and the *)
(* filters do.                                                             *)
(***************************************************************************)
EXTENDS RequestManagerData_proofs

-----------------------------------------------------------------------------
(* Sequences of tokens in which bodies follow their heads.                 *)

LastHead(s, i) == IsHead(s[i]) /\ \A l \in i+1..Len(s) : ~IsHead(s[l])

\* s ends in the body of response r: chunks, of any number and not ended yet
\* (many), or n more pieces at most, or anything until the end.
BodyOpen(s, r, many, n) ==
  \E i \in 1..Len(s) :
    /\ LastHead(s, i) /\ s[i].k = "rhead" /\ s[i].r = r
    /\ IF many
       THEN s[i].v = "chunk" /\ \A l \in i+1..Len(s) : s[l].k # "end"
       ELSE \/ s[i].v = "eof"
            \/ /\ s[i].v \in {"len1", "len2"}
               /\ n = IF s[i].v = "len1" THEN 1 ELSE 2
               /\ \A l \in i+1..Len(s) : s[l].k # "data"
            \/ /\ s[i].v = "len2" /\ n = 1
               /\ \A l, m \in i+1..Len(s) : s[l].k = "data" /\ s[m].k = "data" => l = m

\* s ends in a tunnel.
TunnelOpen(s) == \E i \in 1..Len(s) : LastHead(s, i) /\ OpensTunnel(s[i])

\* Pieces of a sequence that goes on as before.
LEMMA FramedKept ==
  ASSUME NEW s \in Tokens, NEW t \in Tokens, WellFramed(s), Len(s) <= Len(t),
         \A l \in 1..Len(s) : t[l] = s[l], NEW j \in 1..Len(s), t[j].k \in {"data", "end"}
  PROVE  FramedAt(t, j)
<1>1. Len(s) \in Nat /\ DOMAIN s = 1..Len(s) /\ s[j] = t[j]
  BY TokensDef, LenProperties
<1>2. FramedAt(s, j)
  BY <1>1 DEF WellFramed
<1>3. PICK i \in 1..j-1 :
        /\ IsHead(s[i]) /\ \A l \in i+1..j : ~IsHead(s[l])
        /\ \/ OpensTunnel(s[i])
           \/ s[i].k = "rhead" /\ s[i].r = s[j].r /\ Announced(s, i, j)
  BY <1>2 DEF FramedAt
<1>4. s[i] = t[i] /\ \A l \in i+1..j : s[l] = t[l]
  BY <1>1
<1>5. ASSUME Announced(s, i, j) PROVE Announced(t, i, j)
  <2>1. \A l \in i+1..j-1 : s[l] = t[l]
    BY <1>4
  <2>2. CASE s[i].v = "len2"
    BY <1>1, <1>4, <1>5, <2>1, <2>2 DEF Announced
  <2>3. CASE s[i].v # "len2"
    BY <1>1, <1>4, <1>5, <2>1, <2>3 DEF Announced
  <2> QED BY <2>2, <2>3
<1> QED BY <1>1, <1>3, <1>4, <1>5 DEF FramedAt

\* Heads, or whatever is no piece of a body.
LEMMA HeadFramed ==
  ASSUME NEW s \in Tokens, NEW t \in Tokens, WellFramed(s),
         \A l \in 1..Len(t) : t[l].k \notin {"data", "end"}
  PROVE  WellFramed(s \o t)
<1> DEFINE u == s \o t
<1>1. /\ u \in Tokens /\ Len(u) = Len(s) + Len(t) /\ Len(s) \in Nat /\ Len(t) \in Nat
      /\ DOMAIN u = 1..Len(u)
      /\ \A l \in 1..Len(s) : u[l] = s[l]
      /\ \A l \in Len(s)+1..Len(u) : u[l] = t[l - Len(s)]
  BY TokensDef, ConcatProperties, LenProperties
<1> HIDE DEF u
<1> SUFFICES ASSUME NEW j \in 1..Len(u), u[j].k \in {"data", "end"} PROVE FramedAt(u, j)
  BY <1>1 DEF WellFramed, u
<1>2. j \in 1..Len(s)
  <2>1. ASSUME j > Len(s) PROVE FALSE
    <3>1. j - Len(s) \in 1..Len(t) /\ u[j] = t[j - Len(s)]
      BY <1>1, <2>1
    <3> QED BY <3>1
  <2> QED BY <1>1, <2>1
<1> QED BY <1>1, <1>2, FramedKept

\* What passes through a tunnel, when there is no head in it.
LEMMA TunnelFramed ==
  ASSUME NEW s \in Tokens, NEW t \in Tokens, WellFramed(s), TunnelOpen(s),
         \A l \in 1..Len(t) : ~IsHead(t[l])
  PROVE  WellFramed(s \o t) /\ TunnelOpen(s \o t)
<1> DEFINE u == s \o t
<1>1. /\ u \in Tokens /\ Len(u) = Len(s) + Len(t) /\ Len(s) \in Nat /\ Len(t) \in Nat
      /\ DOMAIN u = 1..Len(u)
      /\ \A l \in 1..Len(s) : u[l] = s[l]
      /\ \A l \in Len(s)+1..Len(u) : u[l] = t[l - Len(s)]
  BY TokensDef, ConcatProperties, LenProperties
<1> HIDE DEF u
<1>2. PICK i \in 1..Len(s) : LastHead(s, i) /\ OpensTunnel(s[i])
  BY DEF TunnelOpen
<1>3. IsHead(u[i]) /\ OpensTunnel(u[i])
  BY <1>1, <1>2 DEF LastHead
<1>4. \A l \in i+1..Len(u) : ~IsHead(u[l])
  <2> SUFFICES ASSUME NEW l \in i+1..Len(u) PROVE ~IsHead(u[l])
    OBVIOUS
  <2>1. CASE l <= Len(s)
    BY <1>1, <1>2, <2>1 DEF LastHead
  <2>2. CASE l > Len(s)
    BY <1>1, <2>2
  <2> QED BY <1>1, <2>1, <2>2
<1>5. WellFramed(u)
  <2> SUFFICES ASSUME NEW j \in 1..Len(u), u[j].k \in {"data", "end"} PROVE FramedAt(u, j)
    BY <1>1 DEF WellFramed
  <2>1. CASE j <= Len(s)
    BY <1>1, <2>1, FramedKept
  <2>2. CASE j > Len(s)
    <3>1. i \in 1..j-1 /\ i+1..j \subseteq i+1..Len(u)
      BY <1>1, <2>2
    <3> QED BY <1>3, <1>4, <3>1 DEF FramedAt
  <2> QED BY <1>1, <2>1, <2>2
<1>6. TunnelOpen(u)
  BY <1>1, <1>3, <1>4 DEF TunnelOpen, LastHead
<1> QED BY <1>5, <1>6 DEF u

\* More pieces of the body, no more of them than are expected.
LEMMA BodyFramed ==
  ASSUME NEW s \in Tokens, NEW t \in Tokens, WellFramed(s),
         NEW r, NEW many \in BOOLEAN, NEW n \in Nat, BodyOpen(s, r, many, n),
         \A l \in 1..Len(t) : t[l].k = "data" /\ t[l].r = r,
         many \/ Len(t) <= n
  PROVE  /\ WellFramed(s \o t)
         /\ many => \A m : BodyOpen(s \o t, r, many, m)
         /\ Len(t) < n => BodyOpen(s \o t, r, many, n - Len(t))
         /\ n = Unlimited => BodyOpen(s \o t, r, many, n)
<1> DEFINE u == s \o t
<1>1. /\ u \in Tokens /\ Len(u) = Len(s) + Len(t) /\ Len(s) \in Nat /\ Len(t) \in Nat
      /\ DOMAIN u = 1..Len(u)
      /\ \A l \in 1..Len(s) : u[l] = s[l]
      /\ \A l \in Len(s)+1..Len(u) : u[l] = t[l - Len(s)]
  BY TokensDef, ConcatProperties, LenProperties
<1> HIDE DEF u
<1>2. \A l \in Len(s)+1..Len(u) : u[l].k = "data" /\ u[l].r = r /\ ~IsHead(u[l])
  <2> SUFFICES ASSUME NEW l \in Len(s)+1..Len(u)
               PROVE  u[l].k = "data" /\ u[l].r = r /\ ~IsHead(u[l])
    OBVIOUS
  <2>1. u[l] = t[l - Len(s)] /\ l - Len(s) \in 1..Len(t)
    BY <1>1
  <2> QED BY <2>1 DEF IsHead
<1>3. PICK i \in 1..Len(s) :
    /\ LastHead(s, i) /\ s[i].k = "rhead" /\ s[i].r = r
    /\ IF many
       THEN s[i].v = "chunk" /\ \A l \in i+1..Len(s) : s[l].k # "end"
       ELSE \/ s[i].v = "eof"
            \/ /\ s[i].v \in {"len1", "len2"}
               /\ n = IF s[i].v = "len1" THEN 1 ELSE 2
               /\ \A l \in i+1..Len(s) : s[l].k # "data"
            \/ /\ s[i].v = "len2" /\ n = 1
               /\ \A l, m \in i+1..Len(s) : s[l].k = "data" /\ s[m].k = "data" => l = m
  BY DEF BodyOpen
<1>4. i \in 1..Len(u) /\ u[i] = s[i] /\ IsHead(u[i])
  BY <1>1, <1>3 DEF LastHead
<1>5. \A l \in i+1..Len(s) : u[l] = s[l] /\ ~IsHead(u[l])
  BY <1>1, <1>3 DEF LastHead
<1>6. \A l \in i+1..Len(u) : ~IsHead(u[l]) /\ (l \in i+1..Len(s) \/ l \in Len(s)+1..Len(u))
  <2>1. \A l \in i+1..Len(u) : l \in i+1..Len(s) \/ l \in Len(s)+1..Len(u)
    BY <1>1
  <2> QED BY <1>2, <1>5, <2>1
<1>7. ASSUME NEW j \in Len(s)+1..Len(u) PROVE FramedAt(u, j)
  <2>1. i \in 1..j-1 /\ u[j].k = "data" /\ u[j].r = r
    BY <1>1, <1>2
  <2>2. \A l \in i+1..j-1 : l \in i+1..Len(s) \/ l \in Len(s)+1..j-1
    BY <1>1
  <2>3. Announced(u, i, j)
    <3>1. CASE many
      <4>1. \A l \in i+1..j-1 : u[l].k # "end"
        BY <1>1, <1>2, <1>3, <1>5, <2>2, <3>1
      <4> QED BY <1>3, <1>4, <3>1, <4>1 DEF Announced
    <3>2. CASE ~many /\ s[i].v = "eof"
      BY <1>4, <2>1, <3>2 DEF Announced
    <3>3. CASE ~many /\ s[i].v = "len1"
      <4>1. j = Len(s) + 1
        BY <1>1, <1>3, <3>3
      <4>2. \A l \in i+1..j-1 : u[l].k # "data"
        BY <1>1, <1>3, <1>5, <2>2, <3>3, <4>1
      <4> QED BY <1>4, <2>1, <3>3, <4>2 DEF Announced
    <3>4. CASE ~many /\ s[i].v = "len2" /\ n = 2
      <4>1. Len(s)+1..j-1 \subseteq {Len(s) + 1}
        BY <1>1, <3>4
      <4>2. \A l \in i+1..Len(s) : u[l].k # "data"
        BY <1>3, <1>5, <3>4
      <4>3. \A l, m \in i+1..j-1 : u[l].k = "data" /\ u[m].k = "data" => l = m
        BY <2>2, <4>1, <4>2
      <4> QED BY <1>4, <2>1, <3>4, <4>3 DEF Announced
    <3>5. CASE ~many /\ s[i].v = "len2" /\ n # 2
      <4>1. n = 1 /\ j = Len(s) + 1
        BY <1>1, <1>3, <3>5
      <4>2. \A l, m \in i+1..j-1 : u[l].k = "data" /\ u[m].k = "data" => l = m
        BY <1>1, <1>3, <1>5, <3>5, <4>1
      <4> QED BY <1>4, <2>1, <3>5, <4>2 DEF Announced
    <3> QED BY <1>3, <3>1, <3>2, <3>3, <3>4, <3>5
  <2>4. \A l \in i+1..j : ~IsHead(u[l])
    BY <1>6
  <2>5. u[i].k = "rhead" /\ u[i].r = u[j].r
    BY <1>3, <1>4, <2>1
  <2> QED BY <1>4, <2>1, <2>3, <2>4, <2>5 DEF FramedAt
<1>8. WellFramed(u)
  <2> SUFFICES ASSUME NEW j \in 1..Len(u), u[j].k \in {"data", "end"} PROVE FramedAt(u, j)
    BY <1>1 DEF WellFramed
  <2>1. CASE j \in 1..Len(s)
    BY <1>1, <2>1, FramedKept
  <2>2. CASE j \in Len(s)+1..Len(u)
    BY <1>7, <2>2
  <2> QED BY <1>1, <2>1, <2>2
<1>9. LastHead(u, i) /\ u[i].k = "rhead" /\ u[i].r = r /\ u[i].v = s[i].v
  BY <1>3, <1>4, <1>6 DEF LastHead
<1>10. ASSUME many, NEW m PROVE BodyOpen(u, r, many, m)
  <2>1. \A l \in i+1..Len(u) : u[l].k # "end"
    BY <1>2, <1>3, <1>5, <1>6, <1>10
  <2> QED BY <1>3, <1>4, <1>9, <1>10, <2>1 DEF BodyOpen
<1>11. ASSUME ~many, s[i].v = "eof", NEW m PROVE BodyOpen(u, r, many, m)
  BY <1>4, <1>9, <1>11 DEF BodyOpen
<1>12. ASSUME Len(t) < n PROVE BodyOpen(u, r, many, n - Len(t))
  <2>1. CASE many \/ s[i].v = "eof"
    BY <1>10, <1>11, <2>1
  <2>2. CASE ~many /\ s[i].v # "eof" /\ Len(t) = 0
    <3>1. Len(u) = Len(s) /\ n - Len(t) = n
      BY <1>1, <2>2
    <3> QED BY <1>3, <1>4, <1>5, <1>9, <2>2, <3>1 DEF BodyOpen
  <2>3. CASE ~many /\ s[i].v # "eof" /\ Len(t) # 0
    <3>0. n > 1
      BY <1>1, <1>12, <2>3
    <3>1. n = 2 /\ Len(t) = 1 /\ s[i].v = "len2" /\ \A l \in i+1..Len(s) : s[l].k # "data"
      <4>1. /\ s[i].v \in {"len1", "len2"} /\ n = IF s[i].v = "len1" THEN 1 ELSE 2
            /\ \A l \in i+1..Len(s) : s[l].k # "data"
        BY <1>3, <2>3, <3>0
      <4>2. n = 2 /\ s[i].v = "len2"
        BY <3>0, <4>1
      <4>3. Len(t) = 1
        <5>1. Len(t) \in Nat /\ Len(t) # 0 /\ Len(t) < 2
          BY <1>1, <1>12, <2>3, <4>2
        <5>2. \A k \in Nat : k # 0 /\ k < 2 => k = 1
          OBVIOUS
        <5> QED BY <5>1, <5>2, Zenon
      <4> QED BY <4>1, <4>2, <4>3
    <3>2. Len(s)+1..Len(u) \subseteq {Len(s) + 1}
      BY <1>1, <3>1
    <3>3. \A l, m \in i+1..Len(u) : u[l].k = "data" /\ u[m].k = "data" => l = m
      BY <1>5, <1>6, <3>1, <3>2
    <3> QED BY <1>4, <1>9, <2>3, <3>1, <3>3 DEF BodyOpen
  <2> QED BY <2>1, <2>2, <2>3
<1>13. ASSUME n = Unlimited PROVE BodyOpen(u, r, many, n)
  <2>1. many \/ s[i].v = "eof"
    BY <1>3, <1>13 DEF Unlimited
  <2> QED BY <1>10, <1>11, <2>1
<1> QED BY <1>8, <1>10, <1>12, <1>13 DEF u

\* The zero-length chunk.
LEMMA EndFramed ==
  ASSUME NEW s \in Tokens, WellFramed(s), NEW r \in Nat, NEW n, BodyOpen(s, r, TRUE, n)
  PROVE  WellFramed(Append(s, Tok("end", r, "-")))
<1> DEFINE e == Tok("end", r, "-")
           t == Append(s, e)
<1>0. e \in Token /\ e.k = "end" /\ e.r = r /\ ~IsHead(e)
  BY DEF Tok, Token, Kinds, Values, IsHead
<1>1. /\ t \in Tokens /\ Len(t) = Len(s) + 1 /\ Len(s) \in Nat /\ DOMAIN t = 1..Len(t)
      /\ \A l \in 1..Len(s) : t[l] = s[l]
      /\ t[Len(t)] = e
  <2> HIDE DEF e
  <2> QED BY <1>0, TokensDef, AppendProperties, LenProperties
<1> HIDE DEF e, t
<1>2. PICK i \in 1..Len(s) : /\ LastHead(s, i) /\ s[i].k = "rhead" /\ s[i].r = r
                             /\ s[i].v = "chunk" /\ \A l \in i+1..Len(s) : s[l].k # "end"
  BY DEF BodyOpen
<1>3. FramedAt(t, Len(t))
  <2>1. i \in 1..Len(t)-1 /\ t[i] = s[i]
    BY <1>1
  <2>2. \A l \in i+1..Len(t) : ~IsHead(t[l])
    BY <1>0, <1>1, <1>2 DEF LastHead
  <2>3. Announced(t, i, Len(t))
    BY <1>1, <1>2, <2>1 DEF Announced
  <2> QED BY <1>0, <1>1, <1>2, <2>1, <2>2, <2>3 DEF FramedAt, LastHead
<1> SUFFICES ASSUME NEW j \in 1..Len(t), t[j].k \in {"data", "end"} PROVE FramedAt(t, j)
  BY <1>1 DEF WellFramed, t, e
<1>4. CASE j \in 1..Len(s)
  BY <1>1, <1>4, FramedKept
<1> QED BY <1>1, <1>3, <1>4

\* Pieces that are counted and thrown away.
LEMMA BodySkipped ==
  ASSUME NEW s \in Tokens, NEW r, NEW many \in BOOLEAN, NEW n \in Nat, NEW k \in 1..n-1,
         BodyOpen(s, r, many, n)
  PROVE  BodyOpen(s, r, many, n - k)
<1>1. PICK i \in 1..Len(s) :
    /\ LastHead(s, i) /\ s[i].k = "rhead" /\ s[i].r = r
    /\ IF many
       THEN s[i].v = "chunk" /\ \A l \in i+1..Len(s) : s[l].k # "end"
       ELSE \/ s[i].v = "eof"
            \/ /\ s[i].v \in {"len1", "len2"}
               /\ n = IF s[i].v = "len1" THEN 1 ELSE 2
               /\ \A l \in i+1..Len(s) : s[l].k # "data"
            \/ /\ s[i].v = "len2" /\ n = 1
               /\ \A l, m \in i+1..Len(s) : s[l].k = "data" /\ s[m].k = "data" => l = m
  BY DEF BodyOpen
<1>2. CASE many \/ s[i].v = "eof"
  BY <1>1, <1>2 DEF BodyOpen
<1>3. CASE ~many /\ s[i].v # "eof"
  <2>1. n = 2 /\ k = 1 /\ s[i].v = "len2" /\ \A l \in i+1..Len(s) : s[l].k # "data"
    BY <1>1, <1>3
  <2>2. n - k = 1
    BY <2>1
  <2> QED BY <1>1, <1>3, <2>1, <2>2 DEF BodyOpen
<1> QED BY <1>2, <1>3

\* A head in the last place.
LEMMA HeadLast ==
  ASSUME NEW s \in Tokens, NEW h \in Token, IsHead(h)
  PROVE  \E i \in 1..Len(s \o <<h>>) :
           /\ LastHead(s \o <<h>>, i) /\ (s \o <<h>>)[i] = h
           /\ i + 1 .. Len(s \o <<h>>) = {}
<1> DEFINE u == s \o <<h>>
<1>1. Len(u) = Len(s) + 1 /\ Len(s) \in Nat /\ u[Len(u)] = h
  BY TokensDef, AppendIsConcat, AppendProperties, LenProperties
<1> HIDE DEF u
<1>2. Len(u) \in 1..Len(u) /\ Len(u) + 1 .. Len(u) = {}
  BY <1>1
<1> QED BY <1>1, <1>2 DEF LastHead, u

-----------------------------------------------------------------------------
(* What comes from a website holds no head for the browser.                *)

Plain == {t \in Token : ~IsHead(t)}

SourceInv ==
  recvInBuf \in Seq(Plain) /\ website.net \in Seq(Plain) /\ website.queue \in Seq(Plain)

LEMMA PlainOK ==
  ASSUME NEW k \in Kinds \ {"rhead", "fake", "est"}, NEW r \in Nat, NEW v \in Values
  PROVE  Tok(k, r, v) \in Plain
<1>1. Tok(k, r, v) \in Token /\ Tok(k, r, v).k = k
  BY TokenOK DEF Tok
<1> QED BY <1>1 DEF Plain, IsHead

LEMMA PlainBody ==
  ASSUME NEW r \in Nat, NEW frame PROVE BodyOf(r, frame) \in Seq(Plain)
<1> DEFINE d == Tok("data", r, "-")
           z == Tok("size", r, "-")
           e == Tok("last", r, "-")
<1>1. {"data", "size", "last"} \subseteq Kinds /\ "-" \in Values
  BY DEF Kinds, Values
<1>2. d \in Plain /\ z \in Plain /\ e \in Plain
  BY <1>1, PlainOK
<1>3. BodyOf(r, frame) \in {<<d>>, <<d, d>>, <<z, d, e>>, <<>>}
  BY DEF BodyOf
<1> HIDE DEF d, z, e
<1>4. <<d>> \in Seq(Plain) /\ <<d, d>> \in Seq(Plain) /\ <<z, d, e>> \in Seq(Plain) /\ <<>> \in Seq(Plain)
  BY <1>2
<1> QED BY <1>3, <1>4

LEMMA PlainPieces ==
  ASSUME NEW said \in Nat, NEW n \in Nat PROVE PiecesFrom(said, n) \in Seq(Plain)
<1>1. "tun" \in Kinds \ {"rhead", "fake", "est"} /\ "-" \in Values
  BY DEF Kinds, Values
<1>2. ASSUME NEW i \in 1..n PROVE Tok("tun", said + i, "-") \in Plain
  <2>1. said + i \in Nat
    OBVIOUS
  <2> QED BY <1>1, <2>1, PlainOK
<1> QED BY <1>2 DEF PiecesFrom

LEMMA SourceEnvironment ==
  ASSUME DataInv, SourceInv, Environment
  PROVE  SourceInv'
<1>w. website \in WebsiteEnd /\ \A r \in Pending : r \in Nat
  BY DEF DataInv, WebsiteInv, WebsiteEnd, Pending
<1>s. recvInBuf' = recvInBuf
  BY EnvironmentLeavesThread DEF threadVars, inBufs
<1>k. /\ {"tun", "rline", "rhdr", "rhdrClose", "data"} \subseteq Kinds
      /\ {"-", "none", "408"} \subseteq Values
  BY DEF Kinds, Values, Codes, Frames
<1>q. ASSUME NEW q \in Seq(Plain), website'.queue = q, website'.net = website.net PROVE SourceInv'
  BY <1>s, <1>q DEF SourceInv
<1>1. CASE WebsiteAnswer
  <2>1. PICK r \in Pending, a \in Responses :
          \E n \in (IF a.code = "101" THEN 0..MaxPieces ELSE {0}) :
            website' = [website EXCEPT
              !.todo = @ \ {r}, !.ending = a.close \/ a.frame = "eof", !.said = @ + n,
              !.queue = <<Tok("rline", r, a.code),
                          Tok(IF a.close THEN "rhdrClose" ELSE "rhdr", r, a.frame)>>
                        \o (IF reqs[r].m = "HEAD" THEN <<>> ELSE BodyOf(r, a.frame))
                        \o PiecesFrom(website.said, n)]
    BY <1>1 DEF WebsiteAnswer
  <2> DEFINE l == Tok("rline", r, a.code)
             h == Tok(IF a.close THEN "rhdrClose" ELSE "rhdr", r, a.frame)
             b == IF reqs[r].m = "HEAD" THEN <<>> ELSE BodyOf(r, a.frame)
  <2>2. a.code \in Values /\ a.frame \in Values
    BY SettingOK DEF DataInv, PeerInv, Values
  <2>3. (IF a.close THEN "rhdrClose" ELSE "rhdr") \in Kinds \ {"rhead", "fake", "est"}
    BY <1>k
  <2>4. l \in Plain /\ h \in Plain
    BY <1>k, <1>w, <2>2, <2>3, PlainOK
  <2>5. b \in Seq(Plain)
    BY <1>w, PlainBody
  <2>6. PICK n \in 0..MaxPieces :
          /\ website'.queue = <<l, h>> \o b \o PiecesFrom(website.said, n)
          /\ website'.net = website.net
    <3>1. PICK n \in (IF a.code = "101" THEN 0..MaxPieces ELSE {0}) :
            website' = [website EXCEPT
              !.todo = @ \ {r}, !.ending = a.close \/ a.frame = "eof", !.said = @ + n,
              !.queue = <<l, h>> \o b \o PiecesFrom(website.said, n)]
      BY <2>1
    <3>2. n \in 0..MaxPieces
      BY <3>1 DEF MaxPieces
    <3> HIDE DEF l, h, b
    <3> QED BY <3>1, <3>2, <1>w DEF WebsiteEnd
  <2> HIDE DEF l, h, b
  <2>7. <<l, h>> \in Seq(Plain)
    BY <2>4
  <2>8. PiecesFrom(website.said, n) \in Seq(Plain)
    <3>1. n \in Nat /\ website.said \in Nat
      BY <1>w DEF WebsiteEnd
    <3> QED BY <3>1, PlainPieces
  <2> DEFINE q == <<l, h>> \o b \o PiecesFrom(website.said, n)
  <2>9. q \in Seq(Plain)
    BY <2>5, <2>7, <2>8, ConcatProperties
  <2>10. website'.queue = q
    BY <2>6
  <2> HIDE DEF q
  <2> QED BY <2>6, <2>9, <2>10, <1>q
<1>7. CASE WebsiteTunnel
  <2> DEFINE q == website.queue \o PiecesFrom(website.said, 1)
  <2>1. website'.queue = q /\ website'.net = website.net
    BY <1>7, <1>w DEF WebsiteTunnel, WebsiteEnd
  <2>2. PiecesFrom(website.said, 1) \in Seq(Plain)
    BY <1>w, PlainPieces DEF WebsiteEnd
  <2>3. q \in Seq(Plain)
    BY <2>2, ConcatProperties DEF SourceInv
  <2> HIDE DEF q
  <2> QED BY <2>1, <2>3, <1>q
<1>2. CASE WebsiteInterim
  <2>1. PICK r \in Pending, c \in Interims :
          website' = [website EXCEPT !.hinted = r,
                        !.queue = <<Tok("rline", r, c), Tok("rhdr", r, "none")>>]
    BY <1>2 DEF WebsiteInterim
  <2> DEFINE l == Tok("rline", r, c)
             h == Tok("rhdr", r, "none")
  <2>2. c \in Values
    BY SettingOK DEF DataInv, PeerInv, Values
  <2>3. l \in Plain /\ h \in Plain
    BY <1>k, <1>w, <2>2, PlainOK
  <2>4. website'.queue = <<l, h>> /\ website'.net = website.net
    BY <2>1, <1>w DEF WebsiteEnd
  <2> HIDE DEF l, h
  <2>5. <<l, h>> \in Seq(Plain)
    BY <2>3
  <2> QED BY <2>4, <2>5, <1>q
<1>3. CASE WebsiteStray
  <2> DEFINE l == Tok("rline", 0, "408")
             h == Tok("rhdrClose", 0, "none")
             d == Tok("data", 0, "-")
  <2>1. l \in Plain /\ h \in Plain /\ d \in Plain
    BY <1>k, PlainOK
  <2>2. website'.queue \in {<<l, h>>, <<d>>} /\ website'.net = website.net
    BY <1>3, <1>w DEF WebsiteStray, WebsiteEnd
  <2> HIDE DEF l, h, d
  <2>3. <<l, h>> \in Seq(Plain) /\ <<d>> \in Seq(Plain)
    BY <2>1
  <2> QED BY <2>2, <2>3, <1>q
<1>4. CASE WebsiteSend
  <2>1. /\ website.queue # <<>>
        /\ website'.queue = Tail(website.queue)
        /\ website'.net = Append(website.net, Head(website.queue))
    BY <1>4, <1>w DEF WebsiteSend, WebsiteEnd
  <2>2. Head(website.queue) \in Plain /\ Tail(website.queue) \in Seq(Plain)
    BY <2>1, HeadTailProperties DEF SourceInv
  <2>3. Append(website.net, Head(website.queue)) \in Seq(Plain)
    BY <2>2, AppendProperties DEF SourceInv
  <2> QED BY <1>s, <2>1, <2>2, <2>3 DEF SourceInv
<1>5. CASE WebsiteClose
  <2>1. website'.queue = <<>> /\ website'.net = website.net
    BY <1>5, <1>w DEF WebsiteClose, WebsiteEnd
  <2>2. <<>> \in Seq(Plain)
    OBVIOUS
  <2> QED BY <2>1, <2>2, <1>q
<1>6. CASE \/ BrowserRequest \/ BrowserTunnel \/ BrowserSend \/ BrowserClose
           \/ Stall \/ IdleExpire \/ SwitchToInvalid
  <2>1. website' = website
    BY <1>6 DEF BrowserRequest, BrowserTunnel, BrowserSend, BrowserClose, Stall, IdleExpire,
        SwitchToInvalid
  <2> QED BY <1>s, <2>1 DEF SourceInv
<1> QED BY <1>1, <1>2, <1>3, <1>4, <1>5, <1>6, <1>7 DEF Environment

\* The thread reads, cuts pieces off, opens and closes connections.
LEMMA SourceThread ==
  ASSUME DataInv, SourceInv, Thread
  PROVE  SourceInv'
<1>w. website \in WebsiteEnd /\ recvInBuf \in Tokens /\ recvInBuf \in Seq(Plain)
  BY DEF DataInv, WebsiteInv, ResponseInv, SourceInv
<1>e. <<>> \in Seq(Plain)
  OBVIOUS
<1>d. website' = Disconnected => website'.net \in Seq(Plain) /\ website'.queue \in Seq(Plain)
  BY <1>e DEF Disconnected
<1>k. KeepWebsite(FALSE) => website' = Disconnected
  BY DEF KeepWebsite
<1>n. website' = [website EXCEPT !.net = <<>>]
        => website'.net \in Seq(Plain) /\ website'.queue \in Seq(Plain)
  BY <1>w, <1>e DEF SourceInv, WebsiteEnd
<1>o. ASSUME NEW buf, SendOut(buf)
      PROVE  website'.net \in Seq(Plain) /\ website'.queue \in Seq(Plain)
  <2>1. \/ website' = website \/ website' = Disconnected
        \/ website' = [website EXCEPT !.got = @ \o buf, !.todo = @ \cup HeadsOf(buf)]
    BY <1>o DEF SendOut, KeepWebsite
  <2>2. website' # Disconnected => website'.net = website.net /\ website'.queue = website.queue
    BY <2>1, <1>w DEF WebsiteEnd
  <2> QED BY <1>d, <2>2 DEF SourceInv
<1>t. recvInBuf # <<>> => Tail(recvInBuf) \in Seq(Plain)
  BY <1>w, HeadTailProperties
<1> SUFFICES /\ recvInBuf' \in Seq(Plain)
             /\ \/ website' \in {website, Disconnected, [website EXCEPT !.net = <<>>]}
                \/ website'.net \in Seq(Plain) /\ website'.queue \in Seq(Plain)
  BY <1>d, <1>n DEF SourceInv
<1> USE DEF inBufs
<1>1. CASE ManageLoop
  <2>1. CASE InnerReceiveIn \/ TrailReceive
    <3>1. ReceiveIn
      BY <2>1 DEF InnerReceiveIn, TrailReceive
    <3>2. recvInBuf \o website.net \in Seq(Plain)
      BY ConcatProperties DEF SourceInv
    <3> QED BY <3>1, <3>2 DEF ReceiveIn
  <2>2. CASE InnerSendOut
    BY <2>2, <1>o, <1>w DEF InnerSendOut
  <2>3. CASE InnerEnd \/ OuterEnd
    BY <2>3, <1>w DEF InnerEnd, OuterEnd, JudgeIf, Judge, KeepWebsite
  <2>4. CASE \/ OuterReceive \/ OuterSend \/ InnerSendIn \/ InnerReceiveOut \/ TrailFeed \/ TrailSend
             \/ Trail503
    BY <2>4, <1>w DEF OuterReceive, OuterSend, InnerSendIn, InnerReceiveOut, TrailFeed, TrailSend,
        Trail503
  <2>5. CASE Destroy
    BY <2>5, <1>w, <1>k DEF Destroy
  <2> QED BY <1>1, <2>1, <2>2, <2>3, <2>4, <2>5 DEF ManageLoop
<1>2. CASE ProcessOut
  <2>1. CASE OutFinish
    BY <2>1, <1>w DEF OutFinish, EndExchange, KeepWebsite
  <2>2. CASE \/ OutReturn \/ OutStart \/ OutFirstLine \/ OutHeaders \/ OutDecodeBad \/ OutDecode \/ OutSend
             \/ OutChunk \/ OutRaw \/ OutTunneling
    BY <2>2, <1>w DEF OutReturn, OutStart, OutFirstLine, OutHeaders, OutDecodeBad, OutDecode, OutSend,
        OutChunk, OutRaw, OutTunneling
  <2> QED BY <1>2, <2>1, <2>2 DEF ProcessOut
<1>3. CASE ConnectWebsite
  <2>1. CASE ConnectFlush
    BY <2>1, <1>e DEF ConnectFlush, KeepWebsite
  <2>2. CASE ConnectOpen
    <3>1. website'.net = <<>> /\ website'.queue = <<>>
      BY <2>2 DEF ConnectOpen, Disconnected
    <3> QED BY <2>2, <3>1, <1>w, <1>e DEF ConnectOpen
  <2>3. CASE ConnectFail
    BY <2>3, <1>w, <1>k DEF ConnectFail
  <2>4. CASE ViaProxy
    <3>1. website' = website \/ SendOut(<<Tok("connect", out.req, "-")>>)
      BY <2>4 DEF ViaProxy
    <3>2. recvInBuf' = recvInBuf
      BY <2>4 DEF ViaProxy
    <3> QED BY <3>1, <3>2, <1>o, <1>w
  <2>5. CASE Resend
    <3>1. website' = website \/ SendOut(<<Tok("qhead", out.req, "simple")>>)
      BY <2>5 DEF Resend
    <3>2. recvInBuf' = recvInBuf
      BY <2>5 DEF Resend
    <3> QED BY <3>1, <3>2, <1>o, <1>w
  <2>6. CASE AwaitProxy
    BY <2>6, <1>e DEF AwaitProxy, KeepWebsite
  <2>7. CASE Tls
    BY <2>7, <1>w DEF Tls, KeepWebsite
  <2>8. CASE \/ LocalAnswer \/ ApiAnswer \/ LocalTls \/ AwaitLine \/ AwaitLocal \/ LocalSecure \/ Jump \/ Rdir
             \/ ConnectReuse \/ Established \/ InRedirected
    BY <2>8, <1>w DEF LocalAnswer, ApiAnswer, LocalTls, AwaitLine, AwaitLocal, LocalSecure, SecurePage, Jump, Rdir,
        ConnectReuse, Established, InRedirected
  <2> QED BY <1>3, <2>1, <2>2, <2>3, <2>4, <2>5, <2>6, <2>7, <2>8 DEF ConnectWebsite
<1>4. CASE ProcessIn
  <2>1. CASE InFirstLine \/ InHeaders \/ InChunk
    <3>1. recvInBuf' = Tail(recvInBuf) /\ recvInBuf # <<>> /\ website' = website
      BY <2>1 DEF InFirstLine, InHeaders, InChunk, NextIs
    <3> QED BY <3>1, <1>t
  <2>2. CASE InRaw
    <3> DEFINE n == CopySize(recvInBuf, in.size)
    <3>1. /\ recvInBuf' = SubSeq(recvInBuf, n + 1, Len(recvInBuf))
          /\ website' = website \/ KeepWebsite(FALSE)
      BY <2>2 DEF InRaw
    <3>2. n \in 0..Len(recvInBuf)
      <4>1. Len(recvInBuf) \in Nat /\ in.size \in Nat
        BY <1>w, TokensDef, LenProperties DEF DataInv, ResponseInv, In
      <4> QED BY <4>1 DEF CopySize
    <3> HIDE DEF n
    <3>3. SubSeq(recvInBuf, n + 1, Len(recvInBuf)) \in Seq(Plain)
      BY <1>w, <3>2, CutType
    <3> QED BY <3>1, <3>3, <1>k
  <2>3. CASE InDecode
    BY <2>3, <1>w DEF InDecode
  <2>4. CASE InFinish
    BY <2>4, <1>w DEF InFinish, EndExchange, KeepWebsite
  <2>5. CASE InReturn \/ InStart \/ InGarbage \/ InDecodeBad \/ InTunneling
    BY <2>5, <1>w, <1>e DEF InReturn, InStart, InGarbage, InDecodeBad, InTunneling
  <2> QED BY <1>4, <2>1, <2>2, <2>3, <2>4, <2>5 DEF ProcessIn
<1> QED BY <1>1, <1>2, <1>3, <1>4 DEF Thread

-----------------------------------------------------------------------------
(* Who called _ProcessIn; what is known of the response in hand.           *)

InReturns == {"innerSendIn", "trailFeed", "trailSend"}
Routing   == Connecting \ {"outSend"}

\* _ProcessIn runs, or _ConnectWebsite on its behalf.
PathInv == pc = "procIn" \/ (pc \in Routing /\ outStep # "DECODE") => ret \in InReturns

LEMMA PathStep == DataInv /\ PathInv /\ [Next]_vars => PathInv'
<1> SUFFICES ASSUME DataInv, PathInv, [Next]_vars PROVE PathInv'
  OBVIOUS
<1>r. ret \in Returns /\ (pc = "inRedirected" => outStep # "DECODE")
  BY DEF DataInv, CountInv, ConnectsInv
<1> USE DEF PathInv, Routing, Connecting, InReturns, Returns, stepVars
<1>1. CASE UNCHANGED vars \/ Terminated
  BY <1>1 DEF vars, Terminated
<1>2. CASE Environment
  BY <1>2, EnvironmentLeavesThread DEF threadVars
<1>3. CASE ManageLoop
  <2>1. CASE OuterReceive \/ OuterSend \/ InnerSendOut \/ InnerReceiveIn \/ InnerSendIn
    BY <2>1 DEF OuterReceive, OuterSend, InnerSendOut, InnerReceiveIn, InnerSendIn
  <2>2. CASE InnerReceiveOut \/ InnerEnd \/ TrailReceive \/ TrailFeed \/ TrailSend \/ Trail503
    BY <2>2 DEF InnerReceiveOut, InnerEnd, TrailReceive, TrailFeed, TrailSend, Trail503
  <2>3. CASE OuterEnd \/ Destroy
    BY <2>3 DEF OuterEnd, Destroy
  <2> QED BY <1>3, <2>1, <2>2, <2>3 DEF ManageLoop
<1>4. CASE ProcessOut
  <2>1. CASE OutDecodeBad \/ OutDecode
    BY <2>1 DEF OutDecodeBad, OutDecode
  <2>2. CASE \/ OutReturn \/ OutStart \/ OutFirstLine \/ OutHeaders \/ OutSend
             \/ OutChunk \/ OutRaw \/ OutTunneling
    BY <2>2, <1>r DEF OutReturn, OutStart, OutFirstLine, OutHeaders, OutSend,
        OutChunk, OutRaw, OutTunneling
  <2>3. CASE OutFinish
    BY <2>3 DEF OutFinish
  <2> QED BY <1>4, <2>1, <2>2, <2>3 DEF ProcessOut
<1>5. CASE ConnectWebsite
  <2> USE DEF ConnectReturn
  <2>1. CASE ConnectFlush \/ LocalAnswer \/ ApiAnswer \/ LocalTls \/ AwaitLine \/ AwaitLocal \/ LocalSecure
    BY <2>1 DEF ConnectFlush, LocalAnswer, ApiAnswer, LocalTls, AwaitLine, AwaitLocal, LocalSecure, SecurePage
  <2>2. CASE Jump \/ Rdir \/ ConnectReuse \/ ConnectFail
    BY <2>2 DEF Jump, Rdir, ConnectReuse, ConnectFail, ToWebsite
  <2>3. CASE ConnectOpen
    BY <2>3 DEF ConnectOpen, ToWebsite
  <2>4. CASE Established \/ ViaProxy \/ AwaitProxy \/ Tls \/ Resend \/ InRedirected
    BY <2>4, <1>r DEF Established, ViaProxy, AwaitProxy, Tls, Resend, InRedirected
  <2> QED BY <1>5, <2>1, <2>2, <2>3, <2>4 DEF ConnectWebsite
<1>6. CASE ProcessIn
  <2>1. /\ pc = "procIn" /\ ret' = ret /\ ret \in InReturns
    BY <1>6 DEF ProcessIn, InReturn, InStart, InFirstLine, InGarbage, InHeaders, InDecodeBad, InDecode,
        InChunk, InRaw, InTunneling, InFinish
  <2> QED BY <2>1
<1> QED BY <1>1, <1>2, <1>3, <1>4, <1>5, <1>6 DEF Next, Thread

\* Until its headers are read a response is not chunked; in STEP_CHUNK it is.
ChunkedInv ==
  /\ inStep = "HEADERS" \/ (inStep = "DECODE" /\ pc # "connect") => ~in.chunked
  /\ inStep = "CHUNK" => in.chunked

LEMMA ChunkedKept ==
  ASSUME ChunkedInv, in'.chunked = in.chunked, pc # "connect",
         inStep' = inStep \/ inStep' \notin {"HEADERS", "DECODE", "CHUNK"}
  PROVE  ChunkedInv'
BY DEF ChunkedInv

LEMMA ChunkedStep == DataInv /\ ChunkedInv /\ [Next]_vars => ChunkedInv'
<1> SUFFICES ASSUME DataInv, ChunkedInv, [Next]_vars PROVE ChunkedInv'
  OBVIOUS
<1>i. in \in In /\ in.chunked \in BOOLEAN
  BY DEF DataInv, ResponseInv, In
<1> USE DEF stepVars, dataVars
<1>1. CASE UNCHANGED vars \/ Terminated
  <2>1. UNCHANGED <<inStep, pc, in>>
    BY <1>1 DEF vars, Terminated
  <2> QED BY <2>1 DEF ChunkedInv
<1>2. CASE Environment
  <2>1. UNCHANGED <<inStep, pc, in>>
    BY <1>2, EnvironmentLeavesThread DEF threadVars
  <2> QED BY <2>1 DEF ChunkedInv
<1>3. CASE ManageLoop
  <2>1. CASE TrailFeed
    <3>1. in'.chunked = in.chunked
      BY <2>1, <1>i DEF TrailFeed, In
    <3> QED BY <2>1, <3>1, ChunkedKept DEF TrailFeed
  <2>2. CASE \/ OuterReceive \/ OuterSend \/ InnerSendOut \/ InnerReceiveIn \/ InnerSendIn
             \/ InnerReceiveOut \/ InnerEnd \/ TrailReceive \/ TrailSend \/ Trail503
             \/ OuterEnd \/ Destroy
    <3>1. UNCHANGED <<inStep, in>> /\ pc # "connect"
      BY <2>2 DEF OuterReceive, OuterSend, InnerSendOut, InnerReceiveIn, InnerSendIn,
          InnerReceiveOut, InnerEnd, TrailReceive, TrailSend, Trail503, OuterEnd, Destroy
    <3> QED BY <3>1, ChunkedKept
  <2> QED BY <1>3, <2>1, <2>2 DEF ManageLoop
<1>4. CASE ProcessOut
  <2>1. pc # "connect" /\ inStep' \in {inStep, "START"}
    BY <1>4 DEF ProcessOut, OutReturn, OutStart, OutFirstLine, OutHeaders, OutDecodeBad, OutDecode, OutSend,
        OutChunk, OutRaw, OutTunneling, OutFinish, EndExchange
  <2>2. CASE OutStart
    <3>1. in'.chunked = in.chunked
      BY <2>2, <1>i DEF OutStart, Reset, In
    <3> QED BY <2>1, <3>1, ChunkedKept
  <2>3. CASE \/ OutReturn \/ OutFirstLine \/ OutHeaders \/ OutDecodeBad \/ OutDecode \/ OutSend
             \/ OutChunk \/ OutRaw \/ OutTunneling \/ OutFinish
    <3>1. in' = in
      BY <2>3 DEF OutReturn, OutFirstLine, OutHeaders, OutDecodeBad, OutDecode, OutSend, OutChunk, OutRaw,
          OutTunneling, OutFinish
    <3> QED BY <2>1, <3>1, ChunkedKept
  <2> QED BY <1>4, <2>2, <2>3 DEF ProcessOut
<1>5. CASE ConnectWebsite
  <2>1. CASE ConnectFlush
    <3>1. in' = in /\ (inStep' = "START" \/ (inStep # "DECODE" /\ inStep' = inStep))
      BY <2>1 DEF ConnectFlush
    <3> QED BY <3>1 DEF ChunkedInv
  <2>2. CASE \/ LocalAnswer \/ ApiAnswer \/ LocalTls \/ AwaitLine \/ AwaitLocal \/ LocalSecure \/ Jump \/ Rdir
             \/ ConnectReuse \/ ConnectFail \/ ConnectOpen
    <3>1. pc # "connect" /\ inStep' \in {inStep, "FINISH", "TUNNELING"} /\ in' = in
      BY <2>2 DEF LocalAnswer, ApiAnswer, LocalTls, AwaitLine, AwaitLocal, LocalSecure, SecurePage, Jump, Rdir,
          ConnectReuse, ConnectFail, ConnectOpen, Fake, ToWebsite
    <3> QED BY <3>1, ChunkedKept
  <2>3. CASE Established \/ ViaProxy \/ AwaitProxy \/ Tls \/ Resend \/ InRedirected
    <3>1. pc # "connect" /\ inStep' = inStep
      BY <2>3 DEF Established, ViaProxy, AwaitProxy, Tls, Resend, InRedirected
    <3>2. in' = in \/ \E code : in' = [in EXCEPT !.code = code]
      BY <2>3 DEF Established, ViaProxy, AwaitProxy, Tls, Resend, InRedirected
    <3>3. in'.chunked = in.chunked
      BY <3>2, <1>i DEF In
    <3> QED BY <3>1, <3>3, ChunkedKept
  <2> QED BY <1>5, <2>1, <2>2, <2>3 DEF ConnectWebsite
<1>6. CASE ProcessIn
  <2>1. CASE InFirstLine
    <3>1. in'.chunked = FALSE /\ inStep' = "HEADERS"
      BY <2>1, <1>i DEF InFirstLine, In
    <3> QED BY <3>1 DEF ChunkedInv
  <2>2. CASE InHeaders
    <3>1. in'.chunked = in.chunked /\ inStep = "HEADERS" /\ inStep' \in {"FIRSTLINE", "DECODE"}
      BY <2>2, <1>i DEF InHeaders, In
    <3> QED BY <3>1 DEF ChunkedInv
  <2>3. CASE InDecode
    <3> DEFINE d == [in EXCEPT !.chunked = @ \/ (Says({"chunk"}) /\ out.method # "HEAD"),
                               !.size = BodySize]
               Goes(f, h, chain) ==
                 IF (IF f = "none" THEN owner.rdir ELSE f) # "none" /\ redirectedIn < MaxRedirect
                 THEN pc' = "connect" /\ in' = d /\ inStep' = inStep
                 ELSE Relay([d EXCEPT !.chain = chain /\ ContentType, !.dumped = FALSE])
    <3>0. inStep = "DECODE"
      BY <2>3 DEF InDecode
    <3>1. \E f \in InFilters :
            \E h \in (IF f \in {"jump", "rdir"} THEN Hosts ELSE {owner.rdirHost}), chain \in Chains :
              Goes(f, h, chain)
      BY <2>3, ZenonT(40) DEF InDecode
    <3>2. PICK f, h, chain : Goes(f, h, chain)
      BY <3>1
    <3> DEFINE i == [d EXCEPT !.chain = chain /\ ContentType, !.dumped = FALSE]
    <3>3. (pc' = "connect" /\ inStep' = inStep) \/ Relay(i)
      BY <3>2
    <3> HIDE DEF i, d, Goes
    <3>4. ASSUME Relay(i) PROVE inStep' \in {"TUNNELING", "RAW", "FINISH"} \/ (inStep' = "CHUNK" /\ in'.chunked)
      BY <3>4 DEF Relay
    <3> QED BY <3>0, <3>3, <3>4 DEF ChunkedInv
  <2>4. CASE InChunk
    <3>1. in'.chunked = in.chunked /\ inStep' \in {"RAW", "FINISH"}
      BY <2>4, <1>i DEF InChunk, In
    <3> QED BY <3>1 DEF ChunkedInv
  <2>5. CASE InRaw
    <3>1. in'.chunked = in.chunked
      BY <2>5, <1>i DEF InRaw, In
    <3>2. inStep' \in {"RAW", "FINISH"} \/ (inStep' = "CHUNK" /\ in.chunked)
      BY <2>5, <1>i DEF InRaw
    <3> QED BY <3>1, <3>2 DEF ChunkedInv
  <2>6. CASE InReturn \/ InStart \/ InGarbage \/ InDecodeBad \/ InTunneling \/ InFinish
    <3>1. in' = in /\ pc # "connect" /\ inStep' \in {inStep, "FIRSTLINE", "FINISH", "START"}
      BY <2>6 DEF InReturn, InStart, InGarbage, InDecodeBad, InTunneling, InFinish, EndExchange
    <3> QED BY <3>1, ChunkedKept
  <2> QED BY <1>6, <2>1, <2>2, <2>3, <2>4, <2>5, <2>6 DEF ProcessIn
<1> QED BY <1>1, <1>2, <1>3, <1>4, <1>5, <1>6 DEF Next, Thread

-----------------------------------------------------------------------------
(* What the browser has got, and what it will get of sendInBuf.            *)

\* Somebody is there to get it.
Talking == brConn /\ browser.open
stream  == browser.got \o sendInBuf

LEMMA StreamOK ==
  ASSUME DataInv
  PROVE  /\ browser.got \in Tokens /\ sendInBuf \in Tokens /\ stream \in Tokens
         /\ in \in In /\ out.req \in Nat /\ Len(reqs) \in Nat
         /\ brConn \in BOOLEAN /\ browser \in BrowserEnd(Len(reqs))
<1>1. browser.got \in Tokens /\ sendInBuf \in Tokens /\ browser \in BrowserEnd(Len(reqs))
  BY DEF DataInv, RequestInv, BrowserEnd, ResponseInv
<1>2. stream \in Tokens
  BY <1>1, TokensDef, ConcatProperties DEF stream
<1>3. Len(reqs) \in Nat /\ out.req \in Nat
  BY LenProperties DEF DataInv, RequestInv, Out
<1> QED BY <1>1, <1>2, <1>3 DEF DataInv, ResponseInv, FlagInv

\* After _SendIn of buf, when the browser is still there, it has got buf or
\* will; and it gets nothing else.
LEMMA SendInStream ==
  ASSUME DataInv, NEW buf \in Tokens, NEW keep \in BOOLEAN, SendIn(buf, keep)
  PROVE  /\ browser'.got = browser.got \/ (Talking /\ browser'.got = browser.got \o buf)
         /\ Talking' => /\ keep /\ Talking /\ stream' = browser.got \o buf
                        /\ sendInBuf' = <<>>
<1>1. brConn \in BOOLEAN /\ browser \in BrowserEnd(Len(reqs)) /\ browser.got \in Tokens
  BY StreamOK
<1>2. browser.got \o buf \in Tokens
  BY <1>1, TokensDef, ConcatProperties
<1>3. (browser.got \o buf) \o <<>> = browser.got \o buf
  BY <1>2, TokensDef, ConcatProperties
<1>4. CASE buf = <<>> \/ ~brConn
  <2>1. browser' = browser /\ sendInBuf' = buf /\ brConn' = (brConn /\ keep)
    BY <1>4 DEF SendIn
  <2> QED BY <1>4, <2>1 DEF Talking, stream
<1>5. CASE buf # <<>> /\ brConn /\ browser.open /\ "browser" \notin stalled
           /\ browser' = [browser EXCEPT !.got = @ \o buf] /\ sendInBuf' = <<>> /\ brConn' = keep
  <2>1. browser'.got = browser.got \o buf /\ browser'.open = browser.open
    BY <1>1, <1>5 DEF BrowserEnd
  <2> QED BY <1>3, <1>5, <2>1 DEF Talking, stream
<1>6. CASE browser' = browser /\ (~browser.open \/ brConn' = FALSE)
  BY <1>6 DEF Talking
<1> QED BY <1>4, <1>5, <1>6 DEF SendIn

\* Before a body goes on, what came before it in sendInBuf has been sent; and
\* nothing is left in it when _ConnectWebsite chooses a route.
InBody == {"RAW", "CHUNK", "TUNNELING"}
FlushedInv ==
  /\ Talking /\ sendInBuf # <<>> /\ inStep \in InBody
       => pc \in {"procIn", "established"} \cup InReturns
  /\ pc = "route" => sendInBuf = <<>>

LEMMA FlushedKept ==
  ASSUME FlushedInv, Talking' => Talking, sendInBuf' = sendInBuf,
         inStep' = inStep \/ inStep' \notin InBody,
         pc' = pc \/ pc \notin {"procIn", "established"} \cup InReturns,
         pc' = "route" => pc = "route"
  PROVE  FlushedInv'
BY DEF FlushedInv

\* sendInBuf is empty, or inStep is elsewhere.
LEMMA FlushedAnew ==
  ASSUME Talking' => sendInBuf' = <<>> \/ inStep' \notin InBody \/ pc' = "procIn" \/ pc' \in InReturns,
         pc' # "route"
  PROVE  FlushedInv'
BY DEF FlushedInv

LEMMA OpenStays ==
  ASSUME DataInv, Environment
  PROVE  browser'.got = browser.got /\ (browser'.open => browser.open)
<1>1. browser \in BrowserEnd(Len(reqs))
  BY StreamOK
<1>2. CASE BrowserRequest \/ BrowserTunnel
  BY <1>1, <1>2 DEF BrowserRequest, BrowserTunnel, BrowserEnd
<1>3. CASE BrowserSend \/ BrowserClose
  BY <1>1, <1>3 DEF BrowserSend, BrowserClose, BrowserEnd
<1>4. CASE \/ WebsiteAnswer \/ WebsiteTunnel \/ WebsiteInterim \/ WebsiteStray \/ WebsiteSend \/ WebsiteClose
           \/ Stall \/ IdleExpire \/ SwitchToInvalid
  BY <1>4 DEF WebsiteAnswer, WebsiteTunnel, WebsiteInterim, WebsiteStray, WebsiteSend, WebsiteClose, Stall,
      IdleExpire, SwitchToInvalid
<1> QED BY <1>2, <1>3, <1>4 DEF Environment

LEMMA ReceiveOutStream ==
  ASSUME DataInv, ReceiveOut
  PROVE  browser'.got = browser.got /\ (Talking' => Talking)
BY StreamOK DEF ReceiveOut, BrowserEnd, Talking

LEMMA FlushedStep ==
  DataInv /\ PathInv /\ FlushedInv /\ [Next]_vars => FlushedInv'
<1> SUFFICES ASSUME DataInv, PathInv, FlushedInv, [Next]_vars PROVE FlushedInv'
  OBVIOUS
<1>b. sendInBuf \in Tokens /\ brConn \in BOOLEAN /\ ret \in Returns /\ out.req \in Nat
  BY StreamOK DEF DataInv, CountInv
<1>r. ret # "route" /\ ConnectReturn # "route"
  BY <1>b DEF Returns, ConnectReturn
<1>k. UNCHANGED browser /\ (brConn' => brConn) => (Talking' => Talking)
  BY DEF Talking
<1>n. ~brConn' => ~Talking'
  BY DEF Talking
<1>f. \A r \in Nat, v \in {"200", "503"} : <<Tok("fake", r, v)>> \in Tokens
  <2>1. "fake" \in Kinds /\ {"200", "503"} \subseteq Values
    BY DEF Kinds, Values, Codes
  <2> QED BY <2>1, TokenOK
<1> USE DEF stepVars, inBufs, socketVars
<1>1. CASE UNCHANGED vars \/ Terminated
  <2>1. UNCHANGED <<browser, brConn, sendInBuf, inStep, pc>>
    BY <1>1 DEF vars, Terminated
  <2> QED BY <2>1, <1>k, FlushedKept
<1>2. CASE Environment
  <2>1. UNCHANGED <<brConn, sendInBuf, inStep, pc>>
    BY <1>2, EnvironmentLeavesThread DEF threadVars
  <2>2. Talking' => Talking
    BY <1>2, <2>1, OpenStays DEF Talking
  <2> QED BY <2>1, <2>2, FlushedKept
<1>3. CASE ManageLoop
  <2>1. CASE OuterReceive \/ InnerReceiveOut
    <3>1. ReceiveOut /\ UNCHANGED <<sendInBuf, inStep>> /\ pc \in {"outerReceive", "innerReceiveOut"}
          /\ pc' \in {"procOut", "outerSend", "innerEnd"}
      BY <2>1 DEF OuterReceive, InnerReceiveOut
    <3> QED BY <3>1, ReceiveOutStream, FlushedKept DEF InReturns
  <2>2. CASE OuterSend \/ InnerSendIn \/ TrailSend
    <3>1. SendIn(sendInBuf, TRUE) /\ pc' # "route"
      BY <2>2 DEF OuterSend, InnerSendIn, TrailSend
    <3>2. Talking' => sendInBuf' = <<>>
      BY <3>1, <1>b, SendInStream
    <3> QED BY <3>1, <3>2, FlushedAnew
  <2>3. CASE Trail503
    <3>1. SendIn(<<Tok("fake", out.req, "503")>>, FALSE) /\ pc' # "route"
      BY <2>3 DEF Trail503
    <3>2. ~Talking'
      BY <3>1, <1>b, <1>f, SendInStream
    <3> QED BY <3>1, <3>2, FlushedAnew
  <2>4. CASE InnerSendOut \/ InnerReceiveIn \/ TrailReceive
    <3>1. UNCHANGED <<browser, brConn, sendInBuf, inStep>> /\ pc' # "route"
          /\ pc \in {"innerSendOut", "innerReceiveIn", "trailReceive"}
      BY <2>4 DEF InnerSendOut, InnerReceiveIn, TrailReceive
    <3> QED BY <3>1, <1>k, FlushedKept DEF InReturns
  <2>5. CASE InnerEnd \/ OuterEnd
    <3>1. UNCHANGED <<browser, sendInBuf, inStep>> /\ pc' # "route" /\ pc \in {"innerEnd", "outerEnd"}
      BY <2>5 DEF InnerEnd, OuterEnd
    <3>2. brConn' => brConn
      BY <2>5 DEF InnerEnd, OuterEnd, JudgeIf, Judge
    <3> QED BY <3>1, <3>2, <1>k, FlushedKept DEF InReturns
  <2>6. CASE TrailFeed
    <3>1. pc' \in {"procIn", "trailSend"}
      BY <2>6 DEF TrailFeed
    <3> QED BY <3>1, FlushedAnew DEF InReturns
  <2>7. CASE Destroy
    <3>1. ~brConn' /\ pc' # "route"
      BY <2>7 DEF Destroy
    <3> QED BY <3>1, <1>n, FlushedAnew
  <2> QED BY <1>3, <2>1, <2>2, <2>3, <2>4, <2>5, <2>6, <2>7 DEF ManageLoop
<1>4. CASE ProcessOut
  <2>1. CASE OutFinish
    <3>1. inStep' = "START" /\ pc' # "route"
      BY <2>1 DEF OutFinish, EndExchange
    <3> QED BY <3>1, FlushedAnew DEF InBody
  <2>2. CASE OutDecode
    <3>1. UNCHANGED <<browser, brConn, sendInBuf>> /\ inStep' \in {inStep, "START"}
          /\ pc' # "route" /\ pc = "procOut"
      BY <2>2 DEF OutDecode
    <3> QED BY <3>1, <1>k, FlushedKept DEF InReturns, InBody
  <2>3. CASE \/ OutReturn \/ OutStart \/ OutFirstLine \/ OutHeaders \/ OutDecodeBad \/ OutSend
             \/ OutChunk \/ OutRaw \/ OutTunneling
    <3>1. UNCHANGED <<browser, brConn, sendInBuf, inStep>>
          /\ pc' \in {pc, ret, "procOut", "raise"} /\ pc \in {"procOut", "outSend"}
      BY <2>3 DEF OutReturn, OutStart, OutFirstLine, OutHeaders, OutDecodeBad, OutSend, OutChunk, OutRaw,
          OutTunneling
    <3> QED BY <3>1, <1>k, <1>r, FlushedKept DEF InReturns
  <2> QED BY <1>4, <2>1, <2>2, <2>3 DEF ProcessOut
<1>5. CASE ConnectWebsite
  <2>1. CASE ConnectFlush
    BY <2>1 DEF ConnectFlush, FlushedInv
  <2>2. CASE LocalAnswer \/ Jump \/ ConnectFail
    <3>1. inStep' = "FINISH" /\ pc' = ConnectReturn
      BY <2>2 DEF LocalAnswer, Jump, ConnectFail, Fake
    <3> QED BY <3>1, <1>r, FlushedAnew DEF InBody
  <2>3. CASE ApiAnswer
    <3>1. ~brConn' /\ pc' = ConnectReturn
      BY <2>3 DEF ApiAnswer, ApiWrite
    <3> QED BY <3>1, <1>n, <1>r, FlushedAnew
  <2>4. CASE AwaitLocal
    <3>1. (~brConn' \/ inStep' = "FINISH") /\ pc' = ConnectReturn
      BY <2>4 DEF AwaitLocal, SecurePage, ApiWrite
    <3> QED BY <3>1, <1>n, <1>r, FlushedAnew DEF InBody
  <2>5. CASE LocalTls
    <3>1. UNCHANGED <<sendInBuf, inStep>> /\ pc = "route" /\ pc' # "route"
      BY <2>5 DEF LocalTls
    <3>2. sendInBuf' = <<>>
      BY <3>1 DEF FlushedInv
    <3> QED BY <3>1, <3>2, FlushedAnew
  <2>6. CASE AwaitLine
    <3>1. ReceiveOut /\ UNCHANGED <<sendInBuf, inStep, pc>>
      BY <2>6 DEF AwaitLine
    <3> QED BY <3>1, ReceiveOutStream, FlushedKept
  <2>7. CASE Rdir \/ ConnectReuse
    <3>1. UNCHANGED <<browser, brConn, sendInBuf, inStep>> /\ pc = "route"
      BY <2>7 DEF Rdir, ConnectReuse, ToWebsite
    <3> QED BY <3>1, <1>k, FlushedKept DEF InReturns
  <2>8. CASE ConnectOpen
    <3>1. pc = "route" /\ sendInBuf = <<>>
      BY <2>8 DEF ConnectOpen, ToWebsite, FlushedInv
    <3>2. pc' = "established" \/ (pc' = "viaProxy" /\ sendInBuf' = sendInBuf)
      BY <2>8 DEF ConnectOpen
    <3> QED BY <3>1, <3>2 DEF FlushedInv
  <2>9. CASE Established
    <3>1. SendIn(sendInBuf, TRUE) /\ pc' # "route"
      BY <2>9 DEF Established
    <3>2. Talking' => sendInBuf' = <<>>
      BY <3>1, <1>b, SendInStream
    <3> QED BY <3>1, <3>2, FlushedAnew
  <2>10. CASE ViaProxy \/ AwaitProxy \/ Resend \/ InRedirected
    <3>1. UNCHANGED <<browser, brConn, sendInBuf, inStep>>
          /\ pc \in {"viaProxy", "awaitProxy", "resend", "inRedirected"}
          /\ pc' \in {"awaitProxy", "tls", "raise", ConnectReturn, "procIn"}
      BY <2>10 DEF ViaProxy, AwaitProxy, Resend, InRedirected
    <3> QED BY <3>1, <1>k, <1>r, FlushedKept DEF InReturns
  <2>11. CASE Tls
    <3>1. UNCHANGED <<browser, sendInBuf, inStep>> /\ pc = "tls" /\ pc' = "resend"
      BY <2>11 DEF Tls
    <3>2. brConn' \in {brConn, FALSE}
      BY <2>11 DEF Tls
    <3>3. Talking' => Talking
      BY <3>1, <3>2 DEF Talking
    <3> QED BY <3>1, <3>3, FlushedKept DEF InReturns
  <2>12. CASE LocalSecure
    <3>1. CASE pc' = ConnectReturn /\ SecurePage(out.req, TRUE)
      <4>1. ~brConn' \/ inStep' = "FINISH"
        BY <3>1 DEF SecurePage, ApiWrite
      <4> QED BY <3>1, <4>1, <1>n, <1>r, FlushedAnew DEF InBody
    <3>2. CASE pc' = "raise" /\ UNCHANGED <<inStep, sendInBuf, browser, brConn>>
      <4>1. pc = "route"
        BY <2>12 DEF LocalSecure
      <4> QED BY <3>2, <4>1, <1>k, FlushedKept DEF InReturns
    <3> QED BY <2>12, <3>1, <3>2 DEF LocalSecure
  <2> QED BY <1>5, <2>1, <2>2, <2>3, <2>4, <2>5, <2>6, <2>7, <2>8, <2>9, <2>10, <2>11, <2>12
          DEF ConnectWebsite
<1>6. CASE ProcessIn
  <2>0. pc = "procIn" /\ ret \in InReturns
    BY <1>6 DEF PathInv, ProcessIn, InReturn, InStart, InFirstLine, InGarbage, InHeaders, InDecodeBad,
        InDecode, InChunk, InRaw, InTunneling, InFinish
  <2>1. CASE InDecode
    <3> DEFINE d == [in EXCEPT !.chunked = @ \/ (Says({"chunk"}) /\ out.method # "HEAD"),
                               !.size = BodySize]
               Goes(f, h, chain) ==
                 IF (IF f = "none" THEN owner.rdir ELSE f) # "none" /\ redirectedIn < MaxRedirect
                 THEN pc' = "connect" /\ in' = d /\ inStep' = inStep
                 ELSE Relay([d EXCEPT !.chain = chain /\ ContentType, !.dumped = FALSE])
    <3>1. \E f \in InFilters :
            \E h \in (IF f \in {"jump", "rdir"} THEN Hosts ELSE {owner.rdirHost}), chain \in Chains :
              Goes(f, h, chain)
      BY <2>1, ZenonT(40) DEF InDecode
    <3>2. PICK f, h, chain : Goes(f, h, chain)
      BY <3>1
    <3>3. (pc' = "connect" /\ inStep' = inStep) \/ pc' = pc
      BY <3>2 DEF Relay
    <3>4. inStep = "DECODE"
      BY <2>1 DEF InDecode
    <3> QED BY <2>0, <3>3, <3>4, FlushedAnew DEF InBody
  <2>2. CASE InDecodeBad
    <3>1. inStep' = "DECODE" /\ pc' = "raise"
      BY <2>2 DEF InDecodeBad
    <3> QED BY <3>1, FlushedAnew DEF InBody
  <2>3. CASE \/ InReturn \/ InStart \/ InFirstLine \/ InGarbage \/ InHeaders
             \/ InChunk \/ InRaw \/ InTunneling \/ InFinish
    <3>1. pc' \in {pc, ret}
      BY <2>3 DEF InReturn, InStart, InFirstLine, InGarbage, InHeaders, InChunk, InRaw, InTunneling,
          InFinish
    <3> QED BY <2>0, <3>1, <1>r, FlushedAnew
  <2> QED BY <1>6, <2>1, <2>2, <2>3 DEF ProcessIn
<1> QED BY <1>1, <1>2, <1>3, <1>4, <1>5, <1>6 DEF Next, Thread

-----------------------------------------------------------------------------
(* The stream of responses.                                                *)

\* InTunneling passes on what the website sends.
Passing == inStep = "TUNNELING" /\ (brSecure => in.code = "101")
BodyIsOpen == BodyOpen(stream, in.resp, in.chain \/ in.chunked, in.size)

\* The whole of what the browser has got or will get is framed, and where a
\* machine goes on with a body or a tunnel, the stream ends in that body or
\* tunnel.  (LocalTls puts a head of its own after the body of a response that
\* it will not go on with.)
StreamInv ==
  /\ WellFramed(browser.got)
  /\ Talking => WellFramed(stream)
  /\ Talking /\ inStep \in {"CHUNK", "RAW"} /\ pc # "awaitLocal" => BodyIsOpen
  /\ Talking /\ Passing => TunnelOpen(stream)

\* A step that is not about the response.
LEMMA Undisturbed ==
  ASSUME StreamInv,
         browser'.got = browser.got \/ (Talking /\ browser'.got = stream),
         Talking' => Talking /\ stream' = stream,
         inStep' \in InBody =>
           /\ inStep' = inStep
           /\ UNCHANGED <<in.resp, in.chain, in.chunked, in.size>>
           /\ in'.code = "101" => in.code = "101"
           /\ brSecure => brSecure'
           /\ pc = "awaitLocal" => pc' = "awaitLocal"
  PROVE  StreamInv'
<1>1. WellFramed(browser'.got)
  BY DEF StreamInv
<1>2. ASSUME Talking' PROVE WellFramed(stream')
  BY <1>2 DEF StreamInv
<1>3. ASSUME Talking', inStep' \in {"CHUNK", "RAW"}, pc' # "awaitLocal" PROVE BodyIsOpen'
  <2>1. BodyIsOpen
    BY <1>3 DEF StreamInv, InBody
  <2> QED BY <1>3, <2>1 DEF BodyIsOpen, InBody
<1>4. ASSUME Talking', Passing' PROVE TunnelOpen(stream')
  <2>1. Talking /\ Passing
    BY <1>4 DEF Passing, InBody
  <2> QED BY <1>4, <2>1 DEF StreamInv
<1> QED BY <1>1, <1>2, <1>3, <1>4 DEF StreamInv

\* A step after which nothing goes on.
LEMMA NoBody ==
  ASSUME WellFramed(browser'.got), Talking' => WellFramed(stream') /\ inStep' \notin InBody
  PROVE  StreamInv'
BY DEF StreamInv, InBody, Passing

\* The proxy writes a response of its own.
LEMMA OwnResponse ==
  ASSUME DataInv, StreamInv, NEW r \in Nat, NEW v \in Codes, NEW keep \in BOOLEAN,
         SendIn(<<Tok("fake", r, v)>>, keep), ~keep \/ inStep' \notin InBody
  PROVE  StreamInv'
<1> DEFINE t == <<Tok("fake", r, v)>>
<1>1. t \in Tokens /\ browser.got \in Tokens
  BY StreamOK, TokenOK DEF Kinds, Values
<1>2. \A l \in 1..Len(t) : t[l].k \notin {"data", "end"}
  BY DEF Tok
<1>3. SendIn(t, keep)
  OBVIOUS
<1> HIDE DEF t
<1>4. WellFramed(browser.got \o t)
  BY <1>1, <1>2, HeadFramed DEF StreamInv
<1> QED BY <1>1, <1>3, <1>4, SendInStream, NoBody DEF StreamInv

\* ... or leaves one, and nothing else, in sendInBuf.
LEMMA OwnAnswer ==
  ASSUME DataInv, StreamInv, NEW t \in Token, t.k \notin {"data", "end"},
         sendInBuf' = <<t>>, browser' = browser, inStep' \notin InBody
  PROVE  StreamInv'
<1>1. <<t>> \in Tokens /\ browser.got \in Tokens /\ \A l \in 1..Len(<<t>>) : <<t>>[l] = t
  BY StreamOK, TokensDef
<1>2. WellFramed(browser.got \o <<t>>)
  BY <1>1, HeadFramed DEF StreamInv
<1> QED BY <1>2, NoBody DEF StreamInv, stream

LEMMA ApiStream ==
  ASSUME DataInv, StreamInv, NEW r \in Nat, ApiWrite(r)
  PROVE  StreamInv'
<1>1. browser.got \in Tokens /\ browser \in BrowserEnd(Len(reqs))
  BY StreamOK
<1>2. ASSUME NEW n \in 1..MaxCopies,
             browser' = [browser EXCEPT !.got = @ \o [i \in 1..n |-> Tok("fake", r, "200")]]
      PROVE  WellFramed(browser'.got)
  <2> DEFINE f == Tok("fake", r, "200")
             t == [i \in 1..n |-> f]
  <2>1. f \in Token /\ f.k = "fake"
    BY TokenOK DEF Tok, Kinds, Values, Codes
  <2>2. browser'.got = browser.got \o t
    BY <1>1, <1>2 DEF BrowserEnd
  <2> HIDE DEF f
  <2>3. n \in Nat /\ t \in Seq(Token)
    BY <2>1, SeqDef DEF MaxCopies
  <2>4. Len(t) = n /\ \A l \in 1..Len(t) : t[l] = f
    BY <2>3, LenProperties
  <2> HIDE DEF t
  <2> QED BY <1>1, <2>1, <2>2, <2>3, <2>4, TokensDef, HeadFramed DEF StreamInv
<1>3. WellFramed(browser'.got) /\ ~Talking'
  BY <1>2 DEF ApiWrite, StreamInv, Talking
<1> QED BY <1>3, NoBody

LEMMA Regrouped ==
  ASSUME NEW s \in Seq(Token), NEW t \in Seq(Token), NEW u \in Seq(Token)
  PROVE  (s \o t) \o u = s \o (t \o u)
<1> DEFINE a == (s \o t) \o u
           b == s \o (t \o u)
<1>1. /\ s \o t \in Seq(Token) /\ Len(s \o t) = Len(s) + Len(t)
      /\ t \o u \in Seq(Token) /\ Len(t \o u) = Len(t) + Len(u)
  BY ConcatProperties
<1>2. a \in Seq(Token) /\ b \in Seq(Token) /\ Len(a) = Len(b)
  BY <1>1, ConcatProperties, LenProperties
<1>l. Len(s) \in Nat /\ Len(t) \in Nat /\ Len(u) \in Nat /\ Len(a) = Len(s) + Len(t) + Len(u)
  BY <1>1, ConcatProperties, LenProperties
<1>3. ASSUME NEW i \in 1..Len(a) PROVE a[i] = b[i]
  <2>1. a[i] = IF i <= Len(s) + Len(t) THEN (s \o t)[i] ELSE u[i - (Len(s) + Len(t))]
    BY <1>1, <1>l, ConcatProperties
  <2>2. b[i] = IF i <= Len(s) THEN s[i] ELSE (t \o u)[i - Len(s)]
    BY <1>1, <1>l, ConcatProperties
  <2>3. i <= Len(s) + Len(t) => (s \o t)[i] = IF i <= Len(s) THEN s[i] ELSE t[i - Len(s)]
    BY <1>l, ConcatProperties
  <2>4. i > Len(s)
          => (t \o u)[i - Len(s)] = IF i - Len(s) <= Len(t) THEN t[i - Len(s)] ELSE u[(i - Len(s)) - Len(t)]
    BY <1>l, ConcatProperties
  <2>5. (i - Len(s)) - Len(t) = i - (Len(s) + Len(t))
    BY <1>l
  <2> HIDE DEF a, b
  <2> QED BY <1>l, <2>1, <2>2, <2>3, <2>4, <2>5
<1> HIDE DEF a, b
<1>4. a = b
  BY <1>2, <1>3, SeqEqual
<1> QED BY <1>4 DEF a, b

LEMMA TunnelStarts ==
  ASSUME NEW s \in Tokens, WellFramed(s), NEW t \in Token, IsHead(t), OpensTunnel(t)
  PROVE  WellFramed(s \o <<t>>) /\ TunnelOpen(s \o <<t>>)
<1>1. <<t>> \in Tokens /\ \A l \in 1..Len(<<t>>) : <<t>>[l] = t
  BY TokensDef
<1>2. WellFramed(s \o <<t>>)
  BY <1>1, HeadFramed DEF IsHead
<1> QED BY <1>2, HeadLast DEF TunnelOpen

LEMMA LocalTlsStream ==
  ASSUME DataInv, StreamInv, FlushedInv, LocalTls
  PROVE  StreamInv'
<1>b. browser.got \in Tokens /\ browser \in BrowserEnd(Len(reqs)) /\ out.req \in Nat
  BY StreamOK
<1>1. CASE pc' = "raise" /\ ~brConn' /\ browser' = browser
  BY <1>1, NoBody DEF StreamInv, Talking
<1>2. CASE browser' = [browser EXCEPT !.got = Append(@, Tok("est", out.req, "200"))]
           /\ pc' = "awaitLocal"
  <2> DEFINE e == Tok("est", out.req, "200")
  <2>1. e \in Token /\ IsHead(e) /\ OpensTunnel(e)
    BY <1>b, TokenOK DEF Tok, Kinds, Values, Codes, IsHead, OpensTunnel
  <2>2. browser'.got = Append(browser.got, e)
    BY <1>b, <1>2 DEF BrowserEnd
  <2>3. sendInBuf' = <<>>
    BY DEF LocalTls, FlushedInv, inBufs
  <2> HIDE DEF e
  <2>s. browser.got \in Seq(Token) /\ e \in Token
    BY <1>b, <2>1, TokensDef
  <2>t. Append(browser.got, e) = browser.got \o <<e>> /\ Append(browser.got, e) \in Seq(Token)
    BY <2>s, AppendIsConcat, AppendProperties
  <2>4. browser'.got = browser.got \o <<e>> /\ browser.got \o <<e>> \in Seq(Token)
    BY <2>2, <2>t
  <2>5. stream' = browser.got \o <<e>>
    BY <2>3, <2>4, ConcatEmptySeq DEF stream
  <2>6. WellFramed(browser.got \o <<e>>) /\ TunnelOpen(browser.got \o <<e>>)
    BY <1>b, <2>1, TunnelStarts DEF StreamInv
  <2> QED BY <1>2, <2>4, <2>5, <2>6 DEF StreamInv
<1> QED BY <1>1, <1>2 DEF LocalTls

LEMMA ConnectOpenStream ==
  ASSUME DataInv, StreamInv, ConnectOpen, out.method = "CONNECT"
  PROVE  StreamInv'
<1> DEFINE e == Tok("est", out.req, "200")
<1>1. browser.got \in Tokens /\ out.req \in Nat
  BY StreamOK
<1>2. e \in Token /\ IsHead(e) /\ OpensTunnel(e)
  BY <1>1, TokenOK DEF Tok, Kinds, Values, Codes, IsHead, OpensTunnel
<1>3. sendInBuf' = <<e>> /\ browser' = browser /\ inStep' = "TUNNELING"
  BY DEF ConnectOpen
<1> HIDE DEF e
<1>4. WellFramed(browser.got \o <<e>>) /\ TunnelOpen(browser.got \o <<e>>)
  BY <1>1, <1>2, TunnelStarts DEF StreamInv
<1> QED BY <1>3, <1>4 DEF StreamInv, stream

\* The head opens the body that the machine goes on with.
LEMMA RelayStream ==
  ASSUME DataInv, StreamInv, browser' = browser, NEW i \in In, Relay(i),
         out.method = "HEAD" => ~i.chunked /\ i.size = 0,
         i.size \in {0, 1, 2, Unlimited}
  PROVE  StreamInv'
<1> DEFINE h == HeadFor(i)
           u == browser.got \o <<h>>
<1>1. browser.got \in Tokens /\ <<h>> \in Tokens /\ h \in Token
  <2>1. <<h>> \in Tokens
    BY HeadForOK
  <2>2. h \in Token
    BY <2>1, TokensDef, ElementOfSeq
  <2> QED BY <2>1, <2>2, StreamOK
<1>2. /\ h.k = IF i.code \in {"100", "103"} THEN "interim" ELSE "rhead"
      /\ h.r = i.resp
      /\ h.v = IF i.code = "101" THEN "tunnel"
               ELSE IF out.method = "HEAD" \/ i.code = "204" THEN "none"
               ELSE IF i.chunked \/ (i.chain /\ i.size > 0) THEN "chunk"
               ELSE CASE i.size = 0 -> "none" [] i.size = 1 -> "len1"
                      [] i.size = 2 -> "len2" [] OTHER -> "eof"
  BY DEF HeadFor, Tok
<1>3. /\ in' = i /\ sendInBuf' = <<h>>
      /\ inStep' = CASE i.code = "101" -> "TUNNELING"
                     [] i.code \in {"204", "100", "103"} -> "FINISH"
                     [] OTHER -> IF i.chunked THEN "CHUNK" ELSE IF i.size > 0 THEN "RAW" ELSE "FINISH"
  BY DEF Relay
<1>i. i.size \in Nat /\ i.chunked \in BOOLEAN /\ i.chain \in BOOLEAN
  BY DEF In
<1> HIDE DEF h
<1>4. stream' = u /\ WellFramed(u)
  <2>1. \A l \in 1..Len(<<h>>) : <<h>>[l] = h
    OBVIOUS
  <2>2. h.k \notin {"data", "end"}
    BY <1>2
  <2>3. WellFramed(u)
    BY <1>1, <2>1, <2>2, HeadFramed DEF StreamInv
  <2> QED BY <1>3, <2>3 DEF stream
<1>5. h.k = "rhead" => \E j \in 1..Len(u) : LastHead(u, j) /\ u[j] = h /\ j + 1 .. Len(u) = {}
  BY <1>1, HeadLast DEF IsHead
<1> HIDE DEF u
<1>6. CASE i.code = "101"
  <2>1. h.k = "rhead" /\ h.v = "tunnel" /\ inStep' = "TUNNELING"
    BY <1>2, <1>3, <1>6
  <2>2. TunnelOpen(u)
    BY <1>5, <2>1 DEF TunnelOpen, OpensTunnel
  <2> QED BY <1>3, <1>4, <2>1, <2>2 DEF StreamInv
<1>7. CASE i.code # "101" /\ inStep' \in {"CHUNK", "RAW"}
  <2>1. /\ i.code \notin {"204", "100", "103"}
        /\ i.chunked \/ i.size > 0
        /\ h.k = "rhead" /\ h.r = i.resp /\ out.method # "HEAD"
    BY <1>2, <1>3, <1>7
  <2>2. PICK j \in 1..Len(u) : LastHead(u, j) /\ u[j] = h /\ j + 1 .. Len(u) = {}
    BY <1>5, <2>1
  <2>3. CASE i.chain \/ i.chunked
    <3>1. h.v = "chunk"
      BY <1>2, <1>7, <2>1, <2>3
    <3>2. BodyOpen(u, i.resp, i.chain \/ i.chunked, i.size)
      BY <2>1, <2>2, <2>3, <3>1 DEF BodyOpen
    <3> QED BY <1>3, <1>4, <1>7, <3>2 DEF StreamInv, BodyIsOpen, Passing
  <2>4. CASE ~(i.chain \/ i.chunked)
    <3>1. h.v = CASE i.size = 1 -> "len1" [] i.size = 2 -> "len2" [] OTHER -> "eof"
      BY <1>2, <1>7, <2>1, <2>4
    <3>2. BodyOpen(u, i.resp, i.chain \/ i.chunked, i.size)
      BY <2>1, <2>2, <2>4, <3>1 DEF BodyOpen
    <3> QED BY <1>3, <1>4, <1>7, <3>2 DEF StreamInv, BodyIsOpen, Passing
  <2> QED BY <2>3, <2>4
<1>8. CASE i.code # "101" /\ inStep' \notin {"CHUNK", "RAW"}
  <2>1. inStep' \notin InBody
    BY <1>3, <1>8 DEF InBody
  <2>2. WellFramed(browser'.got)
    BY DEF StreamInv
  <2> QED BY <1>4, <2>1, <2>2, NoBody
<1> QED BY <1>6, <1>7, <1>8

\* _EndFeeding in the middle, or at the end, of a body.
LEMMA EndStream ==
  ASSUME DataInv, StreamInv, inStep \in {"CHUNK", "RAW"}, pc # "awaitLocal",
         browser' = browser, brConn' = brConn,
         sendInBuf' = Ended(sendInBuf, in.resp, in), inStep' \notin InBody
  PROVE  StreamInv'
<1> DEFINE e == Tok("end", in.resp, "-")
<1>1. /\ browser.got \in Tokens /\ sendInBuf \in Tokens /\ stream \in Tokens
      /\ in.resp \in Nat /\ e \in Token
  BY StreamOK, TokenOK DEF In, Kinds, Values
<1>2. ASSUME Talking PROVE WellFramed(stream')
  <2>1. CASE in.chain \/ in.chunked
    <3>1. BodyOpen(stream, in.resp, TRUE, in.size)
      BY <1>2, <2>1 DEF StreamInv, BodyIsOpen
    <3>2. WellFramed(Append(stream, e))
      BY <1>1, <1>2, <3>1, EndFramed DEF StreamInv
    <3>3. sendInBuf' = Append(sendInBuf, e)
      BY <2>1 DEF Ended
    <3> HIDE DEF e
    <3>4. sendInBuf' = sendInBuf \o <<e>> /\ Append(stream, e) = stream \o <<e>>
      BY <1>1, <3>3, TokensDef, AppendIsConcat
    <3>5. <<e>> \in Seq(Token)
      BY <1>1
    <3>6. stream' = stream \o <<e>>
      <4>1. browser.got \in Seq(Token) /\ sendInBuf \in Seq(Token)
        BY <1>1, TokensDef
      <4>2. (browser.got \o sendInBuf) \o <<e>> = browser.got \o (sendInBuf \o <<e>>)
        BY <3>5, <4>1, Regrouped
      <4>3. stream' = browser.got \o sendInBuf'
        BY DEF stream
      <4> QED BY <3>4, <4>2, <4>3 DEF stream
    <3> QED BY <3>2, <3>4, <3>6
  <2>2. CASE ~(in.chain \/ in.chunked)
    <3>1. stream' = stream
      BY <2>2 DEF Ended, stream
    <3> QED BY <1>2, <3>1 DEF StreamInv
  <2> QED BY <2>1, <2>2
<1> QED BY <1>2, NoBody DEF StreamInv, Talking

\* Chunks may be of any number.
LEMMA AnyNumber ==
  ASSUME NEW s, NEW r, NEW n, NEW m, BodyOpen(s, r, TRUE, n)
  PROVE  BodyOpen(s, r, TRUE, m)
BY DEF BodyOpen

LEMMA InChunkStream ==
  ASSUME DataInv, StreamInv, ChunkedInv, InChunk
  PROVE  StreamInv'
<1>i. in \in In
  BY StreamOK
<1>c. inStep = "CHUNK" /\ pc = "procIn" /\ in.chunked /\ UNCHANGED <<browser, brConn, pc>>
  BY DEF InChunk, ChunkedInv, socketVars
<1>1. CASE Head(recvInBuf).k = "size"
  <2>1. inStep' = "RAW" /\ sendInBuf' = sendInBuf /\ in' = [in EXCEPT !.size = 1]
    BY <1>1 DEF InChunk
  <2>2. UNCHANGED <<in.resp, in.chain, in.chunked>>
    BY <2>1, <1>i DEF In
  <2>3. stream' = stream /\ (Talking' => Talking)
    BY <2>1, <1>c DEF stream, Talking
  <2>4. ASSUME Talking PROVE BodyIsOpen'
    <3>1. BodyOpen(stream, in.resp, TRUE, in.size)
      BY <1>c, <2>4 DEF StreamInv, BodyIsOpen
    <3>2. BodyOpen(stream, in.resp, TRUE, in'.size)
      BY <3>1, AnyNumber
    <3> QED BY <1>c, <2>2, <2>3, <3>2 DEF BodyIsOpen
  <2> QED BY <1>c, <2>1, <2>3, <2>4 DEF StreamInv, Passing
<1>2. CASE Head(recvInBuf).k # "size"
  <2>1. inStep' = "FINISH" /\ sendInBuf' = Ended(sendInBuf, in.resp, in)
    BY <1>2 DEF InChunk
  <2> QED BY <1>c, <2>1, EndStream DEF InBody
<1> QED BY <1>1, <1>2

\* What DataFeed leaves when it has been given n pieces.
LEMMA FeedStream ==
  ASSUME DataInv, StreamInv, Talking, inStep = "RAW", pc = "procIn",
         NEW n \in Nat, n <= in.size,
         NEW body, body = IF in.dumped THEN sendInBuf
                          ELSE sendInBuf \o [i \in 1..n |-> Tok("data", in.resp, "-")]
  PROVE  /\ browser.got \o body \in Tokens /\ WellFramed(browser.got \o body)
         /\ in.chain \/ in.chunked =>
              \A m : BodyOpen(browser.got \o body, in.resp, TRUE, m)
         /\ 0 < n /\ n < in.size =>
              BodyOpen(browser.got \o body, in.resp, in.chain \/ in.chunked, in.size - n)
         /\ in.size = Unlimited =>
              BodyOpen(browser.got \o body, in.resp, in.chain \/ in.chunked, in.size)
<1> DEFINE fed == [i \in 1..n |-> Tok("data", in.resp, "-")]
           many == in.chain \/ in.chunked
<1>1. /\ browser.got \in Seq(Token) /\ sendInBuf \in Seq(Token) /\ stream \in Tokens
      /\ in.resp \in Nat /\ in.size \in Nat /\ many \in BOOLEAN
  BY StreamOK, TokensDef DEF In
<1>2. fed \in Tokens /\ Len(fed) = n /\ \A l \in 1..Len(fed) : fed[l].k = "data" /\ fed[l].r = in.resp
  <2>1. fed \in Tokens
    BY <1>1, PiecesFed
  <2>2. DOMAIN fed = 1..n /\ Len(fed) \in Nat /\ DOMAIN fed = 1..Len(fed)
    BY <2>1, TokensDef, LenProperties
  <2>3. Len(fed) = n
    BY <2>1, <2>2, LenProperties, TokensDef
  <2>4. \A l \in 1..n : fed[l].k = "data" /\ fed[l].r = in.resp
    BY DEF Tok
  <2> QED BY <2>1, <2>3, <2>4
<1>3. WellFramed(stream) /\ BodyOpen(stream, in.resp, many, in.size)
  BY DEF StreamInv, BodyIsOpen
<1> HIDE DEF fed, many
<1>4. CASE in.dumped
  <2>1. browser.got \o body = stream
    BY <1>4 DEF stream
  <2>2. many => \A m : BodyOpen(stream, in.resp, TRUE, m)
    BY <1>3, AnyNumber
  <2>3. 0 < n /\ n < in.size => BodyOpen(stream, in.resp, many, in.size - n)
    <3>1. 0 < n /\ n < in.size => n \in 1 .. in.size - 1
      BY <1>1
    <3> QED BY <1>1, <1>3, <3>1, BodySkipped
  <2> QED BY <1>1, <1>3, <2>1, <2>2, <2>3 DEF many
<1>5. CASE ~in.dumped
  <2>1. body = sendInBuf \o fed
    BY <1>5 DEF fed
  <2>2. browser.got \o body = stream \o fed
    <3>1. fed \in Seq(Token)
      BY <1>2, TokensDef
    <3>2. (browser.got \o sendInBuf) \o fed = browser.got \o (sendInBuf \o fed)
      BY <1>1, <3>1, Regrouped
    <3> QED BY <2>1, <3>2 DEF stream
  <2>3. stream \o fed \in Tokens
    BY <1>1, <1>2, TokensDef, ConcatProperties
  <2>4. many \/ Len(fed) <= in.size
    BY <1>2
  <2>5. /\ WellFramed(stream \o fed)
        /\ many => \A m : BodyOpen(stream \o fed, in.resp, many, m)
        /\ Len(fed) < in.size => BodyOpen(stream \o fed, in.resp, many, in.size - Len(fed))
        /\ in.size = Unlimited => BodyOpen(stream \o fed, in.resp, many, in.size)
    BY <1>1, <1>2, <1>3, <2>4, BodyFramed
  <2>6. many => \A m : BodyOpen(stream \o fed, in.resp, TRUE, m)
    BY <1>1, <2>5
  <2> QED BY <1>2, <2>2, <2>3, <2>5, <2>6 DEF many
<1> QED BY <1>4, <1>5

LEMMA InRawStream ==
  ASSUME DataInv, StreamInv, InRaw
  PROVE  StreamInv'
<1> DEFINE n    == CopySize(recvInBuf, in.size)
           left == in.size - n
           fed  == [i \in 1..n |-> Tok("data", in.resp, "-")]
           over == left = 0 /\ ~in.chunked
           body == IF in.dumped THEN sendInBuf ELSE sendInBuf \o fed
           z    == IF in.size = Unlimited THEN in.size ELSE left
           many == in.chain \/ in.chunked
           W    == browser.got \o body
           e    == Tok("end", in.resp, "-")
<1>i. /\ in \in In /\ in.size \in Nat /\ in.resp \in Nat /\ in.chunked \in BOOLEAN
      /\ browser.got \in Seq(Token) /\ sendInBuf \in Seq(Token)
  BY StreamOK, TokensDef DEF In
<1>n. n \in Nat /\ n <= in.size /\ left \in Nat /\ (left > 0 => 0 < n /\ n < in.size)
  <2>1. recvInBuf \in Seq(Token) /\ recvInBuf # <<>>
    BY TokensDef DEF InRaw, DataInv, ResponseInv
  <2>2. Len(recvInBuf) \in Nat /\ Len(recvInBuf) > 0
    BY <2>1, LenProperties, EmptySeq
  <2> QED BY <1>i, <2>2 DEF CopySize
<1>s. inStep = "RAW" /\ pc = "procIn" /\ pc' = pc /\ UNCHANGED <<browser, brConn, brSecure>>
  BY DEF InRaw
<1>p. PICK killed \in {FALSE, BodyKill /\ in.chain /\ ~in.dumped} :
        /\ in' = [in EXCEPT !.size = z, !.dumped = in.dumped \/ killed \/ over]
        /\ inStep' = IF left > 0 THEN "RAW" ELSE IF in.chunked THEN "CHUNK" ELSE "FINISH"
        /\ sendInBuf' = IF over THEN Ended(body, in.resp, in) ELSE body
  BY DEF InRaw
<1>u. UNCHANGED <<in.resp, in.chain, in.chunked>> /\ in'.size = z
  BY <1>i, <1>p DEF In
<1>g. WellFramed(browser'.got) /\ (Talking' => Talking)
  BY <1>s DEF StreamInv, Talking
<1> HIDE DEF n
<1>b. ASSUME Talking
      PROVE  /\ W \in Tokens /\ WellFramed(W)
             /\ many => \A m : BodyOpen(W, in.resp, TRUE, m)
             /\ 0 < n /\ n < in.size => BodyOpen(W, in.resp, many, in.size - n)
             /\ in.size = Unlimited => BodyOpen(W, in.resp, many, in.size)
  BY <1>b, <1>n, <1>s, FeedStream
<1> HIDE DEF fed, e
<1>1. CASE left > 0
  <2>1. inStep' = "RAW" /\ sendInBuf' = body
    BY <1>1, <1>p
  <2>2. stream' = W
    BY <1>s, <2>1 DEF stream
  <2>3. ASSUME Talking PROVE BodyOpen(W, in.resp, many, z)
    BY <1>1, <1>b, <1>n, <2>3
  <2> HIDE DEF W, z, many
  <2>4. Talking' => WellFramed(stream') /\ BodyOpen(stream', in.resp, many, z)
    BY <1>b, <1>g, <2>2, <2>3
  <2> QED BY <1>g, <1>u, <2>1, <2>4 DEF StreamInv, BodyIsOpen, Passing, many
<1>2. CASE left = 0 /\ in.chunked
  <2>1. inStep' = "CHUNK" /\ sendInBuf' = body
    BY <1>2, <1>p
  <2>2. stream' = W
    BY <1>s, <2>1 DEF stream
  <2>3. ASSUME Talking PROVE BodyOpen(W, in.resp, many, z)
    BY <1>2, <1>b, <2>3
  <2> HIDE DEF W, z, many
  <2>4. Talking' => WellFramed(stream') /\ BodyOpen(stream', in.resp, many, z)
    BY <1>b, <1>g, <2>2, <2>3
  <2> QED BY <1>g, <1>u, <2>1, <2>4 DEF StreamInv, BodyIsOpen, Passing, many
<1>3. CASE left = 0 /\ ~in.chunked
  <2>1. inStep' = "FINISH" /\ sendInBuf' = Ended(body, in.resp, in)
    BY <1>3, <1>p
  <2>2. ASSUME Talking, in.chain PROVE WellFramed(stream')
    <3>1. WellFramed(Append(W, e))
      BY <1>b, <1>i, <2>2, EndFramed DEF e
    <3>2. sendInBuf' = Append(body, e)
      BY <2>1, <2>2 DEF Ended, e
    <3>3. e \in Token /\ body \in Seq(Token) /\ W \in Seq(Token) /\ <<e>> \in Seq(Token)
      <4>1. e \in Token
        BY <1>i, TokenOK DEF e, Kinds, Values
      <4>2. fed \in Seq(Token)
        BY <1>n, <1>i, PiecesFed, TokensDef DEF fed
      <4>3. body \in Seq(Token)
        BY <1>i, <4>2, ConcatProperties
      <4> QED BY <1>i, <4>1, <4>3, ConcatProperties
    <3> HIDE DEF body
    <3>4. Append(body, e) = body \o <<e>> /\ Append(W, e) = W \o <<e>>
      BY <3>3, AppendIsConcat
    <3>5. W \o <<e>> = browser.got \o (body \o <<e>>)
      BY <1>i, <3>3, Regrouped
    <3>6. stream' = browser.got \o (body \o <<e>>)
      BY <1>s, <3>2, <3>4 DEF stream
    <3> QED BY <3>1, <3>4, <3>5, <3>6
  <2>3. ASSUME Talking, ~in.chain PROVE WellFramed(stream')
    <3>1. sendInBuf' = body
      BY <1>3, <2>1, <2>3 DEF Ended
    <3>2. stream' = W
      BY <1>s, <3>1 DEF stream
    <3> QED BY <1>b, <2>3, <3>2
  <2> QED BY <1>g, <2>1, <2>2, <2>3, NoBody DEF InBody
<1> QED BY <1>1, <1>2, <1>3, <1>n

LEMMA InTunnelingStream ==
  ASSUME DataInv, SourceInv, StreamInv, InTunneling
  PROVE  StreamInv'
<1>i. browser.got \in Seq(Token) /\ sendInBuf \in Seq(Token) /\ stream \in Tokens
  BY StreamOK, TokensDef
<1>s. inStep = "TUNNELING" /\ pc = "procIn" /\ UNCHANGED <<browser, brConn, brSecure, in>>
  BY DEF InTunneling, socketVars, dataVars
<1>g. WellFramed(browser'.got) /\ (Talking' <=> Talking)
  BY <1>s DEF StreamInv, Talking
<1>1. CASE ~Passing
  <2>1. inStep' = "START" /\ sendInBuf' = sendInBuf
    BY <1>1, <1>s DEF InTunneling, Passing, inBufs
  <2>2. stream' = stream
    BY <1>s, <2>1 DEF stream
  <2> QED BY <1>g, <2>1, <2>2, NoBody DEF StreamInv, InBody
<1>2. CASE Passing
  <2>1. inStep' = inStep /\ sendInBuf' = sendInBuf \o recvInBuf
    BY <1>2, <1>s DEF InTunneling, Passing
  <2>2. recvInBuf \in Tokens /\ recvInBuf \in Seq(Token) /\ \A l \in 1..Len(recvInBuf) : ~IsHead(recvInBuf[l])
    <3>1. recvInBuf \in Tokens
      BY DEF DataInv, ResponseInv
    <3>2. \A l \in 1..Len(recvInBuf) : recvInBuf[l] \in Plain
      BY ElementOfSeq DEF SourceInv
    <3> QED BY <3>1, <3>2, TokensDef DEF Plain
  <2>3. stream' = stream \o recvInBuf
    <3>1. (browser.got \o sendInBuf) \o recvInBuf = browser.got \o (sendInBuf \o recvInBuf)
      BY <1>i, <2>2, Regrouped
    <3> QED BY <1>s, <2>1, <3>1 DEF stream
  <2>4. Talking => WellFramed(stream') /\ TunnelOpen(stream')
    BY <1>2, <1>i, <2>2, <2>3, TunnelFramed DEF StreamInv
  <2> QED BY <1>g, <1>s, <2>1, <2>4 DEF StreamInv
<1> QED BY <1>1, <1>2

LEMMA StreamThread ==
  ASSUME DataInv, SourceInv, ChunkedInv, FlushedInv, StreamInv, Thread
  PROVE  StreamInv'
<1>b. /\ sendInBuf \in Tokens /\ brConn \in BOOLEAN /\ out.req \in Nat /\ in \in In
      /\ ret # "awaitLocal" /\ ConnectReturn # "awaitLocal"
  BY StreamOK DEF DataInv, CountInv, Returns, ConnectReturn
<1>c. {"200", "302", "503", "50x"} \subseteq Codes
  BY DEF Codes
<1>n. "FINISH" \notin InBody /\ "START" \notin InBody
  BY DEF InBody
<1>k. UNCHANGED <<browser, sendInBuf>> /\ brConn' \in {brConn, FALSE}
        => /\ browser'.got = browser.got
           /\ Talking' => Talking /\ stream' = stream
  <2>1. UNCHANGED <<browser, sendInBuf>> => browser'.got = browser.got /\ stream' = stream
    BY DEF stream
  <2>2. UNCHANGED browser /\ brConn' = brConn => (Talking' => Talking)
    BY ZenonT(20) DEF Talking
  <2>3. brConn' = FALSE => ~Talking'
    BY ZenonT(20) DEF Talking
  <2>4. brConn' \in {brConn, FALSE} => brConn' = brConn \/ brConn' = FALSE
    OBVIOUS
  <2>5. UNCHANGED <<browser, sendInBuf>> => UNCHANGED browser
    BY Zenon
  <2> QED BY <2>1, <2>2, <2>3, <2>4, <2>5, ZenonT(20)
<1>s. SendIn(sendInBuf, TRUE)
        => /\ browser'.got = browser.got \/ (Talking /\ browser'.got = stream)
           /\ Talking' => Talking /\ stream' = stream
  BY <1>b, SendInStream DEF stream
<1>r. ReceiveOut /\ sendInBuf' = sendInBuf
        => /\ browser'.got = browser.got
           /\ Talking' => Talking /\ stream' = stream
  BY ReceiveOutStream DEF stream
<1>f. \A v \in {"302", "50x"} : Tok("fake", out.req, v) \in Token /\ Tok("fake", out.req, v).k = "fake"
  <2>1. "fake" \in Kinds /\ {"302", "50x"} \subseteq Values
    BY <1>c DEF Kinds, Values
  <2> QED BY <1>b, <2>1, TokenOK DEF Tok
<1>e. ASSUME SendIn(sendInBuf, FALSE) \/ UNCHANGED <<sendInBuf, browser, brConn>>, inStep' = "START"
      PROVE  StreamInv'
  <2>1. /\ browser'.got = browser.got \/ (Talking /\ browser'.got = stream)
        /\ Talking' => Talking /\ stream' = stream
    BY <1>b, <1>e, <1>k, SendInStream DEF stream
  <2> QED BY <1>e, <1>n, <2>1, NoBody DEF StreamInv
<1> USE DEF stepVars, dataVars, socketVars, inBufs
<1>1. CASE ManageLoop
  <2>1. CASE OuterReceive \/ InnerReceiveOut \/ OuterSend \/ InnerSendIn \/ TrailSend
    <3>1. /\ (ReceiveOut /\ sendInBuf' = sendInBuf) \/ SendIn(sendInBuf, TRUE)
          /\ UNCHANGED <<inStep, in, brSecure>> /\ pc # "awaitLocal"
      BY <2>1 DEF OuterReceive, InnerReceiveOut, OuterSend, InnerSendIn, TrailSend
    <3> QED BY <3>1, <1>r, <1>s, Undisturbed
  <2>2. CASE \/ InnerSendOut \/ InnerReceiveIn \/ InnerEnd \/ TrailReceive \/ OuterEnd \/ Destroy
    <3>1. UNCHANGED <<browser, sendInBuf, inStep, in, brSecure>> /\ pc # "awaitLocal"
      BY <2>2 DEF InnerSendOut, InnerReceiveIn, InnerEnd, TrailReceive, OuterEnd, Destroy
    <3>2. brConn' \in {brConn, FALSE}
      BY <2>2, <1>b DEF InnerSendOut, InnerReceiveIn, InnerEnd, TrailReceive, OuterEnd, Destroy,
          JudgeIf, Judge
    <3> QED BY <3>1, <3>2, <1>k, Undisturbed
  <2>3. CASE TrailFeed
    <3>1. UNCHANGED <<browser, brConn, brSecure>> /\ pc = "trailFeed"
      BY <2>3 DEF TrailFeed
    <3>2. CASE inStep \in {"RAW", "CHUNK"}
      <4>1. inStep' = "FINISH" /\ sendInBuf' = Ended(sendInBuf, in.resp, in)
        BY <2>3, <3>2 DEF TrailFeed
      <4> QED BY <3>1, <3>2, <4>1, <1>n, EndStream
    <3>3. CASE inStep \notin {"RAW", "CHUNK"}
      <4>1. UNCHANGED <<inStep, sendInBuf, in>>
        BY <2>3, <3>3 DEF TrailFeed
      <4> QED BY <3>1, <4>1, <1>k, Undisturbed
    <3> QED BY <3>2, <3>3
  <2>4. CASE Trail503
    BY <2>4, <1>b, <1>c, OwnResponse DEF Trail503
  <2> QED BY <1>1, <2>1, <2>2, <2>3, <2>4 DEF ManageLoop
<1>2. CASE ProcessOut
  <2>1. CASE OutFinish
    <3>1. inStep' = "START" /\ (SendIn(sendInBuf, FALSE) \/ UNCHANGED <<sendInBuf, browser, brConn>>)
      BY <2>1 DEF OutFinish, EndExchange
    <3> QED BY <3>1, <1>e
  <2>2. CASE OutStart
    <3>1. /\ UNCHANGED <<browser, sendInBuf, brConn, inStep, brSecure>> /\ pc = "procOut"
          /\ in' = Reset(in)
      BY <2>2 DEF OutStart
    <3>2. UNCHANGED <<in.resp, in.chain, in.chunked, in.size>> /\ in'.code = ""
      BY <3>1, <1>b DEF Reset, In
    <3> QED BY <3>1, <3>2, <1>k, Undisturbed
  <2>3. CASE \/ OutReturn \/ OutFirstLine \/ OutHeaders \/ OutDecodeBad \/ OutDecode \/ OutSend \/ OutChunk \/ OutRaw
             \/ OutTunneling
    <3>1. /\ UNCHANGED <<browser, sendInBuf, brConn, in, brSecure>> /\ pc # "awaitLocal"
          /\ inStep' \in {inStep, "START"}
      BY <2>3 DEF OutReturn, OutFirstLine, OutHeaders, OutDecodeBad, OutDecode, OutSend, OutChunk, OutRaw,
          OutTunneling
    <3> QED BY <3>1, <1>k, <1>n, Undisturbed
  <2> QED BY <1>2, <2>1, <2>2, <2>3 DEF ProcessOut
<1>3. CASE ConnectWebsite
  <2>1. CASE ConnectFlush
    <3>1. /\ UNCHANGED <<browser, brConn, brSecure, in>> /\ sendInBuf' = <<>> /\ pc = "connect"
          /\ inStep' \in {inStep, "START"}
      BY <2>1 DEF ConnectFlush
    <3>2. stream' = browser.got
      <4>1. browser.got \in Seq(Token)
        BY StreamOK, TokensDef
      <4>2. browser.got \o <<>> = browser.got
        BY <4>1, ConcatEmptySeq
      <4> QED BY <3>1, <4>2 DEF stream
    <3>3. CASE Talking /\ inStep' \in InBody
      <4>1. sendInBuf = <<>>
        BY <3>1, <3>3, <1>n DEF FlushedInv, InReturns
      <4> QED BY <3>1, <3>3, <4>1, <1>k, <1>n, Undisturbed
    <3>4. CASE ~(Talking /\ inStep' \in InBody)
      <4>1. Talking' => Talking
        BY <3>1 DEF Talking
      <4> QED BY <3>1, <3>2, <3>4, <4>1, NoBody DEF StreamInv
    <3> QED BY <3>3, <3>4
  <2>2. CASE LocalAnswer
    BY <2>2, <1>b, <1>c, <1>n, OwnResponse DEF LocalAnswer, Page
  <2>3. CASE ApiAnswer
    BY <2>3, <1>b, ApiStream DEF ApiAnswer
  <2>4. CASE LocalTls
    BY <2>4, LocalTlsStream
  <2>5. CASE AwaitLine
    <3>1. ReceiveOut /\ UNCHANGED <<sendInBuf, inStep, in, brSecure>> /\ pc' = "awaitLocal"
      BY <2>5 DEF AwaitLine
    <3> QED BY <3>1, <1>r, Undisturbed
  <2>6. CASE AwaitLocal
    <3> DEFINE r == IF NextIs(recvOutBuf, {"line"}) THEN Head(recvOutBuf).r ELSE out.req
    <3>1. r \in Nat
      <4>1. CASE NextIs(recvOutBuf, {"line"})
        <5>1. Head(recvOutBuf) \in Piece(Len(reqs))
          BY <4>1, HeadTailProperties DEF NextIs, DataInv, RequestInv
        <5>2. Len(reqs) \in Nat
          BY StreamOK
        <5> QED BY <4>1, <5>1, <5>2 DEF Piece
      <4> QED BY <4>1, <1>b
    <3>2. \/ inStep' = "FINISH" /\ SendIn(<<Tok("fake", r, "200")>>, TRUE)
          \/ ApiWrite(r)
      BY <2>6 DEF AwaitLocal, SecurePage
    <3> HIDE DEF r
    <3> QED BY <3>1, <3>2, <1>c, <1>n, OwnResponse, ApiStream
  <2>7. CASE Jump \/ ConnectFail
    <3>1. /\ browser' = browser /\ inStep' = "FINISH"
          /\ \E v \in {"302", "50x"} : sendInBuf' = <<Tok("fake", out.req, v)>>
      BY <2>7 DEF Jump, ConnectFail, Fake
    <3> QED BY <3>1, <1>f, <1>n, OwnAnswer
  <2>8. CASE ConnectOpen
    <3>1. CASE out.method = "CONNECT"
      BY <2>8, <3>1, ConnectOpenStream
    <3>2. CASE out.method # "CONNECT"
      <4>1. UNCHANGED <<browser, brConn, brSecure, in, inStep, sendInBuf>> /\ pc = "route"
        BY <2>8, <3>2 DEF ConnectOpen, ToWebsite
      <4> QED BY <4>1, <1>k, Undisturbed
    <3> QED BY <3>1, <3>2
  <2>9. CASE Established
    <3>1. SendIn(sendInBuf, TRUE) /\ UNCHANGED <<inStep, in, brSecure>> /\ pc = "established"
      BY <2>9 DEF Established
    <3> QED BY <3>1, <1>s, Undisturbed
  <2>10. CASE AwaitProxy
    <3>1. /\ UNCHANGED <<browser, brConn, brSecure, inStep, sendInBuf>> /\ pc = "awaitProxy"
          /\ \E code \in {"200", "50x", in.code} : in' = [in EXCEPT !.code = code]
      BY <2>10 DEF AwaitProxy
    <3>2. /\ UNCHANGED <<in.resp, in.chain, in.chunked, in.size>>
          /\ in'.code \in {"200", "50x", in.code}
      BY <3>1, <1>b DEF In
    <3> QED BY <3>1, <3>2, <1>k, Undisturbed
  <2>11. CASE Tls
    <3>1. UNCHANGED <<browser, sendInBuf, inStep, in>> /\ pc = "tls"
      BY <2>11 DEF Tls
    <3>2. brConn' \in {brConn, FALSE}
      BY <2>11 DEF Tls
    <3>3. brSecure => brSecure'
      BY <2>11 DEF Tls
    <3> QED BY <3>1, <3>2, <3>3, <1>k, Undisturbed
  <2>12. CASE Rdir \/ ConnectReuse \/ ViaProxy \/ Resend \/ InRedirected
    <3>1. UNCHANGED <<browser, brConn, brSecure, in, inStep, sendInBuf>> /\ pc # "awaitLocal"
      BY <2>12 DEF Rdir, ConnectReuse, ViaProxy, Resend, InRedirected, ToWebsite
    <3> QED BY <3>1, <1>k, Undisturbed
  <2>13. CASE LocalSecure
    <3>1. CASE SecurePage(out.req, TRUE)
      <4>1. \/ inStep' = "FINISH" /\ SendIn(<<Tok("fake", out.req, "200")>>, TRUE)
            \/ ApiWrite(out.req)
        BY <3>1 DEF SecurePage
      <4> QED BY <4>1, <1>b, <1>c, <1>n, OwnResponse, ApiStream
    <3>2. CASE UNCHANGED <<inStep, sendInBuf, browser, brConn>>
      <4>1. UNCHANGED <<in, brSecure>> /\ pc = "route"
        BY <2>13 DEF LocalSecure
      <4> QED BY <3>2, <4>1, <1>k, Undisturbed
    <3> QED BY <2>13, <3>1, <3>2 DEF LocalSecure
  <2> QED BY <1>3, <2>1, <2>2, <2>3, <2>4, <2>5, <2>6, <2>7, <2>8, <2>9, <2>10, <2>11, <2>12, <2>13
          DEF ConnectWebsite
<1>4. CASE ProcessIn
  <2>1. CASE InReturn \/ InStart \/ InFirstLine \/ InGarbage \/ InHeaders \/ InDecodeBad
    <3>1. /\ UNCHANGED <<browser, brConn, brSecure, sendInBuf>> /\ pc = "procIn"
          /\ \/ UNCHANGED <<inStep, in>>
             \/ inStep' \in {"FIRSTLINE", "HEADERS", "DECODE", "FINISH"}
      BY <2>1 DEF InReturn, InStart, InFirstLine, InGarbage, InHeaders, InDecodeBad
    <3> QED BY <3>1, <1>k, Undisturbed DEF InBody
  <2>2. CASE InDecode
    <3> DEFINE d == [in EXCEPT !.chunked = @ \/ (Says({"chunk"}) /\ out.method # "HEAD"),
                               !.size = BodySize]
               Goes(f, h, chain) ==
                 IF (IF f = "none" THEN owner.rdir ELSE f) # "none" /\ redirectedIn < MaxRedirect
                 THEN in' = d /\ inStep' = inStep /\ sendInBuf' = sendInBuf
                 ELSE Relay([d EXCEPT !.chain = chain /\ ContentType, !.dumped = FALSE])
    <3>1. \E f \in InFilters :
            \E h \in (IF f \in {"jump", "rdir"} THEN Hosts ELSE {owner.rdirHost}), chain \in Chains :
              Goes(f, h, chain)
      BY <2>2, ZenonT(40) DEF InDecode
    <3>2. PICK f, h, chain : Goes(f, h, chain)
      BY <3>1
    <3> DEFINE c == in.chunked \/ (Says({"chunk"}) /\ out.method # "HEAD")
               g == chain /\ ContentType
               i == [d EXCEPT !.chain = g, !.dumped = FALSE]
    <3>3. (inStep' = inStep /\ sendInBuf' = sendInBuf) \/ Relay(i)
      BY <3>2
    <3>4. UNCHANGED <<browser, brConn, brSecure>> /\ pc = "procIn" /\ inStep = "DECODE"
      BY <2>2 DEF InDecode
    <3>5. CASE inStep' = inStep /\ sendInBuf' = sendInBuf
      BY <3>4, <3>5, <1>k, Undisturbed DEF InBody
    <3>6. CASE Relay(i)
      <4>1. BodySize \in {0, 1, 2, Unlimited} /\ (out.method = "HEAD" => BodySize = 0)
        BY DEF BodySize
      <4>2. out.method = "HEAD" => ~c
        BY <3>4 DEF ChunkedInv
      <4>3. c \in BOOLEAN /\ g \in BOOLEAN /\ BodySize \in Nat
        BY BodySizeOK
      <4>4. i.size = BodySize /\ i.chunked = c
        BY <1>b DEF In
      <4> HIDE DEF c, g
      <4>5. [in EXCEPT !.chunked = c, !.size = BodySize] \in In
        BY <1>b, <4>3, InChanged
      <4>6. i \in In
        <5> DEFINE j == [in EXCEPT !.chunked = c, !.size = BodySize]
        <5>1. j \in In
          BY <4>5
        <5>2. i = [j EXCEPT !.chain = g, !.dumped = FALSE]
          BY DEF c
        <5> HIDE DEF i, j, d
        <5> QED BY <4>3, <5>1, <5>2, InChanged
      <4> HIDE DEF i, d, Goes
      <4> QED BY <3>4, <3>6, <4>1, <4>2, <4>4, <4>6, RelayStream
    <3> QED BY <3>3, <3>5, <3>6
  <2>3. CASE InChunk
    BY <2>3, InChunkStream
  <2>4. CASE InRaw
    BY <2>4, InRawStream
  <2>5. CASE InTunneling
    BY <2>5, InTunnelingStream
  <2>6. CASE InFinish
    <3>1. inStep' = "START" /\ (SendIn(sendInBuf, FALSE) \/ UNCHANGED <<sendInBuf, browser, brConn>>)
      BY <2>6 DEF InFinish, EndExchange
    <3> QED BY <3>1, <1>e
  <2> QED BY <1>4, <2>1, <2>2, <2>3, <2>4, <2>5, <2>6 DEF ProcessIn
<1> QED BY <1>1, <1>2, <1>3, <1>4 DEF Thread

FramingInv == PathInv /\ SourceInv /\ ChunkedInv /\ FlushedInv /\ StreamInv

LEMMA FramingInit == Init => FramingInv
<1> SUFFICES ASSUME Init PROVE FramingInv
  OBVIOUS
<1>1. /\ pc = "outerReceive" /\ inStep = "START" /\ sendInBuf = <<>>
      /\ recvInBuf = <<>> /\ website = Disconnected /\ browser.got = <<>>
  BY DEF Init
<1>2. PathInv /\ ChunkedInv /\ FlushedInv
  BY <1>1 DEF PathInv, Routing, Connecting, ChunkedInv, FlushedInv, InBody
<1>3. SourceInv
  BY <1>1 DEF SourceInv, Disconnected
<1>4. browser.got \o sendInBuf = <<>> /\ WellFramed(<<>>)
  BY <1>1 DEF WellFramed
<1>5. StreamInv
  BY <1>1, <1>4 DEF StreamInv, stream, Passing
<1> QED BY <1>2, <1>3, <1>5 DEF FramingInv

LEMMA FramingStep == DataInv /\ FramingInv /\ [Next]_vars => FramingInv'
<1> SUFFICES ASSUME DataInv, FramingInv, [Next]_vars PROVE FramingInv'
  OBVIOUS
<1>1. PathInv' /\ ChunkedInv' /\ FlushedInv'
  BY PathStep, ChunkedStep, FlushedStep DEF FramingInv
<1> USE DEF stepVars, dataVars, socketVars, inBufs
<1>2. CASE UNCHANGED vars \/ Terminated
  <2>1. UNCHANGED <<recvInBuf, website, browser, sendInBuf, brConn, brSecure, inStep, in, pc>>
    BY <1>2 DEF vars, Terminated
  <2>2. SourceInv'
    BY <2>1 DEF FramingInv, SourceInv
  <2>3. StreamInv'
    BY <2>1, Undisturbed DEF FramingInv, Talking, stream
  <2> QED BY <1>1, <2>2, <2>3 DEF FramingInv
<1>3. CASE Environment
  <2>1. SourceInv'
    BY <1>3, SourceEnvironment DEF FramingInv
  <2>2. UNCHANGED <<sendInBuf, brConn, brSecure, inStep, in, pc>>
    BY <1>3, EnvironmentLeavesThread DEF threadVars
  <2>3. browser'.got = browser.got /\ (Talking' => Talking) /\ stream' = stream
    BY <1>3, <2>2, OpenStays DEF Talking, stream
  <2>4. StreamInv'
    BY <2>2, <2>3, Undisturbed DEF FramingInv
  <2> QED BY <1>1, <2>1, <2>4 DEF FramingInv
<1>4. CASE Thread
  <2>1. SourceInv'
    BY <1>4, SourceThread DEF FramingInv
  <2>2. StreamInv'
    BY <1>4, StreamThread DEF FramingInv
  <2> QED BY <1>1, <2>1, <2>2 DEF FramingInv
<1> QED BY <1>2, <1>3, <1>4 DEF Next

\* For any requests, responses, filters and bounds: the browser can parse what
\* it gets.  A piece of a body belongs to the response whose head came last and
\* was announced by it, and a chunked body ends once, however the exchange is
\* cut short.
THEOREM ResponseFramedHolds == Spec => []ResponseFramed
<1>1. FramingInv => ResponseFramed
  BY DEF FramingInv, StreamInv, ResponseFramed
<1> QED BY DataInit, DataStep, FramingInit, FramingStep, <1>1, PTL DEF Spec

=============================================================================
