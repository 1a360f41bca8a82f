----------------------------- MODULE SmpProofs ------------------------------
(***************************************************************************)
(* The framing of ez::smp for every size of the meta, the buffers and the  *)
(* messages, and any number of messages.                                   *)
(***************************************************************************)
EXTENDS Smp, SequenceTheorems, TLAPS

Byte == Nat \X Nat
Sizes == [h : 1..MAX_HEADER, b : 0..MAX_DATA]
IsSeq(s) == s \in Seq({s[j] : j \in DOMAIN s})

(* smp::impl has these fields, whatever a header in pieces has put there. *)
Fields == {"state", "header", "size", "pos", "new_header", "header_size", "body_size",
           "body", "bpos", "split"}
SmpStates == {"waiting_meta", "waiting_header", "waiting_body", "sending_data", "send_complete"}
Shape(e) == e = [f \in Fields |-> e[f]] /\ e.state \in SmpStates

-----------------------------------------------------------------------------
(* The bytes u that a receiver still has to read, in the channel or in the *)
(* sender's buffer: from any byte of a frame on they run to the end of the *)
(* frame, and then into the next frame or out of messages.                 *)
FrameSize(from, m) == Meta + from[m].h + from[m].b

Flow(u, from) ==
    \A j \in 1..Len(u) :
        LET m == u[j][1]
            i == u[j][2]
            left == FrameSize(from, m) - i
        IN /\ m \in 1..Len(from) /\ i \in Nat /\ left > 0
           /\ j + left - 1 <= Len(u)
           /\ \A d \in 0..(left - 1) : u[j + d] = <<m, i + d>>
           /\ j + left - 1 = Len(u) => m = Len(from)
           /\ j + left - 1 < Len(u) => u[j + left] = <<m + 1, 0>>

(* The next byte is byte i of frame n. *)
NextIs(u, from, n, i) ==
    IF u = <<>> THEN n = Len(from) + 1 /\ i = 0 ELSE u[1] = <<n, i>>

Ahead(ch, tail, from, n, i) ==
    /\ ch \in Seq(Byte) /\ tail \in Seq(Byte)
    /\ Flow(ch \o tail, from) /\ NextIs(ch \o tail, from, n, i)

(* Where a receiver stands in message n: between messages, in the meta, in *)
(* the header, in the body.                                                *)
Memory(e) == Shape(e) /\ e.header \in Seq(Byte) /\ e.size \in Nat /\ e.size <= Len(e.header)

Between(e, ch, tail, from, n) ==
    /\ Memory(e) /\ ~e.split
    /\ e.pos = 0 /\ Ahead(ch, tail, from, n, 0)

InMeta(e, ch, tail, from, n) ==
    /\ Memory(e) /\ ~e.split
    /\ e.state = "waiting_meta" /\ e.header_size = 0 /\ Meta <= e.size
    /\ e.pos \in 0..(Meta - 1) /\ (e.pos > 0 => e.header[1] = <<n, 0>>)
    /\ Ahead(ch, tail, from, n, e.pos)

InHeader(e, ch, tail, from, n) ==
    /\ Memory(e) /\ ~e.split
    /\ e.state = "waiting_header" /\ e.pos = 0
    /\ n \in 1..Len(from) /\ e.header_size = from[n].h /\ e.body_size = from[n].b
    /\ e.header_size <= e.size
    /\ Ahead(ch, tail, from, n, Meta)

InBody(e, ch, tail, from, n) ==
    /\ Memory(e) /\ ~e.split
    /\ e.state = "waiting_body" /\ e.pos = 0
    /\ n \in 1..Len(from) /\ e.size = from[n].h /\ e.body_size = from[n].b
    /\ \A j \in 1..e.size : e.header[j] = <<n, Meta + j - 1>>
    /\ e.body \in Seq(Byte) /\ Len(e.body) = e.body_size
    /\ e.bpos \in 0..(e.body_size - 1)
    /\ \A j \in 1..e.bpos : e.body[j] = <<n, Meta + e.size + j - 1>>
    /\ Ahead(ch, tail, from, n, Meta + e.size + e.bpos)

(* Message n of a sender, as MessageOf has it. *)
Message(from, n) ==
    LET frame == Frame(n, from[n].h, from[n].b) IN
    [header |-> SubSeq(frame, Meta + 1, Meta + from[n].h),
     body   |-> SubSeq(frame, Meta + from[n].h + 1, Len(frame))]

Reading(e, ch, tail, from, n) ==
    \/ e.state = "send_complete" /\ Between(e, ch, tail, from, n)
    \/ InMeta(e, ch, tail, from, n)
    \/ InHeader(e, ch, tail, from, n)
    \/ InBody(e, ch, tail, from, n)

ReaderRight(ep) ==
    LET n == Len(delivered[ep]) + 1 IN
    IF app[ep] = "recv"
    THEN Reading(smp[ep], chan[ep], sendbuf[Peer(ep)], sent[Peer(ep)], n)
    ELSE Between(smp[ep], chan[ep], sendbuf[Peer(ep)], sent[Peer(ep)], n)

-----------------------------------------------------------------------------
ShapesRight ==
    /\ smp = [ep \in Endpoints |-> smp[ep]] /\ chan = [ep \in Endpoints |-> chan[ep]]
    /\ outcome = [ep \in Endpoints |-> outcome[ep]]
    /\ delivered = [ep \in Endpoints |-> delivered[ep]]
    /\ \A ep \in Endpoints : Shape(smp[ep]) /\ IsSeq(delivered[ep])
    /\ app \in [Endpoints -> {"send", "sending", "recv"}]
    /\ sent \in [Endpoints -> Seq(Sizes)]
    /\ sendbuf \in [Endpoints -> Seq(Byte)]

(* Only an application that is sending has bytes left to send. *)
SendersRight == \A ep \in Endpoints : app[ep] # "sending" => sendbuf[ep] = <<>>

SmpInv ==
    /\ ShapesRight /\ SendersRight
    /\ \A ep \in Endpoints : ~smp[ep].split => ReaderRight(ep)
    /\ HeaderIsTheApplications
    /\ OnlyResumableErrors

-----------------------------------------------------------------------------
(* The bytes behind the first k of a sequence. *)
LEMMA RestBytes ==
    ASSUME NEW u \in Seq(Byte), NEW k \in 0..Len(u)
    PROVE  /\ Rest(u, k) \in Seq(Byte) /\ Len(Rest(u, k)) = Len(u) - k
           /\ \A j \in 1..(Len(u) - k) : Rest(u, k)[j] = u[j + k]
<1>1. Len(u) \in Nat /\ \A j \in 1..Len(u) : u[j] \in Byte
  BY LenProperties, ElementOfSeq
<1>2. \A j \in (k + 1)..Len(u) : u[j] \in Byte
  BY <1>1
<1>3. QED
  BY <1>1, <1>2, SubSeqProperties DEF Rest

(* The first k bytes of a sequence. *)
LEMMA FirstBytes ==
    ASSUME NEW u \in Seq(Byte), NEW k \in 0..Len(u)
    PROVE  /\ SubSeq(u, 1, k) \in Seq(Byte) /\ Len(SubSeq(u, 1, k)) = k
           /\ \A j \in 1..k : SubSeq(u, 1, k)[j] = u[j]
<1>1. Len(u) \in Nat /\ \A j \in 1..Len(u) : u[j] \in Byte
  BY LenProperties, ElementOfSeq
<1>2. \A j \in 1..k : u[j] \in Byte
  BY <1>1
<1>3. QED
  BY <1>1, <1>2, SubSeqProperties

(* The size of a message that was sent. *)
LEMMA FrameSizes ==
    ASSUME NEW from \in Seq(Sizes), NEW m \in 1..Len(from)
    PROVE  /\ from[m].h \in 1..MAX_HEADER /\ from[m].b \in 0..MAX_DATA
           /\ from[m].h \in Nat \ {0} /\ from[m].b \in Nat
           /\ FrameSize(from, m) \in Nat
<1>1. from[m] \in Sizes
  BY ElementOfSeq
<1>2. from[m].h \in 1..MAX_HEADER /\ from[m].b \in 0..MAX_DATA
  BY <1>1 DEF Sizes
<1>3. QED
  BY SMTT(30), <1>2, SizesAssumption DEF FrameSize

(* Reading leaves a flow. *)
LEMMA FlowRest ==
    ASSUME NEW from \in Seq(Sizes), NEW u \in Seq(Byte), Flow(u, from), NEW k \in 0..Len(u)
    PROVE  Flow(Rest(u, k), from)
<1> DEFINE v == Rest(u, k)
<1>1. Len(u) \in Nat
  BY LenProperties
<1>2. Len(v) = Len(u) - k /\ \A j \in 1..(Len(u) - k) : v[j] = u[j + k]
  BY RestBytes
<1> HIDE DEF v
<1>3. ASSUME NEW j \in 1..Len(v)
      PROVE  LET m == v[j][1]
                 i == v[j][2]
                 left == FrameSize(from, m) - i
             IN /\ m \in 1..Len(from) /\ i \in Nat /\ left > 0
                /\ j + left - 1 <= Len(v)
                /\ \A d \in 0..(left - 1) : v[j + d] = <<m, i + d>>
                /\ j + left - 1 = Len(v) => m = Len(from)
                /\ j + left - 1 < Len(v) => v[j + left] = <<m + 1, 0>>
  <2>1. j + k \in 1..Len(u) /\ v[j] = u[j + k] /\ j \in Int /\ k \in Int
    BY <1>1, <1>2
  <2> DEFINE m == v[j][1]
             i == v[j][2]
             left == FrameSize(from, m) - i
  <2>2. /\ m \in 1..Len(from) /\ i \in Nat /\ left > 0
        /\ j + k + left - 1 <= Len(u)
        /\ \A d \in 0..(left - 1) : u[j + k + d] = <<m, i + d>>
        /\ j + k + left - 1 = Len(u) => m = Len(from)
        /\ j + k + left - 1 < Len(u) => u[j + k + left] = <<m + 1, 0>>
    BY <2>1 DEF Flow
  <2> HIDE DEF m, i
  <2>3. left \in Int
    BY <2>2, FrameSizes
  <2> HIDE DEF left
  <2>4. j + left - 1 <= Len(v)
    BY <1>1, <1>2, <2>1, <2>2, <2>3
  <2>5. \A d \in 0..(left - 1) : v[j + d] = <<m, i + d>>
    <3> TAKE d \in 0..(left - 1)
    <3>1. j + d \in 1..(Len(u) - k) /\ (j + d) + k = j + k + d
      BY <1>1, <1>2, <2>1, <2>3, <2>4
    <3>2. QED
      BY <1>2, <2>2, <3>1
  <2>6. j + left - 1 < Len(v) => v[j + left] = <<m + 1, 0>>
    <3> HAVE j + left - 1 < Len(v)
    <3>1. j + left \in 1..(Len(u) - k) /\ (j + left) + k = j + k + left /\ j + k + left - 1 < Len(u)
      BY <1>1, <1>2, <2>1, <2>2, <2>3
    <3>2. QED
      BY <1>2, <2>2, <3>1
  <2>7. j + left - 1 = Len(v) => m = Len(from)
    BY SMTT(30), <1>1, <1>2, <2>1, <2>2, <2>3
  <2>8. QED
    BY <2>2, <2>4, <2>5, <2>6, <2>7 DEF m, i, left
<1>4. QED
  BY <1>3 DEF Flow, v

(* A receiver in the middle of a message has the rest of it ahead. *)
LEMMA MessageAhead ==
    ASSUME NEW from, NEW ch, NEW tail, NEW n, NEW i, Ahead(ch, tail, from, n, i),
           i # 0 \/ ch # <<>>
    PROVE  /\ Len(ch \o tail) \in Nat \ {0} /\ (ch \o tail)[1] = <<n, i>>
           /\ n \in 1..Len(from) /\ i \in Nat /\ FrameSize(from, n) - i > 0
<1> DEFINE u == ch \o tail
<1>1. u \in Seq(Byte) /\ (ch # <<>> => u # <<>>)
  BY ConcatProperties, ConcatEqualIffEmpty DEF Ahead
<1>2. u # <<>> /\ u[1] = <<n, i>>
  BY <1>1 DEF Ahead, NextIs
<1>3. Len(u) \in Nat \ {0}
  BY <1>1, <1>2, EmptySeq
<1>4. Flow(u, from)
  BY DEF Ahead
<1> HIDE DEF u
<1>5. 1 \in 1..Len(u) /\ u[1][1] = n /\ u[1][2] = i
  BY <1>2, <1>3
<1>6. QED
  BY <1>2, <1>3, <1>4, <1>5 DEF Flow, u

(* channel.recv() of k bytes that belong to one message. *)
LEMMA Take ==
    ASSUME NEW from \in Seq(Sizes), NEW ch, NEW tail, NEW n, NEW i,
           Ahead(ch, tail, from, n, i),
           NEW k \in 1..Len(ch), k <= FrameSize(from, n) - i
    PROVE  /\ n \in 1..Len(from) /\ i \in Nat
           /\ \A d \in 1..k : ch[d] = <<n, i + d - 1>>
           /\ k < FrameSize(from, n) - i => Ahead(Rest(ch, k), tail, from, n, i + k)
           /\ k = FrameSize(from, n) - i => Ahead(Rest(ch, k), tail, from, n + 1, 0)
<1> DEFINE u == ch \o tail
           left == FrameSize(from, n) - i
<1>1. ch \in Seq(Byte) /\ tail \in Seq(Byte) /\ Flow(u, from)
  BY DEF Ahead
<1>2. Len(ch) \in Nat /\ Len(tail) \in Nat /\ k \in Nat /\ k <= Len(ch) /\ k > 0
  BY <1>1, LenProperties
<1>3. /\ u \in Seq(Byte) /\ Len(u) = Len(ch) + Len(tail)
      /\ \A j \in 1..(Len(ch) + Len(tail)) : u[j] = IF j <= Len(ch) THEN ch[j] ELSE tail[j - Len(ch)]
  BY <1>1, ConcatProperties
<1>4. ch # <<>>
  BY <1>2, EmptySeq
<1>5. u[1] = <<n, i>> /\ n \in 1..Len(from) /\ i \in Nat /\ left > 0
  BY <1>4, MessageAhead
<1>6. /\ 1 + left - 1 <= Len(u)
      /\ \A d \in 0..(left - 1) : u[1 + d] = <<n, i + d>>
      /\ 1 + left - 1 = Len(u) => n = Len(from)
      /\ 1 + left - 1 < Len(u) => u[1 + left] = <<n + 1, 0>>
  <2>1. 1 \in 1..Len(u) /\ u[1][1] = n /\ u[1][2] = i
    BY <1>2, <1>3, <1>5
  <2> HIDE DEF u
  <2>2. QED
    BY <1>1, <2>1 DEF Flow
<1> HIDE DEF left
<1>7. left \in Int /\ k <= left
  BY <1>5, FrameSizes DEF left
<1>8. \A d \in 1..k : ch[d] = <<n, i + d - 1>>
  <2> TAKE d \in 1..k
  <2>1. d - 1 \in 0..(left - 1) /\ 1 + (d - 1) = d /\ i + (d - 1) = i + d - 1
        /\ d \in 1..(Len(ch) + Len(tail)) /\ d <= Len(ch)
    BY <1>2, <1>5, <1>7
  <2>2. u[1 + (d - 1)] = <<n, i + (d - 1)>>
    BY <1>6, <2>1
  <2>3. QED
    BY <1>3, <2>1, <2>2
<1> DEFINE v == Rest(ch, k) \o tail
<1> HIDE DEF u
<1>8a. k \in 0..Len(ch) /\ k \in 0..Len(u)
  BY <1>2, <1>3
<1>9. v = Rest(u, k) /\ Rest(ch, k) \in Seq(Byte)
  <2>1. /\ Rest(ch, k) \in Seq(Byte) /\ Len(Rest(ch, k)) = Len(ch) - k
        /\ \A j \in 1..(Len(ch) - k) : Rest(ch, k)[j] = ch[j + k]
    BY <1>1, <1>8a, RestBytes
  <2>2. /\ Rest(u, k) \in Seq(Byte) /\ Len(Rest(u, k)) = Len(u) - k
        /\ \A j \in 1..(Len(u) - k) : Rest(u, k)[j] = u[j + k]
    BY <1>3, <1>8a, RestBytes
  <2>3. /\ v \in Seq(Byte) /\ Len(v) = (Len(ch) - k) + Len(tail)
        /\ \A j \in 1..((Len(ch) - k) + Len(tail)) :
              v[j] = IF j <= Len(ch) - k THEN Rest(ch, k)[j] ELSE tail[j - (Len(ch) - k)]
    <3>1. ASSUME NEW r \in Seq(Byte), Len(r) = Len(ch) - k
          PROVE  /\ r \o tail \in Seq(Byte) /\ Len(r \o tail) = (Len(ch) - k) + Len(tail)
                 /\ \A j \in 1..((Len(ch) - k) + Len(tail)) :
                       (r \o tail)[j] = IF j <= Len(ch) - k THEN r[j] ELSE tail[j - (Len(ch) - k)]
      <4>1. /\ r \o tail \in Seq(Byte) /\ Len(r \o tail) = Len(r) + Len(tail)
            /\ \A j \in 1..(Len(r) + Len(tail)) :
                  (r \o tail)[j] = IF j <= Len(r) THEN r[j] ELSE tail[j - Len(r)]
        BY <1>1, ConcatProperties
      <4>2. QED
        BY <3>1, <4>1
    <3>2. QED
      BY <2>1, <3>1
  <2>4. \A j \in 1..Len(v) : v[j] = Rest(u, k)[j]
    BY SMTT(30), <1>2, <1>3, <2>1, <2>2, <2>3
  <2>5. Len(v) = Len(Rest(u, k))
    BY <1>2, <1>3, <2>2, <2>3
  <2> HIDE DEF v
  <2>6. QED
    BY <2>1, <2>2, <2>3, <2>4, <2>5, SeqEqual
<1>10. Flow(v, from)
  BY <1>1, <1>3, <1>8a, <1>9, FlowRest
<1>11. Len(v) = Len(u) - k /\ \A j \in 1..(Len(u) - k) : v[j] = u[j + k]
  <2> HIDE DEF v
  <2>1. QED
    BY <1>3, <1>8a, <1>9, RestBytes
<1>12. v \in Seq(Byte)
  BY <1>1, <1>9, ConcatProperties
<1> HIDE DEF v
<1>13. ASSUME k < left PROVE NextIs(v, from, n, i + k)
  <2>1. 1 \in 1..(Len(u) - k) /\ k \in 0..(left - 1)
    BY <1>2, <1>3, <1>6, <1>7, <1>13
  <2>2. v[1] = <<n, i + k>>
    BY <1>6, <1>11, <2>1
  <2>3. v # <<>>
    BY <1>2, <1>3, <1>11, <2>1, EmptySeq
  <2>4. QED
    BY <2>2, <2>3 DEF NextIs
<1>14. ASSUME k = left PROVE NextIs(v, from, n + 1, 0)
  <2>1. CASE v = <<>>
    <3>1. Len(v) = 0
      BY <2>1, EmptySeq
    <3>2. 1 + left - 1 = Len(u)
      BY <1>2, <1>3, <1>7, <1>11, <1>14, <3>1
    <3>3. QED
      BY <1>6, <2>1, <3>2 DEF NextIs
  <2>2. CASE v # <<>>
    <3>1. Len(v) \in Nat \ {0}
      BY <1>12, <2>2, EmptySeq
    <3>2. 1 + left - 1 < Len(u) /\ 1 \in 1..(Len(u) - k)
      BY <1>2, <1>3, <1>7, <1>11, <1>14, <3>1
    <3>3. v[1] = <<n + 1, 0>>
      BY <1>6, <1>11, <1>14, <3>2
    <3>4. QED
      BY <2>2, <3>3 DEF NextIs
  <2>3. QED
    BY <2>1, <2>2
<1>15. QED
  BY <1>1, <1>5, <1>8, <1>9, <1>10, <1>13, <1>14 DEF Ahead, left, v, u

-----------------------------------------------------------------------------
(* channel.send() moves bytes from the sender's buffer to the channel. *)
LEMMA Moved ==
    ASSUME NEW ch \in Seq(Byte), NEW tail \in Seq(Byte), NEW k \in 0..Len(tail)
    PROVE  /\ ch \o SubSeq(tail, 1, k) \in Seq(Byte) /\ Rest(tail, k) \in Seq(Byte)
           /\ (ch \o SubSeq(tail, 1, k)) \o Rest(tail, k) = ch \o tail
           /\ k = Len(tail) => Rest(tail, k) = <<>>
<1> DEFINE a == SubSeq(tail, 1, k)
           r == Rest(tail, k)
<1>1. /\ a \in Seq(Byte) /\ Len(a) = k /\ \A j \in 1..k : a[j] = tail[j]
  BY FirstBytes
<1>2. /\ r \in Seq(Byte) /\ Len(r) = Len(tail) - k
      /\ \A j \in 1..(Len(tail) - k) : r[j] = tail[j + k]
  BY RestBytes
<1>3. Len(tail) \in Nat
  BY LenProperties
<1> HIDE DEF a, r
<1>4. a \o r = tail
  <2>1. /\ a \o r \in Seq(Byte) /\ Len(a \o r) = Len(a) + Len(r)
        /\ \A j \in 1..(Len(a) + Len(r)) : (a \o r)[j] = IF j <= Len(a) THEN a[j] ELSE r[j - Len(a)]
    BY <1>1, <1>2, ConcatProperties
  <2>2. Len(a) + Len(r) = Len(tail) /\ k \in Nat
    BY <1>1, <1>2, <1>3
  <2>3. ASSUME NEW j \in 1..Len(tail) PROVE (a \o r)[j] = tail[j]
    <3>1. CASE j <= k
      BY <1>1, <1>3, <2>1, <2>2, <3>1
    <3>2. CASE ~(j <= k)
      <4>1. j - k \in 1..(Len(tail) - k) /\ (j - k) + k = j
        BY <1>3, <2>2, <3>2
      <4>2. (a \o r)[j] = r[j - k]
        BY <1>1, <2>1, <2>2, <3>2
      <4>3. QED
        BY <1>2, <4>1, <4>2
    <3>3. QED
      BY <3>1, <3>2
  <2>4. QED
    BY <2>1, <2>2, <2>3, SeqEqual
<1>5. (ch \o a) \o r = ch \o tail
  <2>1. ASSUME NEW x \in Seq(Byte), NEW y \in Seq(Byte)
        PROVE  (ch \o x) \o y = ch \o (x \o y)
    BY SMTT(30), ConcatAssociative
  <2>2. QED
    BY <1>1, <1>2, <1>4, <2>1
<1>6. ch \o a \in Seq(Byte)
  BY <1>1, ConcatProperties
<1>7. k = Len(tail) => r = <<>>
  BY <1>2, <1>3, EmptySeq
<1>8. QED
  BY <1>2, <1>5, <1>6, <1>7 DEF a, r

(* Bytes that move from the send buffer to the channel change nothing for the receiver. *)
LEMMA AheadMoved ==
    ASSUME NEW from, NEW ch, NEW tail, NEW n, NEW i, Ahead(ch, tail, from, n, i),
           NEW k \in 0..Len(tail)
    PROVE  Ahead(ch \o SubSeq(tail, 1, k), Rest(tail, k), from, n, i)
  BY Moved DEF Ahead

(* The bytes of a frame. *)
LEMMA FrameBytes ==
    ASSUME NEW n \in Nat, NEW h \in Nat, NEW b \in Nat
    PROVE  /\ Frame(n, h, b) \in Seq(Byte) /\ Len(Frame(n, h, b)) = Meta + h + b
           /\ \A j \in 1..(Meta + h + b) : Frame(n, h, b)[j] = <<n, j - 1>>
<1>1. Meta + h + b \in Nat /\ \A j \in 1..(Meta + h + b) : <<n, j - 1>> \in Byte
  BY SizesAssumption DEF Byte
<1> DEFINE N == Meta + h + b
           fr == [j \in 1..N |-> <<n, j - 1>>]
<1> HIDE DEF N
<1>2. fr \in Seq(Byte) /\ Len(fr) = N /\ \A j \in 1..N : fr[j] = <<n, j - 1>>
  <2>1. fr \in [1..N -> Byte] /\ N \in Nat
    BY <1>1 DEF N
  <2>2. fr \in Seq(Byte)
    BY <2>1, SeqDef
  <2>3. DOMAIN fr = 1..N /\ DOMAIN fr = 1..Len(fr) /\ Len(fr) \in Nat
    BY <2>2, LenProperties
  <2>4. Len(fr) = N
    BY <2>1, <2>3
  <2>5. QED
    BY <2>2, <2>4
<1>3. QED
  BY <1>2 DEF N, Frame

(* A new message goes behind the bytes that are still to be read. *)
LEMMA FlowAppend ==
    ASSUME NEW from \in Seq(Sizes), NEW u \in Seq(Byte), Flow(u, from),
           NEW n, NEW i, NextIs(u, from, n, i),
           NEW h \in 1..MAX_HEADER, NEW b \in 0..MAX_DATA
    PROVE  LET v == u \o Frame(Len(from) + 1, h, b)
               to == Append(from, [h |-> h, b |-> b])
           IN Flow(v, to) /\ NextIs(v, to, n, i)
<1> DEFINE fr == Frame(Len(from) + 1, h, b)
           s == [h |-> h, b |-> b]
           v == u \o fr
           to == Append(from, s)
           N == Len(from) + 1
           F == Meta + h + b
<1>1. /\ Len(from) \in Nat /\ Len(u) \in Nat /\ N \in Nat /\ h \in Nat /\ b \in Nat
      /\ F \in Nat /\ F > 0
  BY SizesAssumption, LenProperties
<1>2. fr \in Seq(Byte) /\ Len(fr) = F /\ \A j \in 1..F : fr[j] = <<N, j - 1>>
  <2>1. ASSUME NEW m \in Nat
        PROVE  /\ Frame(m, h, b) \in Seq(Byte) /\ Len(Frame(m, h, b)) = Meta + h + b
               /\ \A j \in 1..(Meta + h + b) : Frame(m, h, b)[j] = <<m, j - 1>>
    <3>1. \A c, d \in Nat :
             /\ Frame(m, c, d) \in Seq(Byte) /\ Len(Frame(m, c, d)) = Meta + c + d
             /\ \A j \in 1..(Meta + c + d) : Frame(m, c, d)[j] = <<m, j - 1>>
      BY FrameBytes
    <3>2. QED
      BY <1>1, <3>1
  <2>2. QED
    BY <1>1, <2>1
<1>3. /\ to \in Seq(Sizes) /\ Len(to) = N /\ to[N] = s
      /\ \A m \in 1..Len(from) : to[m] = from[m]
  <2>1. s \in Sizes
    BY DEF Sizes
  <2>2. QED
    BY <2>1, AppendProperties
<1>4. /\ FrameSize(to, N) = F
      /\ \A m \in 1..Len(from) : FrameSize(to, m) = FrameSize(from, m)
  BY <1>3 DEF FrameSize
<1> HIDE DEF fr, to, s, F, N
<1>5. /\ v \in Seq(Byte) /\ Len(v) = Len(u) + F
      /\ \A j \in 1..Len(u) : v[j] = u[j]
      /\ \A j \in 1..F : v[Len(u) + j] = <<N, j - 1>>
  <2>1. /\ v \in Seq(Byte) /\ Len(v) = Len(u) + Len(fr)
        /\ \A j \in 1..(Len(u) + Len(fr)) : v[j] = IF j <= Len(u) THEN u[j] ELSE fr[j - Len(u)]
    BY <1>2, ConcatProperties
  <2>2. ASSUME NEW j \in 1..F PROVE v[Len(u) + j] = <<N, j - 1>>
    <3>1. /\ Len(u) + j \in 1..(Len(u) + Len(fr)) /\ ~(Len(u) + j <= Len(u))
          /\ (Len(u) + j) - Len(u) = j
      BY <1>1, <1>2
    <3>2. QED
      BY <1>2, <2>1, <3>1
  <2>3. \A j \in 1..Len(u) : v[j] = u[j]
    BY <1>1, <1>2, <2>1
  <2>4. QED
    BY <1>2, <2>1, <2>2, <2>3
<1> HIDE DEF v
<1>6. ASSUME NEW j \in 1..Len(v)
      PROVE  LET m == v[j][1]
                 q == v[j][2]
                 left == FrameSize(to, m) - q
             IN /\ m \in 1..Len(to) /\ q \in Nat /\ left > 0
                /\ j + left - 1 <= Len(v)
                /\ \A d \in 0..(left - 1) : v[j + d] = <<m, q + d>>
                /\ j + left - 1 = Len(v) => m = Len(to)
                /\ j + left - 1 < Len(v) => v[j + left] = <<m + 1, 0>>
  <2>1. CASE j \in 1..Len(u)
    <3> DEFINE m == u[j][1]
               q == u[j][2]
               left == FrameSize(from, m) - q
    <3>1. /\ m \in 1..Len(from) /\ q \in Nat /\ left > 0
          /\ j + left - 1 <= Len(u)
          /\ \A d \in 0..(left - 1) : u[j + d] = <<m, q + d>>
          /\ j + left - 1 = Len(u) => m = Len(from)
          /\ j + left - 1 < Len(u) => u[j + left] = <<m + 1, 0>>
      BY <2>1 DEF Flow
    <3>2. v[j] = u[j] /\ FrameSize(to, m) = FrameSize(from, m)
      BY <1>4, <1>5, <2>1, <3>1
    <3> HIDE DEF m, q
    <3>3. left \in Int
      BY <3>1, FrameSizes
    <3> HIDE DEF left
    <3>4. m \in 1..Len(to) /\ j + left - 1 < Len(v)
      BY <1>1, <1>3, <1>5, <3>1, <3>3 DEF N
    <3>5. ASSUME NEW d \in 0..(left - 1) PROVE v[j + d] = <<m, q + d>>
      <4>1. j + d \in 1..Len(u)
        BY <1>1, <2>1, <3>1, <3>3
      <4>2. QED
        BY <1>5, <3>1, <4>1
    <3>6. v[j + left] = <<m + 1, 0>>
      <4>1. CASE j + left - 1 = Len(u)
        <5>1. j + left = Len(u) + 1 /\ 1 \in 1..F /\ 1 - 1 = 0 /\ m + 1 = N
          BY <1>1, <3>1, <3>3, <4>1 DEF N
        <5>2. QED
          BY <1>5, <5>1
      <4>2. CASE j + left - 1 < Len(u)
        <5>1. j + left \in 1..Len(u)
          BY SMTT(30), <1>1, <2>1, <3>1, <3>3, <4>2
        <5>2. QED
          BY <1>5, <3>1, <4>2, <5>1
      <4>3. QED
        BY SMTT(30), <1>1, <3>1, <3>3, <4>1, <4>2
    <3>7. v[j][1] = m /\ v[j][2] = q /\ FrameSize(to, m) - q = left
      BY <3>2 DEF m, q, left
    <3>8. ~(j + left - 1 = Len(v)) /\ j + left - 1 <= Len(v)
      BY <1>1, <1>5, <3>3, <3>4
    <3>9. QED
      BY <3>1, <3>4, <3>5, <3>6, <3>7, <3>8
  <2>2. CASE j \notin 1..Len(u)
    <3> DEFINE q == j - Len(u) - 1
    <3>1. /\ q \in 0..(F - 1) /\ j = Len(u) + (q + 1) /\ q + 1 \in 1..F /\ (q + 1) - 1 = q
      BY <1>1, <1>5, <2>2
    <3> HIDE DEF q
    <3>2. v[j] = <<N, q>>
      BY <1>5, <3>1
    <3>3. \A d \in 0..(F - q - 1) : v[j + d] = <<N, q + d>>
      <4> TAKE d \in 0..(F - q - 1)
      <4>1. j + d = Len(u) + (q + 1 + d) /\ q + 1 + d \in 1..F /\ (q + 1 + d) - 1 = q + d
        BY <1>1, <3>1
      <4>2. QED
        BY <1>5, <4>1
    <3>4. v[j][1] = N /\ v[j][2] = q /\ N \in 1..Len(to)
      BY <1>1, <1>3, <3>2 DEF N
    <3> DEFINE left == F - q
    <3>5. left \in Int /\ left > 0 /\ q \in Nat /\ j + left - 1 = Len(v)
      BY <1>1, <1>5, <3>1
    <3>6. \A d \in 0..(left - 1) : v[j + d] = <<N, q + d>>
      BY <3>3
    <3>7. FrameSize(to, N) - q = left
      BY <1>4
    <3> HIDE DEF left
    <3>8. j + left - 1 <= Len(v) /\ ~(j + left - 1 < Len(v))
      BY <1>1, <1>5, <3>5
    <3>9. QED
      BY <1>3, <3>4, <3>5, <3>6, <3>7, <3>8
  <2>3. QED
    BY <2>1, <2>2
<1>7. Flow(v, to)
  BY <1>6 DEF Flow
<1>8. NextIs(v, to, n, i)
  <2>1. v # <<>>
    BY <1>1, <1>5, EmptySeq
  <2>2. v[1] = <<n, i>>
    <3>1. CASE u = <<>>
      <4>1. Len(u) = 0 /\ n = N /\ i = 0
        BY <3>1, EmptySeq DEF NextIs, N
      <4>2. 1 \in 1..F /\ Len(u) + 1 = 1 /\ 1 - 1 = 0
        BY <1>1, <4>1
      <4>3. v[Len(u) + 1] = <<N, 1 - 1>>
        BY <1>5, <4>2
      <4>4. QED
        BY <4>1, <4>2, <4>3
    <3>2. CASE u # <<>>
      <4>1. 1 \in 1..Len(u)
        BY <1>1, <3>2, EmptySeq
      <4>2. QED
        BY <1>5, <3>2, <4>1 DEF NextIs
    <3>3. QED
      BY <3>1, <3>2
  <2>3. QED
    BY <2>1, <2>2 DEF NextIs
<1>9. QED
  BY <1>7, <1>8 DEF v, to, fr, s

(* A new frame joins the bytes ahead. *)
LEMMA AheadAppend ==
    ASSUME NEW from \in Seq(Sizes), NEW ch, NEW n, NEW i, Ahead(ch, <<>>, from, n, i),
           NEW h \in 1..MAX_HEADER, NEW b \in 0..MAX_DATA, NEW k \in 0..(Meta + h + b)
    PROVE  LET frame == Frame(Len(from) + 1, h, b)
           IN Ahead(ch \o SubSeq(frame, 1, k), Rest(frame, k),
                    Append(from, [h |-> h, b |-> b]), n, i)
<1> DEFINE frame == Frame(Len(from) + 1, h, b)
           to == Append(from, [h |-> h, b |-> b])
<1>1. ch \in Seq(Byte) /\ Flow(ch, from) /\ NextIs(ch, from, n, i)
  <2>1. ch \in Seq(Byte) /\ Flow(ch \o <<>>, from) /\ NextIs(ch \o <<>>, from, n, i)
    BY DEF Ahead
  <2>2. ch \o <<>> = ch
    BY <2>1, ConcatEmptySeq
  <2>3. QED
    BY <2>1, <2>2
<1>2. frame \in Seq(Byte) /\ Len(frame) = Meta + h + b
  <2>1. Len(from) + 1 \in Nat /\ h \in Nat /\ b \in Nat
    BY SizesAssumption, LenProperties
  <2>2. ASSUME NEW m \in Nat
        PROVE  Frame(m, h, b) \in Seq(Byte) /\ Len(Frame(m, h, b)) = Meta + h + b
    BY <2>1, FrameBytes
  <2>3. QED
    BY <2>1, <2>2
<1>3. Flow(ch \o frame, to) /\ NextIs(ch \o frame, to, n, i)
  BY <1>1, FlowAppend
<1> HIDE DEF frame, to
<1>4. /\ ch \o SubSeq(frame, 1, k) \in Seq(Byte) /\ Rest(frame, k) \in Seq(Byte)
      /\ (ch \o SubSeq(frame, 1, k)) \o Rest(frame, k) = ch \o frame
  BY <1>1, <1>2, Moved
<1>5. QED
  BY <1>3, <1>4 DEF Ahead, frame, to

-----------------------------------------------------------------------------
(* Memory that a read has written to. *)
LEMMA Stored ==
    ASSUME NEW mem \in Seq(Byte), NEW ch \in Seq(Byte), NEW pos \in Nat, NEW k \in 1..Len(ch)
    PROVE  LET new == Store(mem, pos, ch, k)
           IN /\ new \in Seq(Byte) /\ Len(new) = Len(mem)
              /\ \A j \in 1..Len(mem) : j <= pos => new[j] = mem[j]
              /\ \A d \in 1..k : pos + d <= Len(mem) => new[pos + d] = ch[d]
<1> DEFINE N == Len(mem)
           new == [j \in 1..N |-> IF j > pos /\ j <= pos + k THEN ch[j - pos] ELSE mem[j]]
<1>1. N \in Nat /\ Len(ch) \in Nat /\ k \in Nat
  BY LenProperties
<1>2. \A j \in 1..N : mem[j] \in Byte
  BY ElementOfSeq
<1>3. ASSUME NEW j \in 1..N, j > pos, j <= pos + k PROVE ch[j - pos] \in Byte
  <2>1. j - pos \in 1..Len(ch)
    BY <1>1, <1>3
  <2>2. QED
    BY <2>1, ElementOfSeq
<1> HIDE DEF N
<1>4. new \in [1..N -> Byte]
  BY <1>2, <1>3
<1>5. new \in Seq(Byte) /\ Len(new) = N
  <2>1. new \in Seq(Byte)
    BY <1>1, <1>4, SeqDef
  <2>2. DOMAIN new = 1..N /\ DOMAIN new = 1..Len(new) /\ Len(new) \in Nat
    BY <2>1, LenProperties
  <2>3. QED
    BY <1>1, <2>1, <2>2
<1>6. \A j \in 1..N : j <= pos => new[j] = mem[j]
  BY <1>1
<1>7. \A d \in 1..k : pos + d <= N => new[pos + d] = ch[d]
  <2> TAKE d \in 1..k
  <2> HAVE pos + d <= N
  <2>1. pos + d \in 1..N /\ pos + d > pos /\ pos + d <= pos + k /\ (pos + d) - pos = d
    BY <1>1
  <2>2. QED
    BY <2>1
<1>8. new = Store(mem, pos, ch, k)
  BY DEF Store, N
<1> HIDE DEF new
<1>9. QED
  BY <1>5, <1>6, <1>7, <1>8 DEF N

(* A new buffer. *)
LEMMA Zeroed ==
    ASSUME NEW N \in Nat
    PROVE  Zeros(N) \in Seq(Byte) /\ Len(Zeros(N)) = N
<1>1. Zeros(N) \in [1..N -> Byte]
  BY DEF Zeros, Byte
<1>2. Zeros(N) \in Seq(Byte)
  BY <1>1, SeqDef
<1>3. DOMAIN Zeros(N) = 1..N /\ DOMAIN Zeros(N) = 1..Len(Zeros(N)) /\ Len(Zeros(N)) \in Nat
  BY <1>1, <1>2, LenProperties
<1>4. QED
  BY <1>2, <1>3

(* reset() before the next message: whatever size the header buffer was    *)
(* left with, there is room for the meta.                                  *)
LEMMA ResetRight ==
    ASSUME NEW from, NEW ch, NEW tail, NEW n, NEW e, Between(e, ch, tail, from, n)
    PROVE  InMeta(Reset(e), ch, tail, from, n)
<1> DEFINE fresh == e.new_header \/ e.size - e.pos < Meta
           x == Reset(e)
<1>1. /\ x.state = "waiting_meta" /\ x.pos = 0 /\ x.header_size = 0
      /\ x.header = (IF fresh THEN Zeros(HeaderBuffer) ELSE e.header)
      /\ x.size = (IF fresh THEN HeaderBuffer ELSE e.size)
      /\ x.split = e.split
      /\ x = [f \in Fields |-> x[f]]
  BY DEF Reset, NewSmp, Fields
<1>2. Zeros(HeaderBuffer) \in Seq(Byte) /\ Len(Zeros(HeaderBuffer)) = HeaderBuffer
  BY SizesAssumption, Zeroed
<1>3. /\ Memory(e) /\ ~e.split /\ e.pos = 0 /\ Ahead(ch, tail, from, n, 0)
  BY DEF Between
<1> HIDE DEF x
<1>4. Memory(x)
  BY <1>1, <1>2, <1>3, SizesAssumption DEF Memory, Shape, SmpStates
<1>5. Meta <= x.size /\ 0 \in 0..(Meta - 1)
  BY <1>1, <1>3, SizesAssumption DEF Memory
<1>6. QED
  BY <1>1, <1>3, <1>4, <1>5 DEF InMeta, x

(* case waiting_meta: nothing to read; a part of the meta, after which the *)
(* switch falls into the header; or the whole meta, accepted.              *)
LEMMA MetaRead ==
    ASSUME NEW from \in Seq(Sizes), NEW ch, NEW tail, NEW n, NEW e,
           InMeta(e, ch, tail, from, n), NEW x \in MetaCase(e, ch, from)
    PROVE  \/ x.what = "would_block" /\ x.e = e /\ x.ch = ch
           \/ x.what = "next_case" /\ InMeta(x.e, x.ch, tail, from, n) /\ x.e.pos > 0
           \/ x.what = "next_case" /\ InHeader(x.e, x.ch, tail, from, n)
<1> DEFINE need == Meta - e.pos
<1>1. /\ e = [f \in Fields |-> e[f]] /\ e.header \in Seq(Byte) /\ e.size \in Nat
      /\ e.size <= Len(e.header) /\ ~e.split /\ e.state = "waiting_meta" /\ e.header_size = 0
      /\ Meta <= e.size /\ e.pos \in 0..(Meta - 1) /\ (e.pos > 0 => e.header[1] = <<n, 0>>)
      /\ Ahead(ch, tail, from, n, e.pos) /\ Meta \in Nat
  BY SizesAssumption DEF InMeta, Memory, Shape
<1>1a. /\ Meta \in Nat \ {0} /\ e.pos \in Nat /\ e.pos < Meta
       /\ e.size \in Nat /\ Meta <= e.size
  BY SizesAssumption DEF InMeta, Memory
<1>1b. e.header \in Seq(Byte) /\ Len(e.header) \in Nat /\ e.size <= Len(e.header)
  BY LenProperties DEF InMeta, Memory
<1>2. ~Refuses(e.size - e.pos, need) /\ need \in Nat
  BY <1>1a DEF Refuses
<1>3. CASE Len(ch) = 0
  <2>1. MetaCase(e, ch, from) = {Ending(e, ch, Empty, "would_block")}
    BY <1>2, <1>3 DEF MetaCase
  <2>2. QED
    BY <2>1 DEF Ending
<1>4. CASE Len(ch) # 0
  <2> DEFINE header(k) == Store(e.header, e.pos, ch, k)
  <2>1. PICK k \in Pieces(ch, need) :
          x = IF k = need
              THEN ParseMeta([e EXCEPT !.header = header(k), !.pos = 0], Rest(ch, k), from)
              ELSE Ending([e EXCEPT !.header = header(k), !.pos = @ + k], Rest(ch, k), Empty,
                          "next_case")
    BY <1>2, <1>4 DEF MetaCase
  <2>2. ch \in Seq(Byte) /\ Len(ch) \in Nat /\ k \in 1..Len(ch) /\ k \in 1..need
    <3>1. ch \in Seq(Byte) /\ Len(ch) \in Nat
      BY <1>1, LenProperties DEF Ahead
    <3>2. QED
      BY <1>2, <3>1 DEF Pieces
  <2>3. n \in 1..Len(from)
    BY <1>1, <2>2, <1>4, EmptySeq, MessageAhead
  <2>4. /\ from[n].h \in 1..MAX_HEADER /\ from[n].h \in Nat \ {0} /\ from[n].b \in Nat
        /\ FrameSize(from, n) = Meta + from[n].h + from[n].b
    BY <2>3, FrameSizes DEF FrameSize
  <2>5. /\ \A d \in 1..k : ch[d] = <<n, e.pos + d - 1>>
        /\ Ahead(Rest(ch, k), tail, from, n, e.pos + k)
    <3>1. k < FrameSize(from, n) - e.pos /\ k <= FrameSize(from, n) - e.pos
      <4>1. k \in Nat /\ k <= Meta - e.pos
        BY <1>1a, <2>2
      <4>2. FrameSize(from, n) \in Nat /\ FrameSize(from, n) > Meta
        <5>1. ASSUME NEW a \in Nat \ {0}, NEW b \in Nat
              PROVE  Meta + a + b \in Nat /\ Meta + a + b > Meta
          BY SizesAssumption
        <5>2. QED
          BY <2>4, <5>1
      <4>3. QED
        BY <1>1a, <4>1, <4>2
    <3>2. k \in 1..Len(ch) /\ Ahead(ch, tail, from, n, e.pos)
      BY <1>1, <2>2
    <3>3. QED
      BY <3>1, <3>2, Take
  <2> DEFINE hd == header(k)
  <2>6. /\ hd \in Seq(Byte) /\ Len(hd) = Len(e.header)
        /\ \A j \in 1..Len(e.header) : j <= e.pos => hd[j] = e.header[j]
        /\ \A d \in 1..k : e.pos + d <= Len(e.header) => hd[e.pos + d] = ch[d]
    <3>1. ASSUME NEW mem \in Seq(Byte), NEW pos \in Nat
          PROVE  /\ Store(mem, pos, ch, k) \in Seq(Byte) /\ Len(Store(mem, pos, ch, k)) = Len(mem)
                 /\ \A j \in 1..Len(mem) : j <= pos => Store(mem, pos, ch, k)[j] = mem[j]
                 /\ \A d \in 1..k : pos + d <= Len(mem) => Store(mem, pos, ch, k)[pos + d] = ch[d]
      BY <2>2, Stored
    <3>2. e.header \in Seq(Byte) /\ e.pos \in Nat
      BY <1>1a, <1>1b
    <3>3. QED
      BY <3>1, <3>2
  <2> HIDE DEF hd
  <2>7. hd[1] = <<n, 0>>
    <3>1. CASE e.pos = 0
      <4>1. 1 \in 1..k /\ e.pos + 1 <= Len(e.header) /\ e.pos + 1 = 1 /\ e.pos + 1 - 1 = 0
        BY <1>1a, <1>1b, <2>2, <3>1
      <4>2. QED
        BY <2>5, <2>6, <4>1
    <3>2. CASE e.pos > 0
      <4>1. 1 \in 1..Len(e.header) /\ 1 <= e.pos
        BY <1>1a, <1>1b, <3>2
      <4>2. QED
        BY <1>1, <2>6, <3>2, <4>1
    <3>3. QED
      BY <1>1a, <3>1, <3>2
  <2>8. CASE k # need
    <3> DEFINE e1 == [e EXCEPT !.header = hd, !.pos = @ + k]
    <3>1. x = Ending(e1, Rest(ch, k), Empty, "next_case")
      BY <2>1, <2>8 DEF hd
    <3>2. /\ e1 = [f \in Fields |-> e1[f]] /\ e1.header = hd /\ e1.pos = e.pos + k
          /\ e1.size = e.size /\ e1.split = e.split /\ e1.state = e.state
          /\ e1.header_size = e.header_size
      BY <1>1 DEF Fields
    <3> HIDE DEF e1
    <3>3. e1.pos \in 0..(Meta - 1) /\ e1.pos > 0
      <4>1. ASSUME NEW p \in 0..(Meta - 1), NEW d \in 1..(Meta - p), d # Meta - p
            PROVE  p + d \in 0..(Meta - 1) /\ p + d > 0
        BY <4>1, SizesAssumption
      <4>2. e.pos \in 0..(Meta - 1) /\ k \in 1..(Meta - e.pos) /\ k # Meta - e.pos
        BY <1>1a, <2>2, <2>8
      <4>3. QED
        BY <3>2, <4>1, <4>2
    <3>4. InMeta(e1, Rest(ch, k), tail, from, n)
      BY <1>1, <2>5, <2>6, <2>7, <3>2, <3>3 DEF InMeta, Memory, Shape, SmpStates
    <3>5. QED
      BY <3>1, <3>3, <3>4 DEF Ending
  <2>9. CASE k = need
    <3> DEFINE e0 == [e EXCEPT !.header = hd, !.pos = 0]
               h == from[n].h
               e1 == [e0 EXCEPT !.header_size = h, !.body_size = from[n].b]
               e2 == [e1 EXCEPT !.state = "waiting_header"]
               e3 == [e2 EXCEPT !.new_header = TRUE, !.header = Zeros(h), !.size = h]
    <3>1. x = ParseMeta(e0, Rest(ch, k), from)
      BY <2>1, <2>9 DEF hd
    <3>2. /\ e0 = [f \in Fields |-> e0[f]] /\ e0.header = hd /\ e0.pos = 0
          /\ e0.size = e.size /\ e0.split = e.split
      BY <1>1 DEF Fields
    <3> HIDE DEF e0
    <3>3. e0.header[1][1] = n /\ e0.header[1][2] = 0 /\ n > 0
      BY <2>3, <2>7, <3>2
    <3>4. x = IF h <= e0.size THEN Ending(e2, Rest(ch, k), Empty, "next_case")
                              ELSE Ending(e3, Rest(ch, k), Empty, "next_case")
      <4>1. ~(h = 0 \/ h > MAX_HEADER)
        BY <2>4, SizesAssumption
      <4>2. QED
        BY <3>1, <3>3, <4>1 DEF ParseMeta
    <3>5. /\ e2 = [f \in Fields |-> e2[f]] /\ e2.header = hd /\ e2.pos = 0 /\ e2.size = e.size
          /\ e2.split = e.split /\ e2.state = "waiting_header"
          /\ e2.header_size = h /\ e2.body_size = from[n].b
      BY <3>2 DEF Fields
    <3> HIDE DEF e2
    <3>6. /\ e3 = [f \in Fields |-> e3[f]] /\ e3.header = Zeros(h) /\ e3.pos = 0 /\ e3.size = h
          /\ e3.split = e.split /\ e3.state = "waiting_header"
          /\ e3.header_size = h /\ e3.body_size = from[n].b
      BY <3>5 DEF Fields
    <3> HIDE DEF e3
    <3>7. Zeros(h) \in Seq(Byte) /\ Len(Zeros(h)) = h
      BY <2>4, Zeroed
    <3>8. e.pos + k = Meta
      BY <1>1, <2>2, <2>9
    <3> HIDE DEF h
    <3>9. h <= e.size => InHeader(e2, Rest(ch, k), tail, from, n)
      BY <1>1, <2>3, <2>4, <2>5, <2>6, <3>5, <3>8 DEF InHeader, Memory, Shape, SmpStates, h
    <3>10. InHeader(e3, Rest(ch, k), tail, from, n)
      BY SMTT(30), <1>1, <2>3, <2>4, <2>5, <3>6, <3>7, <3>8 DEF InHeader, Memory, Shape, SmpStates, h
    <3>11. QED
      BY <3>2, <3>4, <3>9, <3>10 DEF Ending
  <2>10. QED
    BY <2>8, <2>9
<1>5. QED
  BY <1>3, <1>4

(* A part of the meta: the header case finds no room for its bytes. *)
LEMMA ShortMeta ==
    ASSUME NEW from, NEW ch, NEW tail, NEW n, NEW e,
           InMeta(e, ch, tail, from, n), e.pos > 0
    PROVE  HeaderCase(e, ch) = {Ending(e, ch, Empty, "buffer_too_small")}
<1>1. e.header_size - e.pos < 0
  BY SizesAssumption DEF InMeta
<1>2. QED
  BY <1>1 DEF HeaderCase, Refuses

(* The header and body that a receiver has put together are the message. *)
LEMMA MessageWhole ==
    ASSUME NEW from \in Seq(Sizes), NEW n \in 1..Len(from),
           NEW hd \in Seq(Byte), from[n].h <= Len(hd),
           \A j \in 1..from[n].h : hd[j] = <<n, Meta + j - 1>>,
           NEW bd \in Seq(Byte), Len(bd) = from[n].b,
           \A j \in 1..from[n].b : bd[j] = <<n, Meta + from[n].h + j - 1>>
    PROVE  Message(from, n) = [header |-> SubSeq(hd, 1, from[n].h), body |-> bd]
<1> DEFINE h == from[n].h
           b == from[n].b
           frame == Frame(n, h, b)
<1>1. h \in Nat \ {0} /\ b \in Nat /\ Meta \in Nat /\ n \in Nat
  BY FrameSizes, SizesAssumption
<1> HIDE DEF h, b
<1>2. /\ frame \in Seq(Byte) /\ Len(frame) = Meta + h + b
      /\ \A j \in 1..(Meta + h + b) : frame[j] = <<n, j - 1>>
  BY <1>1, FrameBytes
<1>3. \A j \in 1..Len(frame) : frame[j] \in Byte
  BY <1>2, ElementOfSeq
<1>4. Len(hd) \in Nat /\ h <= Len(hd) /\ \A j \in 1..h : hd[j] = <<n, Meta + j - 1>>
  BY LenProperties DEF h
<1>5. Len(bd) = b /\ \A j \in 1..b : bd[j] = <<n, Meta + h + j - 1>>
  BY DEF h, b
<1> HIDE DEF frame
<1>6. SubSeq(frame, Meta + 1, Meta + h) = SubSeq(hd, 1, h)
  <2> DEFINE p == SubSeq(frame, Meta + 1, Meta + h)
             q == SubSeq(hd, 1, h)
  <2>1. \A j \in (Meta + 1)..(Meta + h) : frame[j] \in Byte
    BY <1>1, <1>2, <1>3
  <2>2. /\ p \in Seq(Byte) /\ Len(p) = h
        /\ \A j \in 1..h : p[j] = frame[Meta + j]
    <3>1. /\ p \in Seq(Byte)
          /\ Len(p) = IF Meta + 1 <= Meta + h THEN (Meta + h) - (Meta + 1) + 1 ELSE 0
          /\ \A j \in 1..((Meta + h) - (Meta + 1) + 1) : p[j] = frame[(Meta + 1) + j - 1]
      BY <1>1, <2>1, SubSeqProperties
    <3>2. (Meta + h) - (Meta + 1) + 1 = h /\ \A j \in 1..h : (Meta + 1) + j - 1 = Meta + j
      BY <1>1
    <3> HIDE DEF p
    <3>3. QED
      BY <1>1, <3>1, <3>2
  <2>3. q \in Seq(Byte) /\ Len(q) = h /\ \A j \in 1..h : q[j] = hd[j]
    BY <1>1, <1>4, FirstBytes
  <2> HIDE DEF p, q
  <2>4. ASSUME NEW j \in 1..h PROVE p[j] = q[j]
    <3> DEFINE i == Meta + j
    <3>1. i \in 1..(Meta + h + b)
      BY <1>1
    <3>2. p[j] = frame[i]
      BY <2>2
    <3>3. hd[j] = <<n, i - 1>> /\ q[j] = hd[j]
      <4>1. hd[j] = <<n, Meta + j - 1>>
        BY <1>4
      <4>2. Meta + j - 1 = i - 1
        BY <1>1
      <4>3. q[j] = hd[j]
        BY <2>3
      <4>4. QED
        BY <4>1, <4>2, <4>3
    <3> HIDE DEF i
    <3>4. frame[i] = <<n, i - 1>>
      BY <1>2, <3>1
    <3>5. QED
      BY <3>2, <3>3, <3>4
  <2>5. p = q
    BY <2>2, <2>3, <2>4, SeqEqual
  <2>6. QED
    BY <2>5 DEF p, q
<1>7. SubSeq(frame, Meta + h + 1, Len(frame)) = bd
  <2> DEFINE p == SubSeq(frame, Meta + h + 1, Len(frame))
             o == Meta + h
  <2>1. \A j \in (Meta + h + 1)..Len(frame) : frame[j] \in Byte
    BY <1>1, <1>2, <1>3
  <2>2. o \in Nat /\ Len(frame) = o + b
    BY <1>1, <1>2
  <2>3. /\ p \in Seq(Byte) /\ Len(p) = b
        /\ \A j \in 1..b : p[j] = frame[o + j]
    <3>1. /\ p \in Seq(Byte)
          /\ Len(p) = IF o + 1 <= Len(frame) THEN Len(frame) - (o + 1) + 1 ELSE 0
          /\ \A j \in 1..(Len(frame) - (o + 1) + 1) : p[j] = frame[(o + 1) + j - 1]
      BY <1>1, <1>2, <2>1, SubSeqProperties
    <3> HIDE DEF p, o
    <3>2. Len(frame) - (o + 1) + 1 = b /\ \A j \in 1..b : (o + 1) + j - 1 = o + j
      BY <1>1, <2>2
    <3>3. QED
      BY <1>1, <2>2, <3>1, <3>2
  <2> HIDE DEF p
  <2>4. ASSUME NEW j \in 1..b PROVE p[j] = bd[j]
    <3>1. o + j \in 1..(Meta + h + b) /\ (o + j) - 1 = Meta + h + j - 1
      BY <1>1
    <3> HIDE DEF o
    <3>2. p[j] = frame[o + j] /\ frame[o + j] = <<n, (o + j) - 1>>
      BY <1>2, <2>3, <3>1
    <3>3. bd[j] = <<n, Meta + h + j - 1>>
      BY <1>5
    <3>4. QED
      BY <3>1, <3>2, <3>3
  <2>5. QED
    BY <1>5, <2>3, <2>4, SeqEqual DEF p
<1>8. QED
  BY <1>6, <1>7 DEF Message, frame, h, b

(* case waiting_header: nothing to read; a part of the header, which is    *)
(* the flaw the history variable records; or the whole header, and then    *)
(* the message if it has no body, or the body.                             *)
LEMMA HeaderRead ==
    ASSUME NEW from \in Seq(Sizes), NEW ch, NEW tail, NEW n, NEW e,
           InHeader(e, ch, tail, from, n), NEW x \in HeaderCase(e, ch)
    PROVE  \/ x.what = "would_block" /\ x.e = e /\ x.ch = ch
           \/ Shape(x.e) /\ x.e.split
           \/ /\ x.what = "message" /\ Between(x.e, x.ch, tail, from, n + 1)
              /\ x.msg = Message(from, n)
           \/ x.what = "next_case" /\ InBody(x.e, x.ch, tail, from, n)
<1> DEFINE h == from[n].h
           b == from[n].b
<1>1. /\ e = [f \in Fields |-> e[f]] /\ ~e.split /\ e.state = "waiting_header" /\ e.pos = 0
      /\ n \in 1..Len(from) /\ e.header_size = h /\ e.body_size = b
      /\ Ahead(ch, tail, from, n, Meta)
  BY DEF InHeader, Memory, Shape
<1>2. /\ h \in Nat \ {0} /\ b \in Nat /\ b <= MAX_DATA /\ Meta \in Nat /\ MAX_DATA \in Nat
      /\ FrameSize(from, n) = Meta + h + b
  BY <1>1, FrameSizes, SizesAssumption DEF FrameSize
<1>3. /\ e.header \in Seq(Byte) /\ Len(e.header) \in Nat /\ e.size \in Nat
      /\ e.size <= Len(e.header) /\ h <= e.size
  BY LenProperties DEF InHeader, Memory
<1> HIDE DEF h, b
<1>4. ~Refuses(e.size - e.pos, e.header_size - e.pos) /\ e.header_size - e.pos = h
  BY <1>1, <1>2, <1>3 DEF Refuses
<1>5. CASE Len(ch) = 0
  <2>1. HeaderCase(e, ch) = {Ending(e, ch, Empty, "would_block")}
    BY <1>4, <1>5 DEF HeaderCase
  <2>2. QED
    BY <2>1 DEF Ending
<1>6. CASE Len(ch) # 0
  <2> DEFINE header(k) == Store(e.header, e.pos, ch, k)
             e1(k) == IF k = h
                      THEN [e EXCEPT !.header = header(k), !.pos = 0, !.size = e.header_size]
                      ELSE [e EXCEPT !.header = header(k), !.pos = @ + k, !.split = TRUE]
  <2>1. PICK k \in Pieces(ch, h) : x = AfterHeader(e1(k), Rest(ch, k))
    BY <1>4, <1>6 DEF HeaderCase
  <2>2. ch \in Seq(Byte) /\ Len(ch) \in Nat /\ k \in 1..Len(ch) /\ k \in 1..h
    <3>1. ch \in Seq(Byte) /\ Len(ch) \in Nat
      BY <1>1, LenProperties DEF Ahead
    <3>2. QED
      BY <1>2, <3>1 DEF Pieces
  <2> DEFINE hd == header(k)
             y == e1(k)
  <2>3. CASE k # h
    <3>1. y = [e EXCEPT !.header = hd, !.pos = @ + k, !.split = TRUE]
      BY <2>3
    <3> HIDE DEF hd
    <3>2. y = [f \in Fields |-> y[f]] /\ y.split /\ y.state = "waiting_header"
      BY <1>1, <3>1 DEF Fields
    <3> HIDE DEF y
    <3> DEFINE z == [y EXCEPT !.body = Zeros(y.body_size), !.bpos = 0, !.state = "waiting_body"]
    <3>3. z = [f \in Fields |-> z[f]] /\ z.split /\ z.state = "waiting_body"
      BY <3>2 DEF Fields
    <3>4. x.e = y \/ x.e = z
      <4>1. x = AfterHeader(y, Rest(ch, k))
        BY <2>1 DEF y
      <4>2. QED
        BY <4>1 DEF AfterHeader, Ending
    <3> HIDE DEF z
    <3>5. Shape(y) /\ Shape(z)
      BY <3>2, <3>3 DEF Shape, SmpStates
    <3>6. QED
      BY <3>2, <3>3, <3>4, <3>5
  <2>4. CASE k = h
    <3>1. /\ hd \in Seq(Byte) /\ Len(hd) = Len(e.header)
          /\ \A d \in 1..k : d <= Len(e.header) => hd[d] = ch[d]
      <4>1. ASSUME NEW mem \in Seq(Byte), NEW pos \in Nat
            PROVE  /\ Store(mem, pos, ch, k) \in Seq(Byte)
                   /\ Len(Store(mem, pos, ch, k)) = Len(mem)
                   /\ \A d \in 1..k : pos + d <= Len(mem) => Store(mem, pos, ch, k)[pos + d] = ch[d]
        BY <2>2, Stored
      <4>2. \A d \in 1..k : 0 + d = d
        BY <2>2
      <4>3. hd = Store(e.header, 0, ch, k)
        BY <1>1
      <4> HIDE DEF hd
      <4>4. QED
        BY <1>3, <4>1, <4>2, <4>3
    <3>2. y = [e EXCEPT !.header = hd, !.pos = 0, !.size = e.header_size]
      BY <2>4
    <3> HIDE DEF hd
    <3>3. /\ y = [f \in Fields |-> y[f]] /\ y.split = e.split /\ y.state = "waiting_header"
          /\ y.header = hd /\ y.pos = 0 /\ y.size = h /\ y.header_size = h /\ y.body_size = b
      BY <1>1, <3>2 DEF Fields
    <3>4. x = AfterHeader(y, Rest(ch, k))
      BY <2>1
    <3> HIDE DEF y
    <3>5. /\ \A d \in 1..k : ch[d] = <<n, Meta + d - 1>>
          /\ b > 0 => Ahead(Rest(ch, k), tail, from, n, Meta + h)
          /\ b = 0 => Ahead(Rest(ch, k), tail, from, n + 1, 0)
      <4>1. /\ k <= FrameSize(from, n) - Meta
            /\ b > 0 => k < FrameSize(from, n) - Meta
            /\ b = 0 => k = FrameSize(from, n) - Meta
        BY <1>2, <2>2, <2>4
      <4>2. k \in 1..Len(ch) /\ Ahead(ch, tail, from, n, Meta)
        BY <1>1, <2>2
      <4>3. /\ \A d \in 1..k : ch[d] = <<n, Meta + d - 1>>
            /\ k < FrameSize(from, n) - Meta => Ahead(Rest(ch, k), tail, from, n, Meta + k)
            /\ k = FrameSize(from, n) - Meta => Ahead(Rest(ch, k), tail, from, n + 1, 0)
        BY <4>1, <4>2, Take
      <4>4. QED
        BY <2>4, <4>1, <4>3
    <3>6. ASSUME NEW j \in 1..h PROVE hd[j] = <<n, Meta + j - 1>>
      <4>1. j \in 1..k /\ j <= Len(e.header)
        BY <1>2, <1>3, <2>4
      <4>2. QED
        BY <3>1, <3>5, <4>1
    <3>7. Memory(y) /\ ~y.split
      BY <1>1, <1>2, <1>3, <3>1, <3>3 DEF Memory, Shape, SmpStates
    <3>8. CASE b = 0
      <4>1. x = Ending(y, Rest(ch, k), [header |-> HeaderWindow(y), body |-> <<>>], "message")
        BY <3>3, <3>4, <3>8 DEF AfterHeader
      <4>2. HeaderWindow(y) = SubSeq(hd, 1, h)
        <5>1. y.header = hd /\ y.pos + 1 = 1 /\ y.size = h
          BY <3>3
        <5>2. QED
          BY <5>1, Zenon DEF HeaderWindow
      <4>3. Message(from, n) = [header |-> SubSeq(hd, 1, h), body |-> <<>>]
        <5>1. <<>> \in Seq(Byte) /\ Len(<<>>) = from[n].b
          BY <3>8, EmptySeq DEF b
        <5>2. \A j \in 1..from[n].b : <<>>[j] = <<n, Meta + from[n].h + j - 1>>
          BY <3>8 DEF b
        <5>3. hd \in Seq(Byte) /\ from[n].h <= Len(hd)
              /\ \A j \in 1..from[n].h : hd[j] = <<n, Meta + j - 1>>
          BY <1>2, <1>3, <3>1, <3>6 DEF h
        <5>4. QED
          BY <1>1, <5>1, <5>2, <5>3, MessageWhole DEF h
      <4>4. Between(y, Rest(ch, k), tail, from, n + 1)
        BY <3>3, <3>5, <3>7, <3>8 DEF Between
      <4>5. QED
        BY <4>1, <4>2, <4>3, <4>4 DEF Ending
    <3>9. CASE b > 0
      <4> DEFINE z == [y EXCEPT !.body = Zeros(y.body_size), !.bpos = 0,
                                !.state = "waiting_body"]
      <4>1. x = Ending(z, Rest(ch, k), Empty, "next_case")
        <5>1. ~(y.body_size = 0) /\ ~(y.body_size > MAX_DATA)
          BY <1>2, <3>3, <3>9
        <5>2. QED
          BY <3>4, <5>1 DEF AfterHeader
      <4>2. /\ z = [f \in Fields |-> z[f]] /\ z.split = y.split /\ z.state = "waiting_body"
            /\ z.header = hd /\ z.pos = 0 /\ z.size = h /\ z.body_size = b
            /\ z.body = Zeros(b) /\ z.bpos = 0
        BY <3>3 DEF Fields
      <4> HIDE DEF z
      <4>3. Zeros(b) \in Seq(Byte) /\ Len(Zeros(b)) = b
        BY <1>2, Zeroed
      <4>4. Memory(z)
        BY <1>2, <1>3, <3>1, <4>2 DEF Memory, Shape, SmpStates
      <4>5. z.bpos \in 0..(z.body_size - 1) /\ Meta + z.size + z.bpos = Meta + h
            /\ ~(\E j \in 1..z.bpos : TRUE)
        BY <1>2, <3>9, <4>2
      <4>6. InBody(z, Rest(ch, k), tail, from, n)
        BY <1>1, <3>5, <3>6, <3>7, <3>9, <4>2, <4>3, <4>4, <4>5 DEF InBody, h, b
      <4>7. QED
        BY <4>1, <4>6 DEF Ending
    <3>10. QED
      BY <1>2, <3>8, <3>9
  <2>5. QED
    BY <2>3, <2>4
<1>7. QED
  BY <1>5, <1>6

(* case waiting_body: nothing to read; a part of the body, after which     *)
(* recv() throws but can go on; or the rest of it, and the message.        *)
LEMMA BodyRead ==
    ASSUME NEW from \in Seq(Sizes), NEW ch, NEW tail, NEW n, NEW e,
           InBody(e, ch, tail, from, n), NEW x \in BodyCase(e, ch)
    PROVE  \/ x.what = "would_block" /\ x.e = e /\ x.ch = ch
           \/ /\ x.what = "message" /\ Between(x.e, x.ch, tail, from, n + 1)
              /\ x.msg = Message(from, n)
           \/ x.what = "should_never_come_here" /\ InBody(x.e, x.ch, tail, from, n)
<1> DEFINE h == from[n].h
           b == from[n].b
           p == e.bpos
           need == b - p
           o == Meta + h
<1>1. /\ e = [f \in Fields |-> e[f]] /\ ~e.split /\ e.state = "waiting_body" /\ e.pos = 0
      /\ n \in 1..Len(from) /\ e.size = h /\ e.body_size = b
  BY DEF InBody, Memory, Shape
<1>2. /\ h \in Nat \ {0} /\ b \in Nat /\ Meta \in Nat /\ n \in Nat
      /\ FrameSize(from, n) = Meta + h + b
  BY <1>1, FrameSizes, SizesAssumption DEF FrameSize
<1>3. p \in Nat /\ p < b
  BY <1>1, <1>2 DEF InBody
<1>4. Ahead(ch, tail, from, n, o + p) /\ o \in Nat
  <2>1. Ahead(ch, tail, from, n, Meta + e.size + e.bpos)
    BY DEF InBody
  <2>2. Ahead(ch, tail, from, n, o + p)
    BY <1>1, <2>1
  <2>3. o \in Nat
    BY <1>2
  <2>4. QED
    BY <2>2, <2>3
<1>5. /\ e.body \in Seq(Byte) /\ Len(e.body) = b
      /\ \A j \in 1..p : e.body[j] = <<n, o + j - 1>>
  BY <1>1 DEF InBody
<1>6. /\ e.header \in Seq(Byte) /\ Len(e.header) \in Nat /\ h <= Len(e.header)
      /\ \A j \in 1..h : e.header[j] = <<n, Meta + j - 1>>
  BY <1>1, LenProperties DEF InBody, Memory
<1>7. e.body_size - e.bpos = need /\ need \in Nat
  BY <1>1, <1>2, <1>3
<1> HIDE DEF h, b, p, o
<1>8. CASE Len(ch) = 0
  <2>1. BodyCase(e, ch) = {Ending(e, ch, Empty, "would_block")}
    BY <1>8 DEF BodyCase
  <2>2. QED
    BY <2>1 DEF Ending
<1>9. CASE Len(ch) # 0
  <2> DEFINE body(k) == Store(e.body, p, ch, k)
  <2>1. PICK k \in Pieces(ch, need) :
          x = IF k = need
              THEN Ending([e EXCEPT !.body = body(k), !.bpos = 0, !.state = "waiting_meta"],
                          Rest(ch, k), [header |-> HeaderWindow(e), body |-> body(k)], "message")
              ELSE Ending([e EXCEPT !.body = body(k), !.bpos = @ + k], Rest(ch, k), Empty,
                          "should_never_come_here")
    BY <1>7, <1>9 DEF BodyCase, p
  <2>2. /\ ch \in Seq(Byte) /\ Len(ch) \in Nat /\ k \in 1..Len(ch) /\ k \in Nat \ {0}
        /\ p + k <= b
    <3>1. ch \in Seq(Byte) /\ Len(ch) \in Nat
      BY <1>4, LenProperties DEF Ahead
    <3>2. k \in 1..need /\ k <= Len(ch)
      BY DEF Pieces
    <3>3. k \in Nat \ {0} /\ k <= need
      BY <1>7, <3>2
    <3> HIDE DEF need
    <3>4. k \in 1..Len(ch)
      BY <3>1, <3>2, <3>3
    <3>5. p + k <= b
      BY <1>2, <1>3, <3>3 DEF need
    <3>6. QED
      BY <3>1, <3>3, <3>4, <3>5
  <2>3. /\ \A d \in 1..k : ch[d] = <<n, o + p + d - 1>>
        /\ p + k < b => Ahead(Rest(ch, k), tail, from, n, o + p + k)
        /\ p + k = b => Ahead(Rest(ch, k), tail, from, n + 1, 0)
    <3> DEFINE i == o + p
    <3>1. /\ k <= FrameSize(from, n) - i
          /\ p + k < b => k < FrameSize(from, n) - i
          /\ p + k = b => k = FrameSize(from, n) - i
      BY <1>2, <1>3, <2>2 DEF o
    <3> HIDE DEF i
    <3>2. k \in 1..Len(ch) /\ Ahead(ch, tail, from, n, i)
      BY <1>4, <2>2 DEF i
    <3>3. /\ \A d \in 1..k : ch[d] = <<n, i + d - 1>>
          /\ k < FrameSize(from, n) - i => Ahead(Rest(ch, k), tail, from, n, i + k)
          /\ k = FrameSize(from, n) - i => Ahead(Rest(ch, k), tail, from, n + 1, 0)
      BY <3>1, <3>2, Take
    <3>4. QED
      BY <3>1, <3>3 DEF i
  <2> DEFINE bd == body(k)
  <2>4. /\ bd \in Seq(Byte) /\ Len(bd) = b
        /\ \A j \in 1..b : j <= p => bd[j] = e.body[j]
        /\ \A d \in 1..k : p + d <= b => bd[p + d] = ch[d]
    <3>1. ASSUME NEW mem \in Seq(Byte)
          PROVE  /\ Store(mem, p, ch, k) \in Seq(Byte) /\ Len(Store(mem, p, ch, k)) = Len(mem)
                 /\ \A j \in 1..Len(mem) : j <= p => Store(mem, p, ch, k)[j] = mem[j]
                 /\ \A d \in 1..k : p + d <= Len(mem) => Store(mem, p, ch, k)[p + d] = ch[d]
      BY <1>3, <2>2, Stored
    <3>2. QED
      BY <1>5, <3>1
  <2> HIDE DEF bd
  <2>5. ASSUME NEW j \in 1..(p + k) PROVE bd[j] = <<n, o + j - 1>>
    <3>1. CASE j <= p
      <4>1. j \in 1..b /\ j \in 1..p
        BY <1>2, <1>3, <2>2, <3>1
      <4>2. QED
        BY <1>5, <2>4, <3>1, <4>1
    <3>2. CASE ~(j <= p)
      <4> DEFINE d == j - p
      <4>1. d \in 1..k /\ p + d = j /\ p + d <= b /\ o + p + d - 1 = o + j - 1
        BY <1>2, <1>3, <1>4, <2>2, <3>2
      <4> HIDE DEF d
      <4>2. bd[p + d] = ch[d] /\ ch[d] = <<n, o + p + d - 1>>
        BY <2>3, <2>4, <4>1
      <4>3. QED
        BY <4>1, <4>2
    <3>3. QED
      BY <3>1, <3>2
  <2>6. CASE k = need
    <3> DEFINE y == [e EXCEPT !.body = bd, !.bpos = 0, !.state = "waiting_meta"]
    <3>1. x = Ending(y, Rest(ch, k), [header |-> HeaderWindow(e), body |-> bd], "message")
      BY <2>1, <2>6 DEF bd
    <3>2. /\ y = [f \in Fields |-> y[f]] /\ y.header = e.header /\ y.size = e.size
          /\ y.pos = e.pos /\ y.split = e.split /\ y.state = "waiting_meta"
      BY <1>1 DEF Fields
    <3> HIDE DEF y
    <3>3. p + k = b
      BY <1>2, <1>3, <2>6
    <3>4. Between(y, Rest(ch, k), tail, from, n + 1)
      BY <1>1, <1>2, <1>6, <2>3, <3>2, <3>3 DEF Between, Memory, Shape, SmpStates
    <3>5. HeaderWindow(e) = SubSeq(e.header, 1, h)
      <4>1. e.pos + 1 = 1 /\ e.size = h
        BY <1>1
      <4>2. QED
        BY <4>1, Zenon DEF HeaderWindow
    <3>6. Message(from, n) = [header |-> SubSeq(e.header, 1, h), body |-> bd]
      <4>1. bd \in Seq(Byte) /\ Len(bd) = from[n].b
            /\ \A j \in 1..from[n].b : bd[j] = <<n, Meta + from[n].h + j - 1>>
        BY <2>4, <2>5, <3>3 DEF b, o, h
      <4>2. e.header \in Seq(Byte) /\ from[n].h <= Len(e.header)
            /\ \A j \in 1..from[n].h : e.header[j] = <<n, Meta + j - 1>>
        BY <1>6 DEF h
      <4>3. QED
        BY <1>1, <4>1, <4>2, MessageWhole DEF h
    <3>7. QED
      BY <3>1, <3>4, <3>5, <3>6 DEF Ending
  <2>7. CASE k # need
    <3> DEFINE y == [e EXCEPT !.body = bd, !.bpos = @ + k]
    <3>1. x = Ending(y, Rest(ch, k), Empty, "should_never_come_here")
      BY <2>1, <2>7 DEF bd
    <3>2. /\ y = [f \in Fields |-> y[f]] /\ y.header = e.header /\ y.size = h
          /\ y.pos = 0 /\ y.split = e.split /\ y.state = "waiting_body"
          /\ y.body = bd /\ y.bpos = p + k /\ y.body_size = b
      BY <1>1 DEF Fields, p
    <3> HIDE DEF y
    <3>3. p + k \in 0..(b - 1) /\ p + k < b
      BY <1>2, <1>3, <2>2, <2>7
    <3>4. Memory(y) /\ ~y.split
      BY <1>1, <1>2, <1>6, <3>2 DEF Memory, Shape, SmpStates
    <3>5. /\ \A j \in 1..(p + k) : bd[j] = <<n, Meta + h + j - 1>>
          /\ Ahead(Rest(ch, k), tail, from, n, Meta + h + (p + k))
      <4>1. o + p + k = Meta + h + (p + k)
        BY <1>2, <1>3, <2>2 DEF o
      <4>2. QED
        BY <2>3, <2>5, <3>3, <4>1 DEF o
    <3>6. InBody(y, Rest(ch, k), tail, from, n)
      BY <1>1, <1>6, <2>4, <3>2, <3>3, <3>4, <3>5 DEF InBody, h, b
    <3>7. QED
      BY <3>1, <3>6 DEF Ending
  <2>8. QED
    BY <2>6, <2>7
<1>10. QED
  BY <1>8, <1>9

-----------------------------------------------------------------------------
(* What an ending keeps even when a header was split: the fields, the      *)
(* history, and that a message shares m_header with the endpoint.          *)
Kept(e, x) ==
    /\ Shape(x.e)
    /\ x.e.split = e.split \/ x.e.split = TRUE
    /\ x.what = "message" => x.msg.header = HeaderWindow(x.e)

(* recv() in the body keeps the fields of the object. *)
LEMMA BodyKeeps ==
    ASSUME NEW e, Shape(e), NEW ch, NEW x \in BodyCase(e, ch)
    PROVE  Kept(e, x)
<1>1. CASE Len(ch) = 0
  <2>1. x = Ending(e, ch, Empty, "would_block")
    BY <1>1 DEF BodyCase
  <2>2. QED
    BY <2>1 DEF Kept, Ending
<1>2. CASE Len(ch) # 0
  <2> DEFINE body(k) == Store(e.body, e.bpos, ch, k)
             y(k) == [e EXCEPT !.body = body(k), !.bpos = 0, !.state = "waiting_meta"]
             z(k) == [e EXCEPT !.body = body(k), !.bpos = @ + k]
  <2>1. PICK k \in Pieces(ch, e.body_size - e.bpos) :
          \/ x = Ending(y(k), Rest(ch, k), [header |-> HeaderWindow(e), body |-> body(k)],
                        "message")
          \/ x = Ending(z(k), Rest(ch, k), Empty, "should_never_come_here")
    BY <1>2 DEF BodyCase
  <2> HIDE DEF body
  <2>2. /\ y(k) = [f \in Fields |-> y(k)[f]] /\ y(k).split = e.split
        /\ y(k).state = "waiting_meta" /\ y(k).header = e.header /\ y(k).pos = e.pos
        /\ y(k).size = e.size
    BY DEF Shape, Fields
  <2>3. z(k) = [f \in Fields |-> z(k)[f]] /\ z(k).split = e.split /\ z(k).state = e.state
    BY DEF Shape, Fields
  <2> HIDE DEF y, z
  <2>4. Shape(y(k)) /\ Shape(z(k))
    BY <2>2, <2>3 DEF Shape, SmpStates
  <2>5. HeaderWindow(y(k)) = HeaderWindow(e)
    BY <2>2, Zenon DEF HeaderWindow
  <2>6. QED
    BY <2>1, <2>2, <2>3, <2>4, <2>5 DEF Kept, Ending
<1>3. QED
  BY <1>1, <1>2

(* So does the step from the header to the body, *)
LEMMA AfterHeaderKeeps ==
    ASSUME NEW e, Shape(e), NEW ch
    PROVE  Kept(e, AfterHeader(e, ch))
<1> DEFINE z == [e EXCEPT !.body = Zeros(e.body_size), !.bpos = 0, !.state = "waiting_body"]
<1>1. z = [f \in Fields |-> z[f]] /\ z.split = e.split /\ z.state = "waiting_body"
  BY DEF Shape, Fields
<1>2. \/ AfterHeader(e, ch) = Ending(e, ch, [header |-> HeaderWindow(e), body |-> <<>>],
                                     "message")
      \/ AfterHeader(e, ch) = Ending(e, ch, Empty, "body_too_big")
      \/ AfterHeader(e, ch) = Ending(z, ch, Empty, "next_case")
  BY DEF AfterHeader
<1> HIDE DEF z
<1>3. Shape(z)
  BY <1>1 DEF Shape, SmpStates
<1>4. QED
  BY <1>1, <1>2, <1>3 DEF Kept, Ending

(* reading the header, *)
LEMMA HeaderKeeps ==
    ASSUME NEW e, Shape(e), NEW ch, NEW x \in HeaderCase(e, ch)
    PROVE  Kept(e, x)
<1> DEFINE header(k) == Store(e.header, e.pos, ch, k)
           y(k) == [e EXCEPT !.header = header(k), !.pos = 0, !.size = e.header_size]
           z(k) == [e EXCEPT !.header = header(k), !.pos = @ + k, !.split = TRUE]
<1>1. \/ x \in {Ending(e, ch, Empty, "buffer_too_small"), Ending(e, ch, Empty, "would_block")}
      \/ \E k \in Pieces(ch, e.header_size - e.pos) :
            \/ x = AfterHeader(y(k), Rest(ch, k))
            \/ x = AfterHeader(z(k), Rest(ch, k))
  BY DEF HeaderCase
<1>2. CASE x \in {Ending(e, ch, Empty, "buffer_too_small"), Ending(e, ch, Empty, "would_block")}
  BY <1>2 DEF Kept, Ending
<1>3. ASSUME NEW k \in Pieces(ch, e.header_size - e.pos),
             x = AfterHeader(y(k), Rest(ch, k)) \/ x = AfterHeader(z(k), Rest(ch, k))
      PROVE  Kept(e, x)
  <2> HIDE DEF header
  <2>1. y(k) = [f \in Fields |-> y(k)[f]] /\ y(k).split = e.split /\ y(k).state = e.state
    BY DEF Shape, Fields
  <2>2. z(k) = [f \in Fields |-> z(k)[f]] /\ z(k).split = TRUE /\ z(k).state = e.state
    BY DEF Shape, Fields
  <2> HIDE DEF y, z
  <2>3. Shape(y(k)) /\ Shape(z(k))
    BY <2>1, <2>2 DEF Shape
  <2>4. Kept(y(k), AfterHeader(y(k), Rest(ch, k))) /\ Kept(z(k), AfterHeader(z(k), Rest(ch, k)))
    BY <2>3, AfterHeaderKeeps
  <2>5. QED
    BY <1>3, <2>1, <2>2, <2>4 DEF Kept
<1>4. QED
  BY <1>1, <1>2, <1>3

(* parsing the meta, *)
LEMMA ParseKeeps ==
    ASSUME NEW e, Shape(e), NEW ch, NEW from
    PROVE  Kept(e, ParseMeta(e, ch, from))
<1> DEFINE h == from[e.header[1][1]].h
           b == from[e.header[1][1]].b
           e1 == [e EXCEPT !.header_size = h, !.body_size = b]
           e2 == [e1 EXCEPT !.state = "waiting_header"]
           e3 == [e2 EXCEPT !.new_header = TRUE, !.header = Zeros(h), !.size = h]
           x == ParseMeta(e, ch, from)
<1>1. \/ x = Ending(e, ch, Empty, "wrong_format") \/ x = Ending(e1, ch, Empty, "wrong_format")
      \/ x = Ending(e2, ch, Empty, "next_case") \/ x = Ending(e3, ch, Empty, "next_case")
  BY DEF ParseMeta
<1> HIDE DEF h, b
<1>2. e1 = [f \in Fields |-> e1[f]] /\ e1.split = e.split /\ e1.state = e.state
  BY DEF Shape, Fields
<1> HIDE DEF e1
<1>3. e2 = [f \in Fields |-> e2[f]] /\ e2.split = e1.split /\ e2.state = "waiting_header"
  BY <1>2 DEF Fields
<1> HIDE DEF e2
<1>4. e3 = [f \in Fields |-> e3[f]] /\ e3.split = e2.split /\ e3.state = e2.state
  BY <1>3 DEF Fields
<1> HIDE DEF e3, x
<1>5. Shape(e1) /\ Shape(e2) /\ Shape(e3)
  BY <1>2, <1>3, <1>4 DEF Shape, SmpStates
<1>6. QED
  BY <1>1, <1>2, <1>3, <1>4, <1>5 DEF Kept, Ending, x

(* reading the meta, *)
LEMMA MetaKeeps ==
    ASSUME NEW e, Shape(e), NEW ch, NEW from, NEW x \in MetaCase(e, ch, from)
    PROVE  Kept(e, x)
<1> DEFINE header(k) == Store(e.header, e.pos, ch, k)
           y(k) == [e EXCEPT !.header = header(k), !.pos = 0]
           z(k) == [e EXCEPT !.header = header(k), !.pos = @ + k]
<1>1. \/ x \in {Ending(e, ch, Empty, "buffer_too_small"), Ending(e, ch, Empty, "would_block")}
      \/ \E k \in Pieces(ch, Meta - e.pos) :
            \/ x = ParseMeta(y(k), Rest(ch, k), from)
            \/ x = Ending(z(k), Rest(ch, k), Empty, "next_case")
  BY DEF MetaCase
<1>2. CASE x \in {Ending(e, ch, Empty, "buffer_too_small"), Ending(e, ch, Empty, "would_block")}
  BY <1>2 DEF Kept, Ending
<1>3. ASSUME NEW k \in Pieces(ch, Meta - e.pos),
             \/ x = ParseMeta(y(k), Rest(ch, k), from)
             \/ x = Ending(z(k), Rest(ch, k), Empty, "next_case")
      PROVE  Kept(e, x)
  <2> HIDE DEF header
  <2>1. y(k) = [f \in Fields |-> y(k)[f]] /\ y(k).split = e.split /\ y(k).state = e.state
    BY DEF Shape, Fields
  <2>2. z(k) = [f \in Fields |-> z(k)[f]] /\ z(k).split = e.split /\ z(k).state = e.state
    BY DEF Shape, Fields
  <2> HIDE DEF y, z
  <2>3. Shape(y(k)) /\ Shape(z(k))
    BY <2>1, <2>2 DEF Shape
  <2>4. Kept(y(k), ParseMeta(y(k), Rest(ch, k), from))
    BY <2>3, ParseKeeps
  <2>5. QED
    BY <1>3, <2>1, <2>2, <2>3, <2>4 DEF Kept, Ending
<1>4. QED
  BY <1>1, <1>2, <1>3

(* The cases fall through one after the other. *)
LEMMA FromHeaderKeeps ==
    ASSUME NEW e, Shape(e), NEW ch, NEW x \in FromHeader(e, ch)
    PROVE  Kept(e, x)
<1>1. PICK y \in HeaderCase(e, ch) : x = y \/ x \in BodyCase(y.e, y.ch)
  BY DEF FromHeader
<1>2. Kept(e, y)
  BY HeaderKeeps
<1>3. x \in BodyCase(y.e, y.ch) => Kept(y.e, x)
  BY <1>2, BodyKeeps DEF Kept
<1>4. QED
  BY <1>1, <1>2, <1>3 DEF Kept

(* entering with the meta, *)
LEMMA FromMetaKeeps ==
    ASSUME NEW e, Shape(e), NEW ch, NEW from, NEW x \in FromMeta(e, ch, from)
    PROVE  Kept(e, x)
<1>1. PICK y \in MetaCase(e, ch, from) : x = y \/ x \in FromHeader(y.e, y.ch)
  BY DEF FromMeta
<1>2. Kept(e, y)
  BY MetaKeeps
<1>3. x \in FromHeader(y.e, y.ch) => Kept(y.e, x)
  BY <1>2, FromHeaderKeeps DEF Kept
<1>4. QED
  BY <1>1, <1>2, <1>3 DEF Kept

(* and every way recv() ends. *)
LEMMA EndingKeeps ==
    ASSUME NEW e, Shape(e), NEW ch, NEW from, NEW x \in RecvEndings(e, ch, from)
    PROVE  Kept(e, x)
<1> DEFINE r == Reset(e)
<1>1. r = [f \in Fields |-> r[f]] /\ r.split = e.split /\ r.state = "waiting_meta"
  BY DEF Reset, NewSmp, Fields
<1>2. Shape(r)
  BY <1>1 DEF Shape, SmpStates
<1> HIDE DEF r
<1>3. \/ x = Ending(e, ch, Empty, "sending") \/ x \in FromMeta(r, ch, from)
      \/ x \in FromMeta(e, ch, from) \/ x \in FromHeader(e, ch) \/ x \in BodyCase(e, ch)
  BY DEF RecvEndings, Shape, SmpStates, r
<1>4. CASE x = Ending(e, ch, Empty, "sending")
  BY <1>4 DEF Kept, Ending
<1>5. CASE x \in FromMeta(r, ch, from)
  BY <1>1, <1>2, <1>5, FromMetaKeeps DEF Kept
<1>6. QED
  BY <1>3, <1>4, <1>5, FromMetaKeeps, FromHeaderKeeps, BodyKeeps

(* How a call of recv() ends that reads message n: some header has come in *)
(* pieces, or the call returns the message, or the next call continues.    *)
Proceeds(x, tail, from, n) ==
    \/ x.e.split
    \/ /\ x.what \notin {"wrong_format", "body_too_big", "sending"}
       /\ IF x.what = "message"
          THEN /\ Between(x.e, x.ch, tail, from, n + 1)
               /\ x.msg = Message(from, n) /\ n \in 1..Len(from)
          ELSE Reading(x.e, x.ch, tail, from, n)

(* recv() in the body goes on in the body or returns the message, *)
LEMMA BodyProceeds ==
    ASSUME NEW from \in Seq(Sizes), NEW ch, NEW tail, NEW n, NEW e,
           InBody(e, ch, tail, from, n), NEW x \in BodyCase(e, ch)
    PROVE  Proceeds(x, tail, from, n)
<1>1. n \in 1..Len(from)
  BY DEF InBody
<1>2. QED
  BY <1>1, BodyRead DEF Proceeds, Reading

(* in the header goes on to the body, *)
LEMMA HeaderProceeds ==
    ASSUME NEW from \in Seq(Sizes), NEW ch, NEW tail, NEW n, NEW e,
           InHeader(e, ch, tail, from, n), NEW x \in FromHeader(e, ch)
    PROVE  Proceeds(x, tail, from, n)
<1>1. n \in 1..Len(from)
  BY DEF InHeader
<1>2. PICK y \in HeaderCase(e, ch) :
        IF y.what = "next_case" THEN x \in BodyCase(y.e, y.ch) ELSE x = y
  BY DEF FromHeader
<1>3. \/ y.what = "would_block" /\ y.e = e /\ y.ch = ch
      \/ Shape(y.e) /\ y.e.split
      \/ /\ y.what = "message" /\ Between(y.e, y.ch, tail, from, n + 1)
         /\ y.msg = Message(from, n)
      \/ y.what = "next_case" /\ InBody(y.e, y.ch, tail, from, n)
  BY HeaderRead
<1>4. CASE y.what = "would_block" /\ y.e = e /\ y.ch = ch
  BY <1>2, <1>4 DEF Proceeds, Reading
<1>5. CASE Shape(y.e) /\ y.e.split
  <2>1. x \in BodyCase(y.e, y.ch) => Kept(y.e, x)
    BY <1>5, BodyKeeps
  <2>2. QED
    BY <1>2, <1>5, <2>1 DEF Proceeds, Kept
<1>6. CASE /\ y.what = "message" /\ Between(y.e, y.ch, tail, from, n + 1)
           /\ y.msg = Message(from, n)
  BY <1>1, <1>2, <1>6 DEF Proceeds
<1>7. CASE y.what = "next_case" /\ InBody(y.e, y.ch, tail, from, n)
  BY <1>2, <1>7, BodyProceeds
<1>8. QED
  BY <1>3, <1>4, <1>5, <1>6, <1>7

(* in the meta goes on to the header, *)
LEMMA MetaProceeds ==
    ASSUME NEW from \in Seq(Sizes), NEW ch, NEW tail, NEW n, NEW e,
           InMeta(e, ch, tail, from, n), NEW x \in FromMeta(e, ch, from)
    PROVE  Proceeds(x, tail, from, n)
<1>1. PICK y \in MetaCase(e, ch, from) :
        IF y.what = "next_case" THEN x \in FromHeader(y.e, y.ch) ELSE x = y
  BY DEF FromMeta
<1>2. \/ y.what = "would_block" /\ y.e = e /\ y.ch = ch
      \/ y.what = "next_case" /\ InMeta(y.e, y.ch, tail, from, n) /\ y.e.pos > 0
      \/ y.what = "next_case" /\ InHeader(y.e, y.ch, tail, from, n)
  BY MetaRead
<1>3. CASE y.what = "would_block" /\ y.e = e /\ y.ch = ch
  BY <1>1, <1>3 DEF Proceeds, Reading
<1>4. CASE y.what = "next_case" /\ InMeta(y.e, y.ch, tail, from, n) /\ y.e.pos > 0
  <2> DEFINE z == Ending(y.e, y.ch, Empty, "buffer_too_small")
  <2>1. HeaderCase(y.e, y.ch) = {z}
    BY <1>4, ShortMeta
  <2>2. z.what = "buffer_too_small" /\ z.e = y.e /\ z.ch = y.ch
    BY DEF Ending
  <2> HIDE DEF z
  <2>3. x = z
    BY <1>1, <1>4, <2>1, <2>2 DEF FromHeader
  <2>4. QED
    BY <1>4, <2>2, <2>3 DEF Proceeds, Reading
<1>5. CASE y.what = "next_case" /\ InHeader(y.e, y.ch, tail, from, n)
  BY <1>1, <1>5, HeaderProceeds
<1>6. QED
  BY <1>2, <1>3, <1>4, <1>5

(* and from any state leaves the receiver right. *)
LEMMA RecvProceeds ==
    ASSUME NEW from \in Seq(Sizes), NEW ch, NEW tail, NEW n, NEW e,
           Reading(e, ch, tail, from, n), NEW x \in RecvEndings(e, ch, from)
    PROVE  Proceeds(x, tail, from, n)
<1>1. CASE e.state = "send_complete" /\ Between(e, ch, tail, from, n)
  <2>1. x \in FromMeta(Reset(e), ch, from)
    BY <1>1 DEF RecvEndings
  <2>2. QED
    BY <1>1, <2>1, ResetRight, MetaProceeds
<1>2. CASE InMeta(e, ch, tail, from, n)
  <2>1. x \in FromMeta(e, ch, from)
    BY <1>2 DEF RecvEndings, InMeta
  <2>2. QED
    BY <1>2, <2>1, MetaProceeds
<1>3. CASE InHeader(e, ch, tail, from, n)
  <2>1. x \in FromHeader(e, ch)
    BY <1>3 DEF RecvEndings, InHeader
  <2>2. QED
    BY <1>3, <2>1, HeaderProceeds
<1>4. CASE InBody(e, ch, tail, from, n)
  <2>1. x \in BodyCase(e, ch)
    BY <1>4 DEF RecvEndings, InBody
  <2>2. QED
    BY <1>4, <2>1, BodyProceeds
<1>5. QED
  BY <1>1, <1>2, <1>3, <1>4 DEF Reading

-----------------------------------------------------------------------------
(* Each endpoint is the peer of its peer. *)
LEMMA Peers ==
    ASSUME NEW ep \in Endpoints
    PROVE  /\ Peer(ep) \in Endpoints /\ Peer(ep) # ep /\ Peer(Peer(ep)) = ep
           /\ \A q \in Endpoints : q = ep \/ q = Peer(ep)
  BY DEF Endpoints, Peer

(* A sequence with one more element. *)
LEMMA Appended ==
    ASSUME NEW s, IsSeq(s), NEW m
    PROVE  /\ IsSeq(Append(s, m)) /\ Len(Append(s, m)) = Len(s) + 1
           /\ Len(s) \in Nat /\ Append(s, m)[Len(s) + 1] = m
           /\ Append(s, m) # <<>> /\ Last(Append(s, m)) = m
<1> DEFINE S == {s[j] : j \in DOMAIN s} \cup {m}
           t == Append(s, m)
<1>1. s \in Seq(S)
  <2>1. s \in Seq({s[j] : j \in DOMAIN s})
    BY DEF IsSeq
  <2>2. ASSUME NEW A, s \in Seq(A), A \subseteq S PROVE s \in Seq(S)
    BY <2>2, SeqDef
  <2>3. QED
    BY <2>1, <2>2
<1>2. m \in S /\ Len(s) \in Nat
  BY <1>1, LenProperties
<1> HIDE DEF S
<1>3. t \in Seq(S) /\ Len(t) = Len(s) + 1 /\ t[Len(s) + 1] = m
  BY <1>1, <1>2, AppendProperties
<1> HIDE DEF t
<1>4. t # <<>>
  BY <1>2, <1>3, EmptySeq
<1>5. IsSeq(t)
  <2> DEFINE T == {t[j] : j \in DOMAIN t}
  <2>1. t \in [1..Len(t) -> T] /\ Len(t) \in Nat
    BY <1>3, LenProperties
  <2>2. t \in Seq(T)
    <3> HIDE DEF T
    <3>1. QED
      BY <2>1, SeqDef
  <2>3. QED
    BY <2>2 DEF IsSeq
<1>6. Last(t) = m
  BY <1>3 DEF Last
<1>7. QED
  BY <1>2, <1>3, <1>4, <1>5, <1>6 DEF t

(* send() and send_more() only set the state of the endpoint. *)
LEMMA StateSet ==
    ASSUME NEW e, Shape(e), NEW st \in SmpStates
    PROVE  LET y == [e EXCEPT !.state = st]
           IN /\ Shape(y) /\ y.state = st /\ y.split = e.split
              /\ HeaderWindow(y) = HeaderWindow(e)
              /\ \A ch, tail, from, n :
                    Between(e, ch, tail, from, n) => Between(y, ch, tail, from, n)
<1> DEFINE y == [e EXCEPT !.state = st]
<1>1. /\ y = [f \in Fields |-> y[f]] /\ y.state = st /\ y.split = e.split
      /\ y.header = e.header /\ y.pos = e.pos /\ y.size = e.size
  BY DEF Shape, Fields
<1> HIDE DEF y
<1>2. Shape(y)
  BY <1>1 DEF Shape
<1>3. HeaderWindow(y) = HeaderWindow(e)
  BY <1>1, Zenon DEF HeaderWindow
<1>4. QED
  BY <1>1, <1>2, <1>3 DEF y, Between, Memory

(* The peer's sending changes what is ahead of a reader, not where it is. *)
LEMMA ReadsOn ==
    ASSUME NEW e, NEW ch, NEW tail, NEW from \in Seq(Sizes), NEW n,
           NEW ch2, NEW tail2, NEW to \in Seq(Sizes),
           Len(from) <= Len(to), \A m \in 1..Len(from) : to[m] = from[m],
           \A i : Ahead(ch, tail, from, n, i) => Ahead(ch2, tail2, to, n, i)
    PROVE  /\ Between(e, ch, tail, from, n) => Between(e, ch2, tail2, to, n)
           /\ Reading(e, ch, tail, from, n) => Reading(e, ch2, tail2, to, n)
<1>1. n \in 1..Len(from) => n \in 1..Len(to) /\ to[n] = from[n]
  BY LenProperties
<1>2. Between(e, ch, tail, from, n) => Between(e, ch2, tail2, to, n)
  BY DEF Between
<1>3. InMeta(e, ch, tail, from, n) => InMeta(e, ch2, tail2, to, n)
  BY DEF InMeta
<1>4. InHeader(e, ch, tail, from, n) => InHeader(e, ch2, tail2, to, n)
  BY <1>1 DEF InHeader
<1>5. InBody(e, ch, tail, from, n) => InBody(e, ch2, tail2, to, n)
  BY <1>1 DEF InBody
<1>6. QED
  BY <1>2, <1>3, <1>4, <1>5 DEF Reading

(* Init: nothing sent, both objects are reset. *)
LEMMA InitInv ==
    ASSUME Init
    PROVE  SmpInv
<1>1. /\ smp = [ep \in Endpoints |-> NewSmp] /\ sendbuf = [ep \in Endpoints |-> <<>>]
      /\ chan = [ep \in Endpoints |-> <<>>]
      /\ app = [ep \in Endpoints |-> IF ep = "client" THEN "send" ELSE "recv"]
      /\ sent = [ep \in Endpoints |-> <<>>] /\ delivered = [ep \in Endpoints |-> <<>>]
      /\ outcome = [ep \in Endpoints |-> "none"]
  BY DEF Init
<1>2. /\ NewSmp = [f \in Fields |-> NewSmp[f]] /\ NewSmp.state = "waiting_meta"
      /\ NewSmp.split = FALSE /\ NewSmp.header = Zeros(HeaderBuffer)
      /\ NewSmp.size = HeaderBuffer /\ NewSmp.pos = 0 /\ NewSmp.header_size = 0
  BY DEF NewSmp, Fields
<1>3. \A A : <<>> \in Seq(A)
  BY EmptySeq
<1>4. ShapesRight
  <2>1. Shape(NewSmp) /\ IsSeq(<<>>)
    BY <1>2, <1>3 DEF Shape, SmpStates, IsSeq
  <2>2. QED
    BY <1>1, <1>3, <2>1 DEF ShapesRight
<1>5. Memory(NewSmp) /\ ~NewSmp.split
  BY <1>2, Zeroed, SizesAssumption DEF Memory, Shape, SmpStates
<1>6. Ahead(<<>>, <<>>, <<>>, 1, 0)
  <2>1. <<>> \o <<>> = <<>> /\ Len(<<>>) = 0
    BY <1>3, ConcatEmptySeq, EmptySeq
  <2>2. Flow(<<>>, <<>>) /\ NextIs(<<>>, <<>>, 1, 0)
    BY <2>1 DEF Flow, NextIs
  <2>3. QED
    BY <1>3, <2>1, <2>2 DEF Ahead
<1>7. Between(NewSmp, <<>>, <<>>, <<>>, 1)
  BY <1>2, <1>5, <1>6 DEF Between
<1>8. InMeta(NewSmp, <<>>, <<>>, <<>>, 1)
  <2>1. Meta <= HeaderBuffer /\ 0 \in 0..(Meta - 1) /\ ~(0 > 0)
    BY SizesAssumption
  <2>2. QED
    BY <1>2, <1>5, <1>6, <2>1 DEF InMeta
<1>9. \A ep \in Endpoints : ReaderRight(ep)
  <2> TAKE ep \in Endpoints
  <2>1. /\ smp[ep] = NewSmp /\ chan[ep] = <<>> /\ sendbuf[Peer(ep)] = <<>>
        /\ sent[Peer(ep)] = <<>> /\ Len(delivered[ep]) + 1 = 1
    BY <1>1, Peers, EmptySeq
  <2>2. QED
    BY <1>7, <1>8, <2>1 DEF ReaderRight, Reading
<1>10. SendersRight /\ HeaderIsTheApplications /\ OnlyResumableErrors
  BY <1>1 DEF SendersRight, HeaderIsTheApplications, OnlyResumableErrors
<1>11. QED
  BY <1>4, <1>9, <1>10 DEF SmpInv

(* A step of the sending side: the endpoint's own reader only sees its     *)
(* state set, and the peer's reader sees the bytes ahead of it move.       *)
LEMMA SendSide ==
    ASSUME SmpInv, ShapesRight', SendersRight', NEW ep \in Endpoints, NEW st \in SmpStates,
           smp' = [smp EXCEPT ![ep].state = st],
           chan'[ep] = chan[ep], sendbuf'[Peer(ep)] = sendbuf[Peer(ep)],
           sent'[Peer(ep)] = sent[Peer(ep)], app'[Peer(ep)] = app[Peer(ep)],
           delivered' = delivered, outcome' = outcome,
           ~smp[ep].split => app[ep] # "recv",
           app[ep] = "recv" => app'[ep] = "recv",
           app[ep] # "recv" /\ app'[ep] = "recv" => st = "send_complete",
           Len(sent[ep]) <= Len(sent'[ep]),
           \A m \in 1..Len(sent[ep]) : sent'[ep][m] = sent[ep][m],
           \A n, i : Ahead(chan[Peer(ep)], sendbuf[ep], sent[ep], n, i)
                        => Ahead(chan'[Peer(ep)], sendbuf'[ep], sent'[ep], n, i)
    PROVE  SmpInv'
<1> DEFINE q == Peer(ep)
           y == [smp[ep] EXCEPT !.state = st]
<1>1. q \in Endpoints /\ q # ep /\ Peer(q) = ep /\ \A r \in Endpoints : r = ep \/ r = q
  BY Peers
<1>2. /\ smp = [r \in Endpoints |-> smp[r]] /\ Shape(smp[ep])
      /\ sent[ep] \in Seq(Sizes) /\ sent'[ep] \in Seq(Sizes)
  BY DEF SmpInv, ShapesRight
<1>3. smp'[ep] = y /\ smp'[q] = smp[q]
  BY <1>1, <1>2
<1>4. /\ y.state = st /\ y.split = smp[ep].split /\ HeaderWindow(y) = HeaderWindow(smp[ep])
      /\ \A ch, tail, from, n :
            Between(smp[ep], ch, tail, from, n) => Between(y, ch, tail, from, n)
  BY <1>2, StateSet
<1> HIDE DEF y, q
<1>5. ASSUME ~smp'[ep].split PROVE ReaderRight(ep)'
  <2> DEFINE n == Len(delivered[ep]) + 1
  <2>1. Between(smp[ep], chan[ep], sendbuf[q], sent[q], n) /\ app[ep] # "recv"
    BY <1>3, <1>4, <1>5 DEF SmpInv, ReaderRight, q
  <2>2. Between(smp'[ep], chan'[ep], sendbuf'[q], sent'[q], n)
    BY <1>3, <1>4, <2>1 DEF q
  <2>3. app'[ep] = "recv" => smp'[ep].state = "send_complete"
    BY <1>3, <1>4, <2>1
  <2>4. QED
    BY <2>2, <2>3 DEF ReaderRight, Reading, q
<1>6. ASSUME ~smp'[q].split PROVE ReaderRight(q)'
  <2> DEFINE n == Len(delivered[q]) + 1
  <2>1. IF app[q] = "recv" THEN Reading(smp[q], chan[q], sendbuf[ep], sent[ep], n)
                           ELSE Between(smp[q], chan[q], sendbuf[ep], sent[ep], n)
    BY <1>1, <1>3, <1>6 DEF SmpInv, ReaderRight
  <2>2. ASSUME NEW e, NEW m
        PROVE  /\ Between(e, chan[q], sendbuf[ep], sent[ep], m)
                    => Between(e, chan'[q], sendbuf'[ep], sent'[ep], m)
               /\ Reading(e, chan[q], sendbuf[ep], sent[ep], m)
                    => Reading(e, chan'[q], sendbuf'[ep], sent'[ep], m)
    <3>1. \A i : Ahead(chan[q], sendbuf[ep], sent[ep], m, i)
                    => Ahead(chan'[q], sendbuf'[ep], sent'[ep], m, i)
      BY DEF q
    <3>2. QED
      BY <1>2, <3>1, ReadsOn
  <2>3. IF app'[q] = "recv" THEN Reading(smp'[q], chan'[q], sendbuf'[ep], sent'[ep], n)
                            ELSE Between(smp'[q], chan'[q], sendbuf'[ep], sent'[ep], n)
    <3>1. app'[q] = app[q]
      BY DEF q
    <3>2. QED
      BY <1>3, <2>1, <2>2, <3>1
  <2>4. QED
    BY <1>1, <2>3 DEF ReaderRight
<1>7. \A r \in Endpoints : ~smp'[r].split => ReaderRight(r)'
  BY <1>1, <1>5, <1>6
<1>8. HeaderIsTheApplications'
  <2>1. \A r \in Endpoints :
          /\ app'[r] # "recv" => app[r] # "recv"
          /\ HeaderWindow(smp'[r]) = HeaderWindow(smp[r])
    BY <1>1, <1>3, <1>4 DEF q
  <2>2. QED
    BY <2>1 DEF SmpInv, HeaderIsTheApplications
<1>9. OnlyResumableErrors'
  <2>1. \A r \in Endpoints : smp'[r].split = smp[r].split
    BY <1>1, <1>3, <1>4
  <2>2. QED
    BY <2>1 DEF SmpInv, OnlyResumableErrors
<1>10. QED
  BY <1>7, <1>8, <1>9 DEF SmpInv

(* What channel.send() leaves. *)
LEMMA Transmitted ==
    ASSUME SmpInv, NEW ep \in Endpoints, NEW bytes \in Seq(Byte), NEW k \in 0..Len(bytes),
           Transmit(ep, bytes, k)
    PROVE  /\ smp' = [r \in Endpoints |-> smp'[r]] /\ chan' = [r \in Endpoints |-> chan'[r]]
           /\ \A r \in Endpoints : Shape(smp'[r])
           /\ sendbuf' \in [Endpoints -> Seq(Byte)]
           /\ chan'[ep] = chan[ep] /\ chan'[Peer(ep)] = chan[Peer(ep)] \o SubSeq(bytes, 1, k)
           /\ sendbuf'[Peer(ep)] = sendbuf[Peer(ep)] /\ sendbuf'[ep] = Rest(bytes, k)
           /\ k = Len(bytes) => sendbuf'[ep] = <<>>
<1>1. Peer(ep) \in Endpoints /\ Peer(ep) # ep /\ \A r \in Endpoints : r = ep \/ r = Peer(ep)
  BY Peers
<1>2. /\ smp = [r \in Endpoints |-> smp[r]] /\ chan = [r \in Endpoints |-> chan[r]]
      /\ sendbuf \in [Endpoints -> Seq(Byte)] /\ \A r \in Endpoints : Shape(smp[r])
  BY DEF SmpInv, ShapesRight
<1>3. Rest(bytes, k) \in Seq(Byte) /\ (k = Len(bytes) => Rest(bytes, k) = <<>>)
  <2>1. <<>> \in Seq(Byte)
    BY EmptySeq
  <2>2. QED
    BY <2>1, Moved
<1>4. PICK st \in {"send_complete", "sending_data"} : smp' = [smp EXCEPT ![ep].state = st]
  BY DEF Transmit
<1>5. smp' = [r \in Endpoints |-> smp'[r]] /\ \A r \in Endpoints : Shape(smp'[r])
  <2>1. smp'[Peer(ep)] = smp[Peer(ep)] /\ smp'[ep] = [smp[ep] EXCEPT !.state = st]
    BY <1>1, <1>2, <1>4
  <2>2. Shape([smp[ep] EXCEPT !.state = st])
    BY <1>2, StateSet DEF SmpStates
  <2>3. smp' = [r \in Endpoints |-> smp'[r]]
    BY <1>2, <1>4
  <2>4. QED
    BY <1>1, <1>2, <2>1, <2>2, <2>3
<1>6. /\ chan' = [r \in Endpoints |-> chan'[r]] /\ chan'[ep] = chan[ep]
      /\ chan'[Peer(ep)] = chan[Peer(ep)] \o SubSeq(bytes, 1, k)
  BY <1>1, <1>2 DEF Transmit
<1>7. /\ sendbuf' \in [Endpoints -> Seq(Byte)] /\ sendbuf'[Peer(ep)] = sendbuf[Peer(ep)]
      /\ sendbuf'[ep] = Rest(bytes, k)
  BY <1>1, <1>2, <1>3 DEF Transmit
<1>8. QED
  BY <1>3, <1>5, <1>6, <1>7

(* send(): a frame is put behind what the peer has to read. *)
LEMMA SendInv ==
    ASSUME SmpInv, NEW ep \in Endpoints, NEW h \in HeaderSizes, NEW b \in BodySizes,
           Send(ep, h, b)
    PROVE  SmpInv'
<1> DEFINE q == Peer(ep)
<1>1. q \in Endpoints /\ q # ep /\ Peer(q) = ep /\ \A r \in Endpoints : r = ep \/ r = q
  BY Peers
<1>2. /\ smp = [r \in Endpoints |-> smp[r]] /\ chan = [r \in Endpoints |-> chan[r]]
      /\ outcome = [r \in Endpoints |-> outcome[r]]
      /\ delivered = [r \in Endpoints |-> delivered[r]]
      /\ \A r \in Endpoints : Shape(smp[r]) /\ IsSeq(delivered[r])
      /\ app \in [Endpoints -> {"send", "sending", "recv"}]
      /\ sent \in [Endpoints -> Seq(Sizes)] /\ sendbuf \in [Endpoints -> Seq(Byte)]
      /\ SendersRight
  BY DEF SmpInv, ShapesRight
<1>3. app[ep] = "send" /\ sendbuf[ep] = <<>> /\ sent[ep] \in Seq(Sizes)
      /\ delivered' = delivered /\ outcome' = outcome
  BY <1>2 DEF Send, SendersRight
<1>4. CASE SendRefused(h, b)
  <2>1. /\ smp' = [smp EXCEPT ![ep].state = "sending_data"]
        /\ UNCHANGED <<sendbuf, chan, app, sent>>
    BY <1>4 DEF Send
  <2>2. ShapesRight'
    <3>1. smp'[q] = smp[q] /\ smp'[ep] = [smp[ep] EXCEPT !.state = "sending_data"]
      BY <1>1, <1>2, <2>1
    <3>2. Shape([smp[ep] EXCEPT !.state = "sending_data"])
      BY <1>2, StateSet DEF SmpStates
    <3>3. smp' = [r \in Endpoints |-> smp'[r]] /\ \A r \in Endpoints : Shape(smp'[r])
      <4>1. smp' = [r \in Endpoints |-> smp'[r]]
        BY <1>2, <2>1
      <4>2. QED
        BY <1>1, <1>2, <3>1, <3>2, <4>1
    <3>4. QED
      BY <1>2, <1>3, <2>1, <3>3 DEF ShapesRight
  <2>3. SendersRight'
    BY <1>2, <2>1 DEF SendersRight
  <2>4. Len(sent[ep]) <= Len(sent[ep]) /\ "sending_data" \in SmpStates
    BY <1>3, LenProperties DEF SmpStates
  <2>5. QED
    BY <1>3, <2>1, <2>2, <2>3, <2>4, SendSide
<1>5. CASE ~SendRefused(h, b)
  <2> DEFINE N == Len(sent[ep]) + 1
             frame == Frame(N, h, b)
             s == [h |-> h, b |-> b]
  <2>1. h \in 1..MAX_HEADER /\ b \in 0..MAX_DATA
    BY <1>5, SizesAssumption DEF SendRefused
  <2>2. PICK k \in 0..(Meta + h + b) :
          /\ Transmit(ep, frame, k)
          /\ sent' = [sent EXCEPT ![ep] = Append(@, s)]
          /\ app' = [app EXCEPT ![ep] = IF k = Meta + h + b THEN "recv" ELSE "sending"]
    BY <1>5 DEF Send
  <2>3. frame \in Seq(Byte) /\ Len(frame) = Meta + h + b
    <3>1. N \in Nat /\ h \in Nat /\ b \in Nat
      BY <1>3, SizesAssumption, LenProperties
    <3> HIDE DEF N
    <3>2. QED
      BY <3>1, FrameBytes
  <2>4. \A n, i : Ahead(chan[q], sendbuf[ep], sent[ep], n, i)
          => Ahead(chan[q] \o SubSeq(frame, 1, k), Rest(frame, k), Append(sent[ep], s), n, i)
    <3>1. ASSUME NEW from \in Seq(Sizes), NEW ch, NEW n, NEW i, Ahead(ch, <<>>, from, n, i)
          PROVE  Ahead(ch \o SubSeq(Frame(Len(from) + 1, h, b), 1, k),
                       Rest(Frame(Len(from) + 1, h, b), k), Append(from, s), n, i)
      BY <2>1, <3>1, AheadAppend
    <3>2. QED
      BY <1>3, <3>1
  <2>5. s \in Sizes
    BY <2>1 DEF Sizes
  <2>6. /\ Append(sent[ep], s) \in Seq(Sizes) /\ Len(sent[ep]) <= Len(Append(sent[ep], s))
        /\ \A m \in 1..Len(sent[ep]) : Append(sent[ep], s)[m] = sent[ep][m]
    BY <1>3, <2>5, AppendProperties, LenProperties
  <2> HIDE DEF s, frame, N
  <2>7. /\ sent' \in [Endpoints -> Seq(Sizes)] /\ sent'[ep] = Append(sent[ep], s)
        /\ sent'[q] = sent[q]
    BY <1>1, <1>2, <2>2, <2>6
  <2>8. /\ app' \in [Endpoints -> {"send", "sending", "recv"}] /\ app'[q] = app[q]
        /\ app'[ep] = IF k = Len(frame) THEN "recv" ELSE "sending"
    BY <1>1, <1>2, <2>2, <2>3
  <2>9. /\ smp' = [r \in Endpoints |-> smp'[r]] /\ chan' = [r \in Endpoints |-> chan'[r]]
        /\ \A r \in Endpoints : Shape(smp'[r])
        /\ sendbuf' \in [Endpoints -> Seq(Byte)]
        /\ chan'[ep] = chan[ep] /\ chan'[q] = chan[q] \o SubSeq(frame, 1, k)
        /\ sendbuf'[q] = sendbuf[q] /\ sendbuf'[ep] = Rest(frame, k)
        /\ k = Len(frame) => sendbuf'[ep] = <<>>
    BY <2>2, <2>3, Transmitted
  <2>10. ShapesRight'
    BY <1>2, <1>3, <2>7, <2>8, <2>9 DEF ShapesRight
  <2>11. SendersRight'
    BY <1>1, <1>2, <2>8, <2>9 DEF SendersRight
  <2> DEFINE st == IF k = Len(frame) THEN "send_complete" ELSE "sending_data"
  <2>12. smp' = [smp EXCEPT ![ep].state = st] /\ st \in SmpStates
    BY <2>2 DEF Transmit, SmpStates
  <2>13. app'[ep] = "recv" => st = "send_complete"
    BY <2>8
  <2> HIDE DEF st
  <2>14. \A n, i : Ahead(chan[q], sendbuf[ep], sent[ep], n, i)
                    => Ahead(chan'[q], sendbuf'[ep], sent'[ep], n, i)
    BY <2>4, <2>7, <2>9
  <2>15. /\ Len(sent[ep]) <= Len(sent'[ep])
         /\ \A m \in 1..Len(sent[ep]) : sent'[ep][m] = sent[ep][m]
         /\ app[ep] # "recv" /\ app'[q] = app[q]
    BY <1>3, <2>6, <2>7, <2>8
  <2>16. QED
    BY <1>3, <2>7, <2>9, <2>10, <2>11, <2>12, <2>13, <2>14, <2>15, SendSide
<1>6. QED
  BY <1>4, <1>5

(* send_more(): bytes move to the channel. *)
LEMMA SendMoreInv ==
    ASSUME SmpInv, NEW ep \in Endpoints, SendMore(ep)
    PROVE  SmpInv'
<1> DEFINE q == Peer(ep)
           bytes == sendbuf[ep]
<1>1. q \in Endpoints /\ q # ep /\ Peer(q) = ep /\ \A r \in Endpoints : r = ep \/ r = q
  BY Peers
<1>2. /\ outcome = [r \in Endpoints |-> outcome[r]]
      /\ delivered = [r \in Endpoints |-> delivered[r]]
      /\ \A r \in Endpoints : IsSeq(delivered[r])
      /\ app \in [Endpoints -> {"send", "sending", "recv"}]
      /\ sent \in [Endpoints -> Seq(Sizes)] /\ sendbuf \in [Endpoints -> Seq(Byte)]
      /\ SendersRight
  BY DEF SmpInv, ShapesRight
<1>3. PICK k \in 0..Len(sendbuf[ep]) :
        /\ Transmit(ep, sendbuf[ep], k)
        /\ app' = [app EXCEPT ![ep] = IF @ = "sending" /\ k = Len(sendbuf[ep])
                                      THEN "recv" ELSE @]
  BY DEF SendMore
<1>4. bytes \in Seq(Byte) /\ k \in 0..Len(bytes)
  BY <1>2
<1>5. sent' = sent /\ delivered' = delivered /\ outcome' = outcome
  BY DEF SendMore
<1>6. /\ smp' = [r \in Endpoints |-> smp'[r]] /\ chan' = [r \in Endpoints |-> chan'[r]]
      /\ \A r \in Endpoints : Shape(smp'[r])
      /\ sendbuf' \in [Endpoints -> Seq(Byte)]
      /\ chan'[ep] = chan[ep] /\ chan'[q] = chan[q] \o SubSeq(bytes, 1, k)
      /\ sendbuf'[q] = sendbuf[q] /\ sendbuf'[ep] = Rest(bytes, k)
      /\ k = Len(bytes) => sendbuf'[ep] = <<>>
  BY <1>3, <1>4, Transmitted
<1>7. /\ app' \in [Endpoints -> {"send", "sending", "recv"}] /\ app'[q] = app[q]
      /\ app'[ep] = IF app[ep] = "sending" /\ k = Len(bytes) THEN "recv" ELSE app[ep]
  <2>1. ASSUME NEW v \in {"send", "sending", "recv"}, app' = [app EXCEPT ![ep] = v]
        PROVE  /\ app' \in [Endpoints -> {"send", "sending", "recv"}] /\ app'[q] = app[q]
               /\ app'[ep] = v
    BY <1>1, <1>2, <2>1
  <2> DEFINE v == IF app[ep] = "sending" /\ k = Len(bytes) THEN "recv" ELSE app[ep]
  <2>2. v \in {"send", "sending", "recv"} /\ app' = [app EXCEPT ![ep] = v]
    BY <1>2, <1>3
  <2> HIDE DEF v
  <2>3. QED
    BY <2>1, <2>2 DEF v
<1>8. ShapesRight'
  BY <1>2, <1>5, <1>6, <1>7 DEF ShapesRight
<1>9. app[ep] # "sending" => k = Len(bytes)
  <2> HAVE app[ep] # "sending"
  <2>1. bytes = <<>>
    BY <1>2 DEF SendersRight
  <2>2. Len(bytes) = 0
    BY <2>1, EmptySeq
  <2> HIDE DEF bytes
  <2>3. QED
    BY <1>4, <2>2
<1>10. SendersRight'
  BY <1>1, <1>2, <1>6, <1>7, <1>9 DEF SendersRight
<1> DEFINE st == IF k = Len(bytes) THEN "send_complete" ELSE "sending_data"
<1>11. smp' = [smp EXCEPT ![ep].state = st] /\ st \in SmpStates
  BY <1>3 DEF Transmit, SmpStates
<1>12. ~smp[ep].split => app[ep] # "recv"
  <2>1. smp[ep].state = "sending_data"
    BY DEF SendMore
  <2>2. ASSUME NEW ch, NEW tail, NEW from, NEW n
        PROVE  ~Reading(smp[ep], ch, tail, from, n)
    BY <2>1 DEF Reading, InMeta, InHeader, InBody
  <2>3. ~smp[ep].split /\ app[ep] = "recv"
          => Reading(smp[ep], chan[ep], sendbuf[Peer(ep)], sent[Peer(ep)], Len(delivered[ep]) + 1)
    BY DEF SmpInv, ReaderRight
  <2>4. QED
    BY <2>2, <2>3
<1>13. /\ app[ep] = "recv" => app'[ep] = "recv"
       /\ app[ep] # "recv" /\ app'[ep] = "recv" => st = "send_complete"
  BY <1>7
<1>14. ASSUME NEW n, NEW i, Ahead(chan[q], sendbuf[ep], sent[ep], n, i)
       PROVE  Ahead(chan'[q], sendbuf'[ep], sent'[ep], n, i)
  <2>1. Ahead(chan[q] \o SubSeq(bytes, 1, k), Rest(bytes, k), sent[ep], n, i)
    BY <1>14, AheadMoved
  <2>2. QED
    BY <1>5, <1>6, <2>1
<1>15. /\ Len(sent[ep]) <= Len(sent'[ep])
       /\ \A m \in 1..Len(sent[ep]) : sent'[ep][m] = sent[ep][m]
  BY <1>2, <1>5, LenProperties
<1> HIDE DEF st, bytes
<1>16. QED
  BY <1>5, <1>6, <1>7, <1>8, <1>10, <1>11, <1>12, <1>13, <1>14, <1>15, SendSide

(* What recv() may do to the messages delivered, by what it has read. *)
RecvStep(ep) ==
    LET from == sent[Peer(ep)]
        n == Len(delivered[ep]) + 1
    IN \/ smp'[ep].split
       \/ /\ smp'[ep].split = smp[ep].split /\ ~smp[ep].split
          /\ n \in 1..Len(from) /\ delivered'[ep] = Append(delivered[ep], Message(from, n))
       \/ smp'[ep].split = smp[ep].split /\ delivered'[ep] = delivered[ep]

(* recv(): the receiver proceeds, or the header was split. *)
LEMMA RecvInv ==
    ASSUME SmpInv, NEW ep \in Endpoints, Recv(ep)
    PROVE  SmpInv' /\ RecvStep(ep)
<1> DEFINE q == Peer(ep)
           n == Len(delivered[ep]) + 1
           from == sent[q]
           tail == sendbuf[q]
<1>1. q \in Endpoints /\ q # ep /\ Peer(q) = ep /\ \A r \in Endpoints : r = ep \/ r = q
  BY Peers
<1>2. /\ smp = [r \in Endpoints |-> smp[r]] /\ chan = [r \in Endpoints |-> chan[r]]
      /\ outcome = [r \in Endpoints |-> outcome[r]]
      /\ delivered = [r \in Endpoints |-> delivered[r]]
      /\ \A r \in Endpoints : Shape(smp[r]) /\ IsSeq(delivered[r])
      /\ app \in [Endpoints -> {"send", "sending", "recv"}]
      /\ sent \in [Endpoints -> Seq(Sizes)] /\ sendbuf \in [Endpoints -> Seq(Byte)]
      /\ SendersRight
  BY DEF SmpInv, ShapesRight
<1>3. PICK x \in RecvEndings(smp[ep], chan[ep], from) :
        /\ smp' = [smp EXCEPT ![ep] = x.e]
        /\ chan' = [chan EXCEPT ![ep] = x.ch]
        /\ outcome' = [outcome EXCEPT ![ep] = x.what]
        /\ delivered' = [delivered EXCEPT ![ep] =
                IF x.what = "message" THEN Append(@, x.msg) ELSE @]
        /\ app' = [app EXCEPT ![ep] = IF x.what = "message" THEN "send" ELSE @]
  BY DEF Recv
<1>4. app[ep] = "recv" /\ sendbuf' = sendbuf /\ sent' = sent
  BY DEF Recv
<1>5. /\ smp'[ep] = x.e /\ smp'[q] = smp[q] /\ smp' = [r \in Endpoints |-> smp'[r]]
      /\ chan'[ep] = x.ch /\ chan'[q] = chan[q] /\ chan' = [r \in Endpoints |-> chan'[r]]
      /\ outcome'[ep] = x.what /\ outcome'[q] = outcome[q]
      /\ outcome' = [r \in Endpoints |-> outcome'[r]]
  BY <1>1, <1>2, <1>3
<1>6. /\ delivered'[q] = delivered[q] /\ delivered' = [r \in Endpoints |-> delivered'[r]]
      /\ x.what = "message" => delivered'[ep] = Append(delivered[ep], x.msg)
      /\ x.what # "message" => delivered'[ep] = delivered[ep]
  BY <1>1, <1>2, <1>3
<1>7. /\ app' \in [Endpoints -> {"send", "sending", "recv"}] /\ app'[q] = app[q]
      /\ x.what = "message" => app'[ep] = "send"
      /\ x.what # "message" => app'[ep] = "recv"
  BY <1>1, <1>2, <1>3, <1>4
<1>8. Kept(smp[ep], x)
  BY <1>2, EndingKeeps
<1>9. ~smp[ep].split => Proceeds(x, tail, from, n)
  <2> HAVE ~smp[ep].split
  <2>1. Reading(smp[ep], chan[ep], tail, from, n)
    BY <1>4 DEF SmpInv, ReaderRight
  <2>2. from \in Seq(Sizes)
    BY <1>1, <1>2
  <2> HIDE DEF from, n, tail
  <2>3. QED
    BY <2>1, <2>2, RecvProceeds
<1>10. /\ IsSeq(Append(delivered[ep], x.msg))
       /\ Len(Append(delivered[ep], x.msg)) = n /\ n \in Nat
       /\ Last(Append(delivered[ep], x.msg)) = x.msg
  BY <1>2, Appended
<1>11. ShapesRight'
  <2>1. \A r \in Endpoints : Shape(smp'[r])
    BY <1>1, <1>2, <1>5, <1>8 DEF Kept
  <2>2. \A r \in Endpoints : IsSeq(delivered'[r])
    BY <1>1, <1>2, <1>6, <1>10
  <2>3. QED
    BY <1>2, <1>4, <1>5, <1>6, <1>7, <2>1, <2>2 DEF ShapesRight
<1>12. SendersRight'
  <2>1. \A r \in Endpoints : app'[r] # "sending" => app[r] # "sending"
    BY <1>1, <1>4, <1>7
  <2>2. QED
    BY <1>2, <1>4, <2>1 DEF SendersRight
<1>13. ASSUME ~smp'[ep].split PROVE ReaderRight(ep)' /\ Proceeds(x, tail, from, n)
  <2>1. Proceeds(x, tail, from, n)
    BY <1>5, <1>8, <1>9, <1>13 DEF Kept
  <2>2. CASE x.what = "message"
    <3>1. Between(x.e, x.ch, tail, from, n + 1)
      BY <1>5, <1>13, <2>1, <2>2 DEF Proceeds
    <3>2. Len(delivered'[ep]) = n /\ app'[ep] # "recv"
      BY <1>6, <1>7, <1>10, <2>2
    <3>3. sendbuf'[Peer(ep)] = tail /\ sent'[Peer(ep)] = from
      BY <1>4
    <3> HIDE DEF n, tail, from
    <3>4. Between(smp'[ep], chan'[ep], sendbuf'[Peer(ep)], sent'[Peer(ep)], Len(delivered'[ep]) + 1)
      BY <1>5, <3>1, <3>2, <3>3
    <3>5. ReaderRight(ep)'
      BY <3>2, <3>4 DEF ReaderRight
    <3>6. QED
      BY <2>1, <3>5
  <2>3. CASE x.what # "message"
    <3>1. Reading(x.e, x.ch, tail, from, n)
      BY <1>5, <1>13, <2>1, <2>3 DEF Proceeds
    <3>2. Len(delivered'[ep]) + 1 = n /\ app'[ep] = "recv"
      BY <1>6, <1>7, <2>3
    <3>3. sendbuf'[Peer(ep)] = tail /\ sent'[Peer(ep)] = from
      BY <1>4
    <3> HIDE DEF n, tail, from
    <3>4. Reading(smp'[ep], chan'[ep], sendbuf'[Peer(ep)], sent'[Peer(ep)], Len(delivered'[ep]) + 1)
      BY <1>5, <3>1, <3>2, <3>3
    <3>5. ReaderRight(ep)'
      BY <3>2, <3>4 DEF ReaderRight
    <3>6. QED
      BY <2>1, <3>5
  <2>4. QED
    BY <2>2, <2>3
<1>14. ASSUME ~smp'[q].split PROVE ReaderRight(q)'
  <2>1. ReaderRight(q)
    BY <1>1, <1>5, <1>14 DEF SmpInv
  <2> HIDE DEF q
  <2>2. QED
    BY <1>4, <1>5, <1>6, <1>7, <2>1 DEF ReaderRight
<1>15. \A r \in Endpoints : ~smp'[r].split => ReaderRight(r)'
  BY <1>1, <1>13, <1>14
<1>16. HeaderIsTheApplications'
  <2>1. app'[ep] # "recv" => HeaderWindow(smp'[ep]) = Last(delivered'[ep]).header
    BY <1>5, <1>6, <1>7, <1>8, <1>10 DEF Kept
  <2>2. app'[q] # "recv" /\ delivered'[q] # <<>>
          => HeaderWindow(smp'[q]) = Last(delivered'[q]).header
    BY <1>1, <1>5, <1>6, <1>7 DEF SmpInv, HeaderIsTheApplications
  <2>3. QED
    BY <1>1, <2>1, <2>2 DEF HeaderIsTheApplications
<1>17. OnlyResumableErrors'
  <2>1. ~smp'[ep].split => outcome'[ep] \notin {"wrong_format", "body_too_big", "sending"}
    BY <1>5, <1>13 DEF Proceeds
  <2>2. ~smp'[q].split => outcome'[q] \notin {"wrong_format", "body_too_big", "sending"}
    BY <1>1, <1>5 DEF SmpInv, OnlyResumableErrors
  <2>3. QED
    BY <1>1, <2>1, <2>2 DEF OnlyResumableErrors
<1>18. RecvStep(ep)
  <2>1. CASE smp'[ep].split
    BY <2>1 DEF RecvStep
  <2>2. CASE ~smp'[ep].split
    <3>1. smp'[ep].split = smp[ep].split
      BY <1>5, <1>8, <2>2 DEF Kept
    <3>2. CASE x.what = "message"
      <4>1. x.msg = Message(from, n) /\ n \in 1..Len(from)
        BY <1>5, <1>13, <2>2, <3>2 DEF Proceeds
      <4>2. QED
        BY <1>6, <2>2, <3>1, <3>2, <4>1 DEF RecvStep
    <3>3. CASE x.what # "message"
      BY <1>6, <3>1, <3>3 DEF RecvStep
    <3>4. QED
      BY <3>2, <3>3
  <2>3. QED
    BY <2>1, <2>2
<1>19. QED
  BY <1>11, <1>12, <1>15, <1>16, <1>17, <1>18 DEF SmpInv

(* Every step. *)
LEMMA NextInv ==
    ASSUME SmpInv, [Next]_vars
    PROVE  SmpInv'
<1>1. CASE UNCHANGED vars
  BY <1>1 DEF vars, SmpInv, ShapesRight, SendersRight, ReaderRight, HeaderIsTheApplications,
              OnlyResumableErrors
<1>2. CASE Next
  BY <1>2, SendInv, SendMoreInv, RecvInv DEF Next
<1>3. QED
  BY <1>1, <1>2

(* The inductive invariant holds. *)
LEMMA SmpInvHolds == Spec => []SmpInv
  BY InitInv, NextInv, PTL DEF Spec

(* For every size of the buffers and the messages: the header that recv()  *)
(* returned keeps its bytes while the application answers, whatever it     *)
(* tries to send, until it calls recv() again (smp.cpp:207).               *)
THEOREM HeaderKept == Spec => []HeaderIsTheApplications
<1>1. SmpInv => HeaderIsTheApplications
  BY DEF SmpInv
<1>2. QED
  BY <1>1, SmpInvHolds, PTL

(* For every size of the buffers and the messages: unless a header arrived *)
(* in pieces, recv() never fails for good.                                 *)
THEOREM ErrorsResumable == Spec => []OnlyResumableErrors
<1>1. SmpInv => OnlyResumableErrors
  BY DEF SmpInv
<1>2. QED
  BY <1>1, SmpInvHolds, PTL

-----------------------------------------------------------------------------
(* The messages of a sender, as the refinement mapping has them, and a     *)
(* step of the message channel between them and a receiver.                *)
Messages(from) == [n \in DOMAIN from |-> Message(from, n)]

ChannelStep(ep) ==
    LET q == Peer(ep)
        m == Messages(sent[q])
        m2 == Messages(sent'[q])
        d == delivered[ep]
        d2 == delivered'[ep]
        broken == smp[ep].split
        broken2 == smp'[ep].split
    IN \/ Len(m2) = Len(m) + 1 /\ SubSeq(m2, 1, Len(m)) = m /\ d2 = d /\ broken2 = broken
       \/ ~broken /\ Len(d) < Len(m) /\ d2 = Append(d, m[Len(d) + 1]) /\ m2 = m /\ broken2 = broken
       \/ broken2
       \/ m2 = m /\ d2 = d /\ broken2 = broken

(* The messages of a sender are a sequence. *)
LEMMA MessagesSeq ==
    ASSUME NEW from \in Seq(Sizes)
    PROVE  /\ IsSeq(Messages(from)) /\ Len(Messages(from)) = Len(from) /\ Len(from) \in Nat
           /\ \A n \in 1..Len(from) : Messages(from)[n] = Message(from, n)
<1> DEFINE t == Messages(from)
           T == {t[j] : j \in DOMAIN t}
           N == Len(from)
<1>1. N \in Nat /\ DOMAIN from = 1..N
  BY LenProperties
<1>2. t = [n \in 1..N |-> Message(from, n)]
  BY <1>1 DEF Messages
<1> HIDE DEF t, N
<1>3. t \in [1..N -> T]
  BY <1>2
<1> HIDE DEF T
<1>4. t \in Seq(T)
  BY <1>1, <1>3, SeqDef
<1>5. Len(t) = N
  <2>1. DOMAIN t = 1..Len(t) /\ Len(t) \in Nat
    BY <1>4, LenProperties
  <2>2. QED
    BY <1>1, <1>3, <2>1
<1>6. QED
  BY <1>1, <1>2, <1>4, <1>5 DEF IsSeq, T, N, t

(* A message sent does not change the ones before it. *)
LEMMA MessagesGrow ==
    ASSUME NEW from \in Seq(Sizes), NEW s \in Sizes
    PROVE  LET m == Messages(from)
               m2 == Messages(Append(from, s))
           IN Len(m2) = Len(m) + 1 /\ SubSeq(m2, 1, Len(m)) = m
<1> DEFINE to == Append(from, s)
           m == Messages(from)
           m2 == Messages(to)
           N == Len(from)
<1>1. /\ N \in Nat /\ to \in Seq(Sizes) /\ Len(to) = N + 1
      /\ \A n \in 1..N : to[n] = from[n]
  BY LenProperties, AppendProperties
<1> HIDE DEF to
<1>2. /\ IsSeq(m) /\ Len(m) = N /\ \A n \in 1..N : m[n] = Message(from, n)
  BY MessagesSeq
<1>3. IsSeq(m2) /\ Len(m2) = N + 1 /\ \A n \in 1..(N + 1) : m2[n] = Message(to, n)
  BY <1>1, MessagesSeq
<1> HIDE DEF m, m2, N
<1>4. \A n \in 1..N : Message(to, n) = Message(from, n)
  BY <1>1 DEF Message
<1> DEFINE A == {m2[j] : j \in DOMAIN m2} \cup {m[j] : j \in DOMAIN m}
           p == SubSeq(m2, 1, N)
<1>5. m2 \in Seq(A) /\ m \in Seq(A)
  <2>1. ASSUME NEW B, NEW C, NEW u \in Seq(B), B \subseteq C PROVE u \in Seq(C)
    BY <2>1, SeqDef
  <2>2. QED
    BY <1>2, <1>3, <2>1 DEF IsSeq
<1> HIDE DEF A
<1>6. \A j \in 1..N : m2[j] \in A /\ j \in 1..(N + 1)
  <2>1. \A j \in 1..N : j \in 1..Len(m2)
    BY <1>1, <1>3
  <2>2. QED
    BY <1>3, <1>5, <2>1, ElementOfSeq
<1>7. p \in Seq(A) /\ Len(p) = N /\ \A j \in 1..N : p[j] = m2[j]
  BY <1>1, <1>5, <1>6, SubSeqProperties
<1> HIDE DEF p
<1>8. \A j \in 1..N : p[j] = m[j]
  BY <1>2, <1>3, <1>4, <1>6, <1>7
<1>9. p = m
  BY <1>2, <1>5, <1>7, <1>8, SeqEqual
<1>10. QED
  BY <1>2, <1>3, <1>9 DEF p, m, m2, to

(* Every step is one of the message channel, or leaves it alone. *)
LEMMA StepIsChannelStep ==
    ASSUME SmpInv, [Next]_vars, NEW ep \in Endpoints
    PROVE  ChannelStep(ep)
<1> DEFINE q == Peer(ep)
<1>1. q \in Endpoints /\ q # ep /\ Peer(q) = ep /\ \A r \in Endpoints : r = ep \/ r = q
  BY Peers
<1>2. /\ smp = [r \in Endpoints |-> smp[r]] /\ \A r \in Endpoints : Shape(smp[r])
      /\ delivered = [r \in Endpoints |-> delivered[r]]
      /\ sent \in [Endpoints -> Seq(Sizes)]
  BY DEF SmpInv, ShapesRight
<1> HIDE DEF q
<1>3. ASSUME NEW r \in Endpoints, NEW st \in SmpStates, smp' = [smp EXCEPT ![r].state = st]
      PROVE  smp'[ep].split = smp[ep].split
  <2>1. r = ep => smp'[ep] = [smp[ep] EXCEPT !.state = st]
    BY <1>2, <1>3
  <2>2. r # ep => smp'[ep] = smp[ep]
    BY <1>2, <1>3
  <2>3. Shape(smp[ep])
    BY <1>2
  <2>4. [smp[ep] EXCEPT !.state = st].split = smp[ep].split
    BY <2>3, StateSet
  <2>5. QED
    BY <2>1, <2>2, <2>4
<1>4. CASE UNCHANGED vars
  BY <1>4 DEF vars, ChannelStep
<1>5. ASSUME NEW r \in Endpoints, NEW h \in HeaderSizes, NEW b \in BodySizes, Send(r, h, b)
      PROVE  ChannelStep(ep)
  <2> DEFINE s == [h |-> h, b |-> b]
  <2>1. delivered' = delivered
    BY <1>5 DEF Send
  <2>2. smp'[ep].split = smp[ep].split
    <3>1. \E st \in SmpStates : smp' = [smp EXCEPT ![r].state = st]
      BY <1>5 DEF Send, Transmit, SmpStates
    <3>2. QED
      BY <1>3, <3>1
  <2>3. CASE sent' = sent
    BY <2>1, <2>2, <2>3 DEF ChannelStep
  <2>4. CASE ~SendRefused(h, b) /\ sent' = [sent EXCEPT ![r] = Append(@, s)]
    <3>1. h \in 1..MAX_HEADER /\ b \in 0..MAX_DATA
      BY <2>4, SizesAssumption DEF SendRefused
    <3>2. s \in Sizes
      BY <3>1 DEF Sizes
    <3> HIDE DEF s
    <3>3. CASE r = ep
      <4>1. sent'[q] = sent[q]
        BY <1>1, <1>2, <2>4, <3>3
      <4>2. QED
        BY <2>1, <2>2, <4>1 DEF ChannelStep, q
    <3>4. CASE r = q
      <4>1. sent'[q] = Append(sent[q], s) /\ sent[q] \in Seq(Sizes)
        BY <1>1, <1>2, <2>4, <3>4
      <4>2. /\ Len(Messages(sent'[q])) = Len(Messages(sent[q])) + 1
            /\ SubSeq(Messages(sent'[q]), 1, Len(Messages(sent[q]))) = Messages(sent[q])
        BY <3>2, <4>1, MessagesGrow
      <4>3. QED
        BY <2>1, <2>2, <4>2 DEF ChannelStep, q
    <3>5. QED
      BY <1>1, <3>3, <3>4
  <2>5. QED
    BY <1>5, <2>3, <2>4 DEF Send
<1>6. ASSUME NEW r \in Endpoints, SendMore(r) PROVE ChannelStep(ep)
  <2>1. delivered' = delivered /\ sent' = sent
    BY <1>6 DEF SendMore
  <2>2. \E st \in SmpStates : smp' = [smp EXCEPT ![r].state = st]
    BY <1>6 DEF SendMore, Transmit, SmpStates
  <2>3. smp'[ep].split = smp[ep].split
    BY <1>3, <2>2
  <2>4. QED
    BY <2>1, <2>3 DEF ChannelStep
<1>7. ASSUME NEW r \in Endpoints, Recv(r) PROVE ChannelStep(ep)
  <2>1. sent' = sent
    BY <1>7 DEF Recv
  <2>2. CASE r = q
    <3>1. smp'[ep] = smp[ep] /\ delivered'[ep] = delivered[ep]
      BY <1>1, <1>2, <1>7, <2>2 DEF Recv
    <3>2. QED
      BY <2>1, <3>1 DEF ChannelStep
  <2>3. CASE r = ep
    <3> DEFINE from == sent[q]
               n == Len(delivered[ep]) + 1
    <3>1. RecvStep(ep)
      BY <1>7, <2>3, RecvInv
    <3>2. from \in Seq(Sizes) /\ IsSeq(delivered[ep])
      BY <1>1, <1>2 DEF SmpInv, ShapesRight
    <3>3. Len(delivered[ep]) \in Nat
      BY <3>2, LenProperties DEF IsSeq
    <3>4. CASE /\ smp'[ep].split = smp[ep].split /\ ~smp[ep].split
               /\ n \in 1..Len(from) /\ delivered'[ep] = Append(delivered[ep], Message(from, n))
      <4>1. Len(delivered[ep]) < Len(Messages(from)) /\ Messages(from)[n] = Message(from, n)
        BY <3>2, <3>3, <3>4, MessagesSeq
      <4>2. QED
        BY <2>1, <3>4, <4>1 DEF ChannelStep, q
    <3>5. CASE smp'[ep].split \/ (smp'[ep].split = smp[ep].split /\ delivered'[ep] = delivered[ep])
      BY <2>1, <3>5 DEF ChannelStep
    <3>6. QED
      BY <3>1, <3>4, <3>5 DEF RecvStep, q
  <2>4. QED
    BY <1>1, <2>2, <2>3
<1>8. QED
  BY <1>4, <1>5, <1>6, <1>7 DEF Next

(* For every size of the buffers and the messages, and any number of       *)
(* messages: recv() returns exactly the messages the peer sent, in order   *)
(* and byte for byte, however the channel cuts up the meta and the body,   *)
(* until a header arrives in pieces.  Both directions of smp implement the *)
(* message channel.                                                        *)
THEOREM SmpDelivers == Spec => DeliversWhatWasSent
<1>1. ASSUME Init
      PROVE  ToServer!Init /\ ToClient!Init
  <2>1. \A ep \in Endpoints : sent[ep] = <<>> /\ delivered[ep] = <<>> /\ smp[ep].split = FALSE
    BY <1>1 DEF Init, NewSmp
  <2>2. "client" \in Endpoints /\ "server" \in Endpoints
    BY DEF Endpoints
  <2>3. \A ep \in Endpoints : [n \in DOMAIN sent[ep] |-> MessageOf(ep, n)] = <<>>
    BY <2>1
  <2>4. QED
    BY <2>1, <2>2, <2>3 DEF ToServer!Init, ToClient!Init
<1>2. ASSUME SmpInv, [Next]_vars
      PROVE  /\ [ToServer!Next]_<<[n \in DOMAIN sent["client"] |-> MessageOf("client", n)],
                                  delivered["server"], smp["server"].split>>
             /\ [ToClient!Next]_<<[n \in DOMAIN sent["server"] |-> MessageOf("server", n)],
                                  delivered["client"], smp["client"].split>>
  <2>1. /\ [n \in DOMAIN sent["client"] |-> MessageOf("client", n)] = Messages(sent["client"])
        /\ [n \in DOMAIN sent["server"] |-> MessageOf("server", n)] = Messages(sent["server"])
    BY DEF MessageOf, Messages, Message
  <2>2. /\ [n \in DOMAIN sent["client"] |-> MessageOf("client", n)]' = Messages(sent'["client"])
        /\ [n \in DOMAIN sent["server"] |-> MessageOf("server", n)]' = Messages(sent'["server"])
    BY DEF MessageOf, Messages, Message
  <2>3. ChannelStep("server") /\ ChannelStep("client")
    BY <1>2, StepIsChannelStep DEF Endpoints
  <2>4. Peer("server") = "client" /\ Peer("client") = "server"
    BY DEF Peer
  <2>5. QED
    BY <2>1, <2>2, <2>3, <2>4
       DEF ChannelStep, ToServer!Next, ToServer!Send, ToServer!Deliver, ToServer!Break,
           ToClient!Next, ToClient!Send, ToClient!Deliver, ToClient!Break
<1>3. QED
  BY <1>1, <1>2, SmpInvHolds, PTL DEF Spec, DeliversWhatWasSent, ToServer!Spec, ToClient!Spec
=============================================================================
