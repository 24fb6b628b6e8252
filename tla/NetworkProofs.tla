---------------------------- MODULE NetworkProofs ---------------------------
(***************************************************************************)
(* What the server and the broker keep right, whatever the number of       *)
(* connections, items, threads, subscribers and channels.  The server      *)
(* counts its connections, keeps to the limit for one address and takes up *)
(* what a client sends in order.  In the broker a channel exceeds its      *)
(* limit of subscribers by less than the threads, and statistics without a *)
(* channel are about to be removed.                                        *)
(***************************************************************************)
EXTENDS Server, Broker, FiniteSetTheorems, SequenceTheorems, TLAPS

(***************************************************************************)
(* Types                                                                   *)
(***************************************************************************)
\* Concatenation is associative.
LEMMA Assoc ==
    \A a, b, c \in Seq(Items) : (a \o b) \o c = a \o (b \o c)
<1>1. ASSUME NEW a \in Seq(Items), NEW b \in Seq(Items), NEW c \in Seq(Items)
      PROVE  (a \o b) \o c = a \o (b \o c)
  BY ConcatAssociative, SMT
<1>2. QED
  BY <1>1

\* A sequence is its front and the rest.
LEMMA SplitAt ==
    ASSUME NEW s \in Seq(Items), NEW k \in 1..Len(s)
    PROVE  /\ SubSeq(s, 1, k) \in Seq(Items) /\ SubSeq(s, k + 1, Len(s)) \in Seq(Items)
           /\ Len(SubSeq(s, 1, k)) = k /\ SubSeq(s, 1, k)[k] = s[k]
           /\ \A i \in 1..k : SubSeq(s, 1, k)[i] = s[i]
           /\ SubSeq(s, 1, k) \o SubSeq(s, k + 1, Len(s)) = s
<1>1. Len(s) \in Nat /\ \A i \in 1..Len(s) : s[i] \in Items
  BY LenProperties, ElementOfSeq
<1>2. \A i \in 1..k : s[i] \in Items
  BY <1>1
<1>3. \A i \in k + 1..Len(s) : s[i] \in Items
  BY <1>1
<1>4. /\ SubSeq(s, 1, k) \in Seq(Items) /\ Len(SubSeq(s, 1, k)) = k
      /\ \A i \in 1..k : SubSeq(s, 1, k)[i] = s[i]
  BY <1>1, <1>2, SubSeqProperties
<1>5. SubSeq(s, k + 1, Len(s)) \in Seq(Items)
  BY <1>1, <1>3, SubSeqProperties
<1>6. SubSeq(s, 1, k) \o SubSeq(s, k + 1, Len(s)) = SubSeq(s, 1, Len(s))
  BY <1>1, ConcatAdjacentSubSeq
<1>7. SubSeq(s, 1, Len(s)) = s
  BY SubSeqFull
<1>8. k \in 1..k
  OBVIOUS
<1>9. QED
  BY <1>4, <1>5, <1>6, <1>7, <1>8

\* Reading appends the front of what waits in the socket to recv_buf.
LEMMA ReadPieces ==
    ASSUME NEW b \in Seq(Items), NEW s \in Seq(Items), NEW k \in 1..Len(s)
    PROVE  LET data == b \o SubSeq(s, 1, k)
           IN  /\ data \in Seq(Items) /\ data # <<>> /\ Head(data) \in Items
               /\ SubSeq(s, k + 1, Len(s)) \in Seq(Items)
               /\ data \o SubSeq(s, k + 1, Len(s)) = b \o s
<1> DEFINE front == SubSeq(s, 1, k)
           rest == SubSeq(s, k + 1, Len(s))
           data == b \o front
<1>1. /\ front \in Seq(Items) /\ Len(front) = k /\ rest \in Seq(Items)
      /\ front \o rest = s
  BY SplitAt
<1> HIDE DEF front, rest
<1>2. data \in Seq(Items) /\ Len(data) = Len(b) + k /\ Len(b) \in Nat
  BY <1>1, ConcatProperties, LenProperties
<1>3. data # <<>>
  BY <1>2, EmptySeq
<1>4. Head(data) \in Items
  BY <1>2, <1>3, HeadTailProperties
<1>5. (b \o front) \o rest = b \o (front \o rest)
  BY <1>1, Assoc
<1>6. QED
  BY <1>1, <1>2, <1>3, <1>4, <1>5 DEF front, rest

\* Nothing is lost or changes places when the pieces read go to the buffer, or
\* the first item of them on to what has been taken up.
LEMMA MovedPieces ==
    ASSUME NEW e \in Seq(Items), NEW b \in Seq(Items), NEW s \in Seq(Items), NEW k \in 1..Len(s),
           NEW n \in 1..Len(b \o SubSeq(s, 1, k))
    PROVE  LET data == b \o SubSeq(s, 1, k)
               rest == SubSeq(s, k + 1, Len(s))
           IN  /\ e \o data \o rest = e \o b \o s
               /\ (e \o SubSeq(data, 1, n)) \o SubSeq(data, n + 1, Len(data)) \o rest = e \o b \o s
<1> DEFINE data == b \o SubSeq(s, 1, k)
           rest == SubSeq(s, k + 1, Len(s))
           item == SubSeq(data, 1, n)
           tl == SubSeq(data, n + 1, Len(data))
<1>1. data \in Seq(Items) /\ rest \in Seq(Items) /\ data \o rest = b \o s
  BY ReadPieces
<1>2. item \in Seq(Items) /\ tl \in Seq(Items) /\ item \o tl = data
  <2> HIDE DEF data
  <2>1. n \in 1..Len(data)
    BY DEF data
  <2>2. QED
    BY <1>1, <2>1, SplitAt
<1> HIDE DEF data, rest, item, tl
<1>3. (e \o data) \o rest = e \o (data \o rest)
  BY <1>1, Assoc
<1>4. (e \o b) \o s = e \o (b \o s)
  BY Assoc
<1>5. (e \o item) \o tl = e \o (item \o tl)
  BY <1>2, Assoc
<1>6. e \o data \o rest = e \o b \o s
  BY <1>1, <1>3, <1>4
<1>7. (e \o item) \o tl \o rest = e \o b \o s
  BY <1>2, <1>5, <1>6
<1>8. QED
  BY <1>6, <1>7 DEF data, rest, item, tl

\* Init and every step keep the types of the variables other than the counters.
StreamTypes ==
    /\ server \in {"accepting", "draining", "joining", "stopped", "exited"}
    /\ phase \in [Conns -> {"none", "accepted", "loop", "writing", "closing", "done"}]
    /\ sock \in [Conns -> Seq(Items)] /\ buf \in [Conns -> Seq(Items)]
    /\ sent \in [Conns -> Seq(Items)] /\ executed \in [Conns -> Seq(Items)]
    /\ cur \in [Conns -> Seq(Items)]
    /\ told \subseteq Conns

\* A client's piece is put at the end of what it has sent.
LEMMA TypeSend ==
    ASSUME StreamTypes, NEW c \in Conns, ClientSend(c)
    PROVE  StreamTypes'
<1>1. PICK x \in Items : /\ sock' = [sock EXCEPT ![c] = Append(@, x)]
                        /\ sent' = [sent EXCEPT ![c] = Append(@, x)]
  BY DEF ClientSend
<1>2. Append(sock[c], x) \in Seq(Items) /\ Append(sent[c], x) \in Seq(Items)
  BY AppendProperties DEF StreamTypes
<1>3. sock' \in [Conns -> Seq(Items)] /\ sent' \in [Conns -> Seq(Items)]
  BY <1>1, <1>2 DEF StreamTypes
<1>4. QED
  BY <1>3 DEF StreamTypes, ClientSend

\* What a read does, in one of four ways: data is what recv_buf then held.
ReadOf(c, k, data) ==
    /\ sock' = [sock EXCEPT ![c] = SubSeq(@, k + 1, Len(@))]
    /\ \/ KeepLine(c, data) \/ RejectFrame(c, data) \/ ExecuteItem(c, data) \/ Panic(c, data)
    /\ told' = told \ {c} /\ UNCHANGED <<server, sent>>

KeptPieces(c, data) ==
    /\ buf' = [buf EXCEPT ![c] = data] /\ executed' = executed
    /\ cur' = cur \/ (cur' = [cur EXCEPT ![c] = <<"bad">>] /\ "bad" \in Items)

TookPieces(c, data, n) ==
    /\ TakeItem(c, data, n)
    /\ cur' = cur \/ cur' = [cur EXCEPT ![c] = SubSeq(data, 1, n)]

\* A read takes some pieces, and the buffer, the pieces taken up and the item
\* that is being answered are one of these.
LEMMA ReadEffect ==
    ASSUME StreamTypes, NEW c \in Conns, NEW k \in 1..Len(sock[c]), NEW data \in Seq(Items),
           data = Received(c, k), ReadOf(c, k, data), data # <<>>
    PROVE  KeptPieces(c, data) \/ \E n \in 1..Len(data) : TookPieces(c, data, n)
<1>1. CASE KeepLine(c, data)
  BY <1>1 DEF KeepLine, KeptPieces
<1>2. CASE RejectFrame(c, data)
  <2>1. Head(data) \in Items
    BY HeadTailProperties
  <2>2. QED
    BY <1>2, <2>1 DEF RejectFrame, Answer, KeptPieces
<1>3. CASE ExecuteItem(c, data)
  <2>1. PICK n \in 1..Len(data) : TakeItem(c, data, n) /\ Answer(c, SubSeq(data, 1, n))
    BY <1>3 DEF ExecuteItem
  <2>2. QED
    BY <2>1 DEF TookPieces, Answer
<1>4. CASE Panic(c, data)
  <2>1. 1 \in 1..Len(data)
    BY EmptySeq, LenProperties
  <2>2. QED
    BY <1>4, <2>1 DEF Panic, TookPieces
<1>5. QED
  BY <1>1, <1>2, <1>3, <1>4 DEF ReadOf

\* The handler takes one item at most out of what it has.
LEMMA TypeRead ==
    ASSUME StreamTypes, NEW c \in Conns, Read(c)
    PROVE  StreamTypes'
<1>1. PICK k \in 1..Len(sock[c]) : ReadOf(c, k, Received(c, k))
  BY DEF Read, ReadOf
<1> DEFINE data == Received(c, k)
<1>2. /\ data \in Seq(Items) /\ data # <<>>
      /\ SubSeq(sock[c], k + 1, Len(sock[c])) \in Seq(Items)
  <2>1. buf[c] \in Seq(Items) /\ sock[c] \in Seq(Items)
    BY DEF StreamTypes
  <2>2. QED
    BY <2>1, ReadPieces DEF Received
<1> HIDE DEF data
<1>3. sock' \in [Conns -> Seq(Items)] /\ told' \subseteq Conns /\ UNCHANGED <<server, sent>>
  BY <1>1, <1>2 DEF StreamTypes, ReadOf
<1>4. \A n \in 1..Len(data) : /\ SubSeq(data, 1, n) \in Seq(Items)
                              /\ SubSeq(data, n + 1, Len(data)) \in Seq(Items)
                              /\ executed[c] \o SubSeq(data, 1, n) \in Seq(Items)
  <2> SUFFICES ASSUME NEW n \in 1..Len(data)
               PROVE  /\ SubSeq(data, 1, n) \in Seq(Items)
                      /\ SubSeq(data, n + 1, Len(data)) \in Seq(Items)
                      /\ executed[c] \o SubSeq(data, 1, n) \in Seq(Items)
    OBVIOUS
  <2>1. SubSeq(data, 1, n) \in Seq(Items) /\ SubSeq(data, n + 1, Len(data)) \in Seq(Items)
    BY <1>2, SplitAt
  <2>2. executed[c] \in Seq(Items)
    BY DEF StreamTypes
  <2>3. QED
    BY <2>1, <2>2, ConcatProperties
<1>5. "bad" \in Items => <<"bad">> \in Seq(Items)
  OBVIOUS
<1>6. buf' \in [Conns -> Seq(Items)] /\ executed' \in [Conns -> Seq(Items)] /\ cur' \in [Conns -> Seq(Items)]
  <2>1. KeptPieces(c, data) \/ \E n \in 1..Len(data) : TookPieces(c, data, n)
    BY <1>1, <1>2, ReadEffect DEF data
  <2>2. CASE KeptPieces(c, data)
    BY <1>2, <1>5, <2>2 DEF StreamTypes, KeptPieces
  <2>3. ASSUME NEW n \in 1..Len(data), TookPieces(c, data, n)
        PROVE  /\ buf' \in [Conns -> Seq(Items)] /\ executed' \in [Conns -> Seq(Items)]
               /\ cur' \in [Conns -> Seq(Items)]
    BY <1>4, <2>3 DEF StreamTypes, TookPieces, TakeItem
  <2>4. QED
    BY <2>1, <2>2, <2>3
<1>7. phase' \in [Conns -> {"none", "accepted", "loop", "writing", "closing", "done"}]
  BY <1>1 DEF StreamTypes, ReadOf, KeepLine, RejectFrame, ExecuteItem, Panic, Answer, EnterPhase
<1>8. QED
  BY <1>3, <1>6, <1>7 DEF StreamTypes

\* All other steps.
LEMMA TypeStep ==
    ASSUME StreamTypes, [ServerNext]_serverVars
    PROVE  StreamTypes'
<1> USE DEF StreamTypes, streamVars
<1>1. ASSUME NEW c \in Conns, NEW p, EnterPhase(c, p),
             p \in {"accepted", "loop", "closing", "done"}
      PROVE  phase' \in [Conns -> {"none", "accepted", "loop", "writing", "closing", "done"}]
  BY <1>1 DEF EnterPhase
<1>2. ASSUME NEW c \in Conns, Accept(c) \/ Refuse(c) \/ Register(c) \/ Leave(c)
                               \/ HearShutdown(c) \/ Finish(c)
      PROVE  StreamTypes'
  <2>1. UNCHANGED <<server, streamVars, told>>
    BY <1>2 DEF Accept, Refuse, Register, Leave, HearShutdown, Finish
  <2>2. \E p \in {"accepted", "loop", "closing", "done"} : EnterPhase(c, p)
    BY <1>2 DEF Accept, Refuse, Register, Leave, HearShutdown, Finish
  <2>3. QED
    BY <1>1, <2>1, <2>2
<1>3. ASSUME NEW c \in Conns, WriteDone(c) \/ WriteFail(c)
      PROVE  StreamTypes'
  <2>1. UNCHANGED <<server, sock, buf, sent, executed, told>>
        /\ cur' = [cur EXCEPT ![c] = <<>>]
    BY <1>3 DEF WriteDone, WriteFail
  <2>2. \E p \in {"loop", "closing"} : EnterPhase(c, p)
    BY <1>3 DEF WriteDone, WriteFail
  <2>3. QED
    BY <1>1, <2>1, <2>2
<1>4. ASSUME Signal \/ Drained \/ DrainTimeout \/ Join \/ SecondSignal
      PROVE  StreamTypes'
  BY <1>4 DEF Signal, Drained, DrainTimeout, Join, SecondSignal
<1>5. CASE UNCHANGED serverVars
  BY <1>5 DEF serverVars
<1>6. QED
  BY <1>2, <1>3, <1>4, <1>5, TypeSend, TypeRead DEF ServerNext

(***************************************************************************)
(* The order of items                                                      *)
(***************************************************************************)
\* What is taken up, what is in recv_buf and what waits in the socket is what
\* was sent: an invariant together with the types.
LEMMA IntactSend ==
    ASSUME StreamTypes, StreamIntact, NEW c \in Conns, ClientSend(c)
    PROVE  StreamIntact'
<1>1. PICK x \in Items : /\ sock' = [sock EXCEPT ![c] = Append(@, x)]
                        /\ sent' = [sent EXCEPT ![c] = Append(@, x)]
  BY DEF ClientSend
<1>2. UNCHANGED <<executed, buf, cur>>
  BY DEF ClientSend
<1>3. ASSUME NEW d \in Conns, d # c
      PROVE  executed'[d] \o buf'[d] \o sock'[d] = sent'[d]
  BY <1>1, <1>2, <1>3 DEF StreamTypes, StreamIntact
<1>4. executed'[c] \o buf'[c] \o sock'[c] = sent'[c]
  <2> DEFINE taken == executed[c] \o buf[c]
  <2>1. executed[c] \in Seq(Items) /\ buf[c] \in Seq(Items) /\ sock[c] \in Seq(Items)
        /\ sent[c] \in Seq(Items) /\ <<x>> \in Seq(Items)
    BY DEF StreamTypes
  <2>2. taken \in Seq(Items)
    BY <2>1, ConcatProperties
  <2>3. Append(sock[c], x) = sock[c] \o <<x>> /\ Append(sent[c], x) = sent[c] \o <<x>>
    BY <2>1, AppendIsConcat
  <2> HIDE DEF taken
  <2>4. (taken \o sock[c]) \o <<x>> = taken \o (sock[c] \o <<x>>)
    BY <2>1, <2>2, Assoc
  <2>5. taken \o sock[c] = sent[c]
    BY DEF StreamIntact, taken
  <2>6. sock'[c] = Append(sock[c], x) /\ sent'[c] = Append(sent[c], x)
    BY <1>1 DEF StreamTypes
  <2>7. taken \o sock'[c] = sent'[c]
    BY <2>3, <2>4, <2>5, <2>6
  <2>8. QED
    BY <1>2, <2>7 DEF taken
<1>5. \A d \in Conns : ~EndsInLine(executed'[d]) /\ \A i \in 1..Len(cur'[d]) - 1 : cur'[d][i] = "part"
  BY <1>2 DEF StreamIntact
<1>6. QED
  BY <1>3, <1>4, <1>5 DEF StreamIntact, EndsInLine

\* What StreamIntact says of one connection.
IntactOf(e, b, s, a, t) ==
    e \o b \o s = t /\ ~EndsInLine(e) /\ \A i \in 1..Len(a) - 1 : a[i] = "part"

\* The item that a read takes up is the first in the buffer, and is whole.
LEMMA WholeItem ==
    ASSUME NEW e \in Seq(Items), NEW data \in Seq(Items), NEW n \in 1..Len(data), Complete(data, n)
    PROVE  /\ ~EndsInLine(e \o SubSeq(data, 1, n))
           /\ \A i \in 1..Len(SubSeq(data, 1, n)) - 1 : SubSeq(data, 1, n)[i] = "part"
<1> DEFINE item == SubSeq(data, 1, n)
<1>1. item \in Seq(Items) /\ Len(item) = n /\ \A i \in 1..n : item[i] = data[i]
  BY SplitAt
<1> HIDE DEF item
<1>2. Len(e) \in Nat /\ n \in Nat /\ n >= 1
  BY LenProperties
<1>3. Len(e \o item) = Len(e) + n /\ (e \o item)[Len(e) + n] = item[n]
  <2>1. Len(e) + n \in 1..Len(e) + Len(item) /\ Len(e) + n > Len(e) /\ (Len(e) + n) - Len(e) = n
    BY <1>1, <1>2
  <2>2. Len(e \o item) = Len(e) + Len(item)
    BY <1>1, ConcatProperties
  <2>3. (e \o item)[Len(e) + n] = item[(Len(e) + n) - Len(e)]
    BY <1>1, <1>2, <2>1
  <2>4. QED
    BY <1>1, <2>1, <2>2, <2>3
<1>4. item[n] # "part" /\ \A i \in 1..n - 1 : item[i] = "part"
  BY <1>1, <1>2 DEF Complete
<1>5. QED
  BY <1>1, <1>3, <1>4 DEF EndsInLine, item

\* A read moves pieces from the socket to recv_buf, and the first item of
\* them on.
LEMMA IntactRead ==
    ASSUME StreamTypes, StreamIntact, NEW c \in Conns, Read(c)
    PROVE  StreamIntact'
<1>1. PICK k \in 1..Len(sock[c]) : ReadOf(c, k, Received(c, k))
  BY DEF Read, ReadOf
<1> DEFINE data == Received(c, k)
           rest == SubSeq(sock[c], k + 1, Len(sock[c]))
<1>2. executed[c] \in Seq(Items) /\ buf[c] \in Seq(Items) /\ sock[c] \in Seq(Items)
  BY DEF StreamTypes
<1>3. data \in Seq(Items) /\ data # <<>>
  BY <1>2, ReadPieces DEF Received
<1>4. /\ executed[c] \o buf[c] \o sock[c] = sent[c] /\ ~EndsInLine(executed[c])
      /\ \A i \in 1..Len(cur[c]) - 1 : cur[c][i] = "part"
  BY DEF StreamIntact
<1>5. \A n \in 1..Len(data) :
         /\ executed[c] \o data \o rest = sent[c]
         /\ (executed[c] \o SubSeq(data, 1, n)) \o SubSeq(data, n + 1, Len(data)) \o rest = sent[c]
  BY <1>2, <1>4, MovedPieces DEF Received
<1>6. 1 \in 1..Len(data)
  BY <1>3, EmptySeq, LenProperties
<1>7. KeptPieces(c, data) \/ \E n \in 1..Len(data) : TookPieces(c, data, n)
  BY <1>1, <1>3, ReadEffect
<1>8. sock'[c] = rest /\ sent' = sent /\ \A d \in Conns : d # c => sock'[d] = sock[d]
  BY <1>1 DEF StreamTypes, ReadOf
<1> HIDE DEF data, rest
<1>9. ASSUME IntactOf(executed[c], buf[c], sock[c], cur[c], sent[c])',
              \A d \in Conns : d # c => sock'[d] = sock[d],
              \A d \in Conns : d # c => buf'[d] = buf[d] /\ executed'[d] = executed[d] /\ cur'[d] = cur[d],
              sent' = sent
       PROVE  StreamIntact'
  <2>1. \A d \in Conns : IntactOf(executed[d], buf[d], sock[d], cur[d], sent[d])
    BY DEF StreamIntact, IntactOf
  <2>2. ASSUME NEW d \in Conns
        PROVE  IntactOf(executed[d], buf[d], sock[d], cur[d], sent[d])'
    <3>1. CASE d = c
      BY <1>9, <3>1, Zenon
    <3>2. CASE d # c
      <4>1. sock'[d] = sock[d] /\ buf'[d] = buf[d] /\ executed'[d] = executed[d] /\ cur'[d] = cur[d]
            /\ sent'[d] = sent[d]
        BY <1>9, <3>2, Zenon
      <4>2. QED
        BY <2>1, <4>1, Zenon DEF IntactOf, EndsInLine
    <3>3. QED
      BY <3>1, <3>2, Zenon
  <2>3. QED
    BY <2>2, Zenon DEF StreamIntact, IntactOf
<1>10. CASE KeptPieces(c, data)
  <2>1. buf'[c] = data /\ executed'[c] = executed[c] /\ (cur'[c] = cur[c] \/ cur'[c] = <<"bad">>)
    BY <1>10 DEF KeptPieces, StreamTypes
  <2>2. IntactOf(executed[c], buf[c], sock[c], cur[c], sent[c])'
    <3>1. executed'[c] \o buf'[c] \o sock'[c] = sent'[c]
      BY <1>5, <1>6, <1>8, <2>1
    <3>2. Len(<<"bad">>) = 1
      OBVIOUS
    <3>3. \A i \in 1..Len(cur'[c]) - 1 : cur'[c][i] = "part"
      <4>1. CASE cur'[c] = cur[c]
        BY <1>4, <4>1, Zenon
      <4>2. CASE cur'[c] = <<"bad">>
        <5>1. 1..Len(cur'[c]) - 1 = {}
          BY <3>2, <4>2
        <5>2. QED
          BY <5>1
      <4>3. QED
        BY <2>1, <4>1, <4>2
    <3>4. ~EndsInLine(executed'[c])
      BY <1>4, <2>1
    <3>5. QED
      BY <3>1, <3>3, <3>4 DEF IntactOf, EndsInLine
  <2>3. \A d \in Conns : d # c => buf'[d] = buf[d] /\ executed'[d] = executed[d] /\ cur'[d] = cur[d]
    BY <1>10 DEF KeptPieces, StreamTypes
  <2>4. QED
    BY <1>8, <2>2, <2>3, <1>9, Zenon
<1>11. ASSUME NEW n \in 1..Len(data), TookPieces(c, data, n)
       PROVE  StreamIntact'
  <2>1. /\ buf'[c] = SubSeq(data, n + 1, Len(data)) /\ executed'[c] = executed[c] \o SubSeq(data, 1, n)
        /\ cur'[c] = cur[c] \/ cur'[c] = SubSeq(data, 1, n)
        /\ Complete(data, n)
    BY <1>11 DEF TookPieces, TakeItem, StreamTypes
  <2>2. /\ ~EndsInLine(executed[c] \o SubSeq(data, 1, n))
        /\ \A i \in 1..Len(SubSeq(data, 1, n)) - 1 : SubSeq(data, 1, n)[i] = "part"
    BY <1>2, <1>3, <2>1, WholeItem
  <2>3. IntactOf(executed[c], buf[c], sock[c], cur[c], sent[c])'
    <3>1. executed'[c] \o buf'[c] \o sock'[c] = sent'[c]
      BY <1>5, <1>8, <2>1
    <3>2. \A i \in 1..Len(cur'[c]) - 1 : cur'[c][i] = "part"
      BY <1>4, <2>1, <2>2
    <3>3. ~EndsInLine(executed'[c])
      BY <2>1, <2>2
    <3>4. QED
      BY <3>1, <3>2, <3>3 DEF IntactOf, EndsInLine
  <2>4. \A d \in Conns : d # c => buf'[d] = buf[d] /\ executed'[d] = executed[d] /\ cur'[d] = cur[d]
    BY <1>11 DEF TookPieces, TakeItem, StreamTypes
  <2>5. QED
    BY <1>8, <2>3, <2>4, <1>9, Zenon
<1>12. QED
  BY <1>7, <1>10, <1>11

\* No other step touches a piece, but the end of an answer.
LEMMA IntactStep ==
    ASSUME StreamTypes, StreamIntact, [ServerNext]_serverVars
    PROVE  StreamIntact'
<1>1. ASSUME UNCHANGED <<sock, buf, sent, executed>>, \A c \in Conns : cur'[c] \in {cur[c], <<>>}
      PROVE  StreamIntact'
  <2>1. Len(<<>>) = 0
    OBVIOUS
  <2>2. ASSUME NEW c \in Conns
        PROVE  \A i \in 1..Len(cur'[c]) - 1 : cur'[c][i] = "part"
    <3>1. CASE cur'[c] = cur[c]
      BY <3>1, Zenon DEF StreamIntact
    <3>2. CASE cur'[c] = <<>>
      <4>1. 1..Len(cur'[c]) - 1 = {}
        BY <2>1, <3>2
      <4>2. QED
        BY <4>1
    <3>3. QED
      BY <1>1, <3>1, <3>2
  <2>3. \A c \in Conns : /\ executed'[c] \o buf'[c] \o sock'[c] = sent'[c]
                          /\ ~EndsInLine(executed[c])'
    BY <1>1, Zenon DEF StreamIntact, EndsInLine
  <2>4. QED
    BY <2>2, <2>3, Zenon DEF StreamIntact
<1>2. ASSUME NEW c \in Conns, WriteDone(c) \/ WriteFail(c)
      PROVE  StreamIntact'
  BY <1>1, <1>2 DEF WriteDone, WriteFail, StreamTypes
<1>3. ASSUME NEW c \in Conns, Accept(c) \/ Refuse(c) \/ Register(c) \/ Leave(c) \/ HearShutdown(c) \/ Finish(c)
      PROVE  StreamIntact'
  BY <1>1, <1>3 DEF Accept, Refuse, Register, Leave, HearShutdown, Finish, streamVars
<1>4. ASSUME Signal \/ Drained \/ DrainTimeout \/ Join \/ SecondSignal \/ UNCHANGED serverVars
      PROVE  StreamIntact'
  BY <1>1, <1>4 DEF Signal, Drained, DrainTimeout, Join, SecondSignal, serverVars, streamVars
<1>5. QED
  BY <1>2, <1>3, <1>4, IntactSend, IntactRead DEF ServerNext

\* In whatever pieces lines arrive, however many clients there are and however
\* much each sends, process_buffer takes every client's lines up one at a time,
\* whole and in the order in which they were sent, none lost and none twice; of
\* frames the same holds when each arrives whole, as it does in Server.
THEOREM ItemsInOrder == ServerSpec => []StreamIntact
<1>1. ServerInit => StreamTypes /\ StreamIntact
  <2>1. <<>> \in Seq(Items) /\ <<>> \o <<>> \o <<>> = <<>> /\ Len(<<>>) = 0
    BY EmptySeq
  <2>2. QED
    BY <2>1 DEF ServerInit, StreamTypes, StreamIntact, EndsInLine
<1>2. StreamTypes /\ StreamIntact /\ [ServerNext]_serverVars => (StreamTypes /\ StreamIntact)'
  BY TypeStep, IntactStep
<1>3. QED
  BY <1>1, <1>2, PTL DEF ServerSpec

(***************************************************************************)
(* The counters                                                            *)
(***************************************************************************)
\* The counters are exact and the limits kept; only finitely many connections
\* are alive or panicked, which a count of them needs, and those that panicked
\* are done.
Counted ==
    /\ IsFiniteSet(Tallied) /\ CountersExact
    /\ \A c \in panicked : c \in Conns /\ phase[c] = "done"
    /\ \A i \in Ips : Cardinality({c \in Tallied : IpOf[c] = i}) <= MaxPerIp
    /\ permits \in Nat /\ ipCount \in [Ips -> Nat]

\* Steps after which the same connections are alive.
LEMMA SameLive ==
    ASSUME Counted, Live' = Live, UNCHANGED countVars, \A c \in panicked : phase'[c] = phase[c]
    PROVE  Counted'
<1>1. Tallied' = Tallied /\ panicked' = panicked
  BY DEF Tallied, countVars
<1>2. \A i : /\ {c \in Live' : IpOf[c] = i} = {c \in Live : IpOf[c] = i}
             /\ {c \in Tallied' : IpOf[c] = i} = {c \in Tallied : IpOf[c] = i}
  BY <1>1
<1>3. CountersExact'
  BY <1>1, <1>2 DEF Counted, CountersExact, countVars
<1>4. QED
  BY <1>1, <1>2, <1>3 DEF Counted, countVars

\* A connection begins: all four counts take it up.
LEMMA CountRegister ==
    ASSUME StreamTypes, Counted, NEW c \in Conns, Register(c)
    PROVE  Counted'
<1> DEFINE Of(i) == {d \in Tallied : IpOf[d] = i}
<1>1. Live' = Live \cup {c} /\ c \notin Live /\ panicked' = panicked /\ c \notin panicked
  BY DEF Live, Register, Running, EnterPhase, StreamTypes, Counted
<1>2. Tallied' = Tallied \cup {c} /\ c \notin Tallied /\ Live \subseteq Tallied
  BY <1>1 DEF Tallied
<1>3. /\ IsFiniteSet(Tallied') /\ Cardinality(Tallied') = Cardinality(Tallied) + 1
      /\ Cardinality(Tallied) \in Nat /\ IsFiniteSet(Live)
  BY <1>2, FS_AddElement, FS_Subset, FS_CardinalityType DEF Counted
<1>4. Cardinality(Live') = Cardinality(Live) + 1 /\ Cardinality(Live) \in Nat
  BY <1>1, <1>3, FS_AddElement, FS_CardinalityType
<1>5. ASSUME NEW i \in Ips
      PROVE  /\ Cardinality(Of(i)) \in Nat
             /\ Cardinality({d \in Tallied' : IpOf[d] = i})
                   = IF i = IpOf[c] THEN Cardinality(Of(i)) + 1 ELSE Cardinality(Of(i))
  <2>1. IsFiniteSet(Of(i))
    BY FS_Subset DEF Counted
  <2>2. {d \in Tallied' : IpOf[d] = i} = IF i = IpOf[c] THEN Of(i) \cup {c} ELSE Of(i)
    BY <1>2
  <2>3. c \notin Of(i)
    BY <1>2
  <2> HIDE DEF Of
  <2>4. QED
    BY <2>1, <2>2, <2>3, FS_AddElement, FS_CardinalityType
<1>6. IpOf[c] \in Ips
  BY DEF Ips
<1>7. /\ permits' = permits - 1 /\ permits > 0 /\ permits \in Nat
      /\ registry' = registry \cup {c} /\ active' = active + 1
      /\ ipCount' = [ipCount EXCEPT ![IpOf[c]] = @ + 1] /\ ipCount[IpOf[c]] < MaxPerIp
  BY DEF Register, CanAccept, Counted
<1>8. \A i \in Ips : ipCount[i] = Cardinality(Of(i)) /\ Cardinality(Of(i)) <= MaxPerIp
  BY DEF Counted, CountersExact
<1> HIDE DEF Of
<1>9. \A i \in Ips : ipCount'[i] = Cardinality({d \in Tallied' : IpOf[d] = i})
  BY <1>5, <1>6, <1>7, <1>8 DEF Counted
<1>10. \A i \in Ips : Cardinality({d \in Tallied' : IpOf[d] = i}) <= MaxPerIp
  BY <1>5, <1>6, <1>7, <1>8, ServerAssumption
<1>11. ipCount' \in [Ips -> Nat] /\ permits' \in Nat
  BY <1>6, <1>7 DEF Counted
<1>12. registry' = Tallied' /\ active' = Cardinality(Tallied')
  BY <1>2, <1>3, <1>7 DEF Counted, CountersExact
<1>13. permits' = MaxConns - Cardinality(Live')
  BY <1>4, <1>7, ServerAssumption DEF Counted, CountersExact
<1>14. CountersExact'
  BY <1>9, <1>12, <1>13 DEF CountersExact
<1>15. \A d \in panicked' : d \in Conns /\ phase'[d] = "done"
  BY <1>1 DEF Counted, Register, EnterPhase, StreamTypes
<1>16. QED
  BY <1>3, <1>10, <1>11, <1>14, <1>15 DEF Counted

\* A connection ends: the registry, the counters and the permits all give it up.
LEMMA CountFinish ==
    ASSUME StreamTypes, Counted, NEW c \in Conns, Finish(c)
    PROVE  Counted'
<1> DEFINE Of(i) == {d \in Tallied : IpOf[d] = i}
<1>1. Live' = Live \ {c} /\ c \in Live /\ panicked' = panicked /\ c \notin panicked
  BY DEF Live, Finish, Running, EnterPhase, StreamTypes, Counted
<1>2. Tallied' = Tallied \ {c} /\ c \in Tallied /\ Live \subseteq Tallied
  BY <1>1 DEF Tallied
<1>3. /\ IsFiniteSet(Tallied') /\ Cardinality(Tallied') = Cardinality(Tallied) - 1
      /\ Cardinality(Tallied) \in Nat /\ Cardinality(Tallied') \in Nat /\ IsFiniteSet(Live)
  BY <1>2, FS_RemoveElement, FS_Subset, FS_CardinalityType DEF Counted
<1>4. Cardinality(Live') = Cardinality(Live) - 1 /\ Cardinality(Live) \in Nat
  BY <1>1, <1>3, FS_RemoveElement, FS_CardinalityType
<1>5. ASSUME NEW i \in Ips
      PROVE  /\ Cardinality(Of(i)) \in Nat /\ Cardinality({d \in Tallied' : IpOf[d] = i}) \in Nat
             /\ Cardinality({d \in Tallied' : IpOf[d] = i})
                   = IF i = IpOf[c] THEN Cardinality(Of(i)) - 1 ELSE Cardinality(Of(i))
  <2>1. IsFiniteSet(Of(i))
    BY FS_Subset DEF Counted
  <2>2. {d \in Tallied' : IpOf[d] = i} = IF i = IpOf[c] THEN Of(i) \ {c} ELSE Of(i)
    BY <1>2
  <2>3. i = IpOf[c] => c \in Of(i)
    BY <1>2
  <2>4. IsFiniteSet({d \in Tallied' : IpOf[d] = i})
    BY <1>3, FS_Subset
  <2> HIDE DEF Of
  <2>5. QED
    BY <2>1, <2>2, <2>3, <2>4, FS_RemoveElement, FS_CardinalityType
<1>6. IpOf[c] \in Ips
  BY DEF Ips
<1>7. /\ permits' = permits + 1 /\ permits \in Nat
      /\ registry' = registry \ {c} /\ active' = active - 1
      /\ ipCount' = [ipCount EXCEPT ![IpOf[c]] = @ - 1]
  BY DEF Finish, Counted
<1>8. \A i \in Ips : ipCount[i] = Cardinality(Of(i)) /\ Cardinality(Of(i)) <= MaxPerIp
  BY DEF Counted, CountersExact
<1> HIDE DEF Of
<1>9. \A i \in Ips : ipCount'[i] = Cardinality({d \in Tallied' : IpOf[d] = i})
  BY <1>5, <1>6, <1>7, <1>8 DEF Counted
<1>10. \A i \in Ips : Cardinality({d \in Tallied' : IpOf[d] = i}) <= MaxPerIp
  BY <1>5, <1>6, <1>8, ServerAssumption
<1>11. ipCount' \in [Ips -> Nat] /\ permits' \in Nat
  <2>1. \A i \in Ips : ipCount'[i] \in Nat
    BY <1>5, <1>9
  <2>2. ipCount' = [i \in Ips |-> ipCount'[i]]
    BY <1>7 DEF Counted
  <2>3. ipCount' \in [Ips -> Nat]
    BY <2>1, <2>2
  <2>4. QED
    BY <1>7, <2>3
<1>12. registry' = Tallied' /\ active' = Cardinality(Tallied')
  BY <1>2, <1>3, <1>7 DEF Counted, CountersExact
<1>13. permits' = MaxConns - Cardinality(Live')
  BY <1>4, <1>7, ServerAssumption DEF Counted, CountersExact
<1>14. CountersExact'
  BY <1>9, <1>12, <1>13 DEF CountersExact
<1>15. \A d \in panicked' : d \in Conns /\ phase'[d] = "done"
  BY <1>1 DEF Counted, Finish, EnterPhase, StreamTypes
<1>16. QED
  BY <1>3, <1>10, <1>11, <1>14, <1>15 DEF Counted

\* A handler panics: it stays counted, but for its permit.
LEMMA CountPanic ==
    ASSUME StreamTypes, Counted, NEW c \in Conns, Running(c, "loop"), NEW data, Panic(c, data)
    PROVE  Counted'
<1>1. Live' = Live \ {c} /\ c \in Live /\ panicked' = panicked \cup {c}
  BY DEF Live, Panic, Running, EnterPhase, StreamTypes
<1>2. Tallied' = Tallied /\ Live \subseteq Tallied
  BY <1>1 DEF Tallied
<1>3. IsFiniteSet(Live)
  BY <1>2, FS_Subset DEF Counted
<1>4. Cardinality(Live') = Cardinality(Live) - 1 /\ Cardinality(Live) \in Nat
  BY <1>1, <1>3, FS_RemoveElement, FS_CardinalityType
<1>5. permits' = permits + 1 /\ UNCHANGED <<ipCount, active, registry>>
  BY DEF Panic
<1>6. permits' = MaxConns - Cardinality(Live') /\ permits' \in Nat
  BY <1>4, <1>5, ServerAssumption DEF Counted, CountersExact
<1>7. \A i : {d \in Tallied' : IpOf[d] = i} = {d \in Tallied : IpOf[d] = i}
  BY <1>2
<1>8. CountersExact'
  BY <1>2, <1>5, <1>6, <1>7 DEF Counted, CountersExact
<1>9. \A d \in panicked' : d \in Conns /\ phase'[d] = "done"
  BY <1>1 DEF Counted, Panic, EnterPhase, StreamTypes
<1>10. QED
  BY <1>2, <1>5, <1>6, <1>7, <1>8, <1>9 DEF Counted

\* Any other read leaves the counters alone.
LEMMA CountRead ==
    ASSUME StreamTypes, Counted, NEW c \in Conns, Read(c)
    PROVE  Counted'
<1>1. PICK k \in 1..Len(sock[c]) : ReadOf(c, k, Received(c, k))
  BY DEF Read, ReadOf
<1>2. Running(c, "loop")
  BY DEF Read
<1> DEFINE data == Received(c, k)
<1> HIDE DEF data
<1>3. CASE Panic(c, data)
  BY <1>2, <1>3, CountPanic
<1>4. CASE KeepLine(c, data) \/ RejectFrame(c, data) \/ ExecuteItem(c, data)
  <2>1. UNCHANGED countVars
    BY <1>4 DEF KeepLine, RejectFrame, ExecuteItem
  <2>2. phase' = phase \/ EnterPhase(c, "writing")
    BY <1>4 DEF KeepLine, RejectFrame, ExecuteItem, Answer
  <2>3. Live' = Live
    BY <1>2, <2>2 DEF Running, EnterPhase, Live, StreamTypes
  <2>4. \A d \in panicked : phase'[d] = phase[d]
    BY <1>2, <2>2 DEF Running, EnterPhase, Counted, StreamTypes
  <2>5. QED
    BY <2>1, <2>3, <2>4, SameLive
<1>5. QED
  BY <1>1, <1>3, <1>4 DEF ReadOf, data

\* All other steps leave the counters and the set of live connections alone.
LEMMA CountStep ==
    ASSUME StreamTypes, Counted, [ServerNext]_serverVars
    PROVE  Counted'
<1>1. ASSUME NEW c \in Conns, Accept(c) \/ Refuse(c) \/ ClientSend(c) \/ WriteDone(c)
                               \/ WriteFail(c) \/ Leave(c) \/ HearShutdown(c)
      PROVE  Counted'
  <2>1. UNCHANGED countVars
    BY <1>1 DEF Accept, Refuse, ClientSend, WriteDone, WriteFail, Leave, HearShutdown
  <2>2. Live' = Live
    BY <1>1 DEF Accept, Refuse, ClientSend, WriteDone, WriteFail, Leave, HearShutdown,
                EnterPhase, Running, Live, StreamTypes
  <2>3. \A d \in panicked : phase'[d] = phase[d]
    BY <1>1 DEF Accept, Refuse, ClientSend, WriteDone, WriteFail, Leave, HearShutdown,
                EnterPhase, Running, Counted, StreamTypes
  <2>4. QED
    BY <2>1, <2>2, <2>3, SameLive
<1>2. ASSUME Signal \/ Drained \/ DrainTimeout \/ Join \/ SecondSignal \/ UNCHANGED serverVars
      PROVE  Counted'
  <2>1. UNCHANGED countVars /\ UNCHANGED phase
    BY <1>2 DEF Signal, Drained, DrainTimeout, Join, SecondSignal, serverVars
  <2>2. QED
    BY <2>1, SameLive DEF Live
<1>3. QED
  BY <1>1, <1>2, CountRegister, CountRead, CountFinish DEF ServerNext

\* At the start nothing is alive and all permits are free.
LEMMA CountInit == ServerInit => StreamTypes /\ Counted
<1> SUFFICES ASSUME ServerInit PROVE StreamTypes /\ Counted
  OBVIOUS
<1>1. Live = {} /\ Tallied = {} /\ \A i : {c \in Tallied : IpOf[c] = i} = {}
  BY DEF ServerInit, Live, Tallied
<1>2. IsFiniteSet({}) /\ Cardinality({}) = 0
  BY FS_EmptySet
<1>3. StreamTypes
  BY EmptySeq DEF ServerInit, StreamTypes
<1>4. CountersExact
  BY <1>1, <1>2, ServerAssumption DEF ServerInit, CountersExact
<1>5. permits \in Nat /\ ipCount \in [Ips -> Nat] /\ panicked = {}
  BY ServerAssumption DEF ServerInit
<1>6. \A i \in Ips : Cardinality({c \in Tallied : IpOf[c] = i}) <= MaxPerIp
  BY <1>1, <1>2, ServerAssumption
<1>7. QED
  BY <1>1, <1>2, <1>3, <1>4, <1>5, <1>6 DEF Counted

\* The two parts together are inductive.
LEMMA ServerInductive == ServerSpec => [](StreamTypes /\ Counted)
<1>1. StreamTypes /\ Counted /\ [ServerNext]_serverVars => (StreamTypes /\ Counted)'
  BY TypeStep, CountStep
<1>2. QED
  BY <1>1, CountInit, PTL DEF ServerSpec

\* For any limits, addresses and number of connections: the semaphore counts
\* exactly the connections that are alive, while the registry, the count for
\* each address and active_connections agree on those and the connections whose
\* handler panicked.  Any other end of a connection leaves nothing behind.
THEOREM CountersAgree == ServerSpec => []CountersExact
<1>1. StreamTypes /\ Counted => CountersExact
  BY DEF Counted
<1>2. QED
  BY <1>1, ServerInductive, PTL

\* No address ever has more than max_connections_per_ip connections, although
\* can_accept_connection only looks at a count that is raised later.
THEOREM AddressLimitKept == ServerSpec => []PerIpLimit
<1>1. StreamTypes /\ Counted => PerIpLimit
  <2> SUFFICES ASSUME Counted, NEW i \in Ips
               PROVE  Cardinality({c \in Live : IpOf[c] = i}) <= MaxPerIp
    BY DEF PerIpLimit
  <2> DEFINE alive == {c \in Live : IpOf[c] = i}
             tallied == {c \in Tallied : IpOf[c] = i}
  <2>1. alive \subseteq tallied /\ tallied \subseteq Tallied
    BY DEF Tallied
  <2>2. IsFiniteSet(tallied) /\ Cardinality(tallied) <= MaxPerIp
    BY <2>1, FS_Subset DEF Counted
  <2> HIDE DEF alive, tallied
  <2>3. /\ Cardinality(alive) <= Cardinality(tallied)
        /\ Cardinality(alive) \in Nat /\ Cardinality(tallied) \in Nat
    BY <2>1, <2>2, FS_Subset, FS_CardinalityType
  <2>4. QED
    BY <2>2, <2>3, ServerAssumption DEF alive
<1>2. QED
  BY <1>1, ServerInductive, PTL

\* Every variable of the server keeps its type; in particular the semaphore
\* never has more permits than max_connections, nor fewer than none.
THEOREM ServerTypes == ServerSpec => []ServerTypeOK
<1>1. StreamTypes /\ Counted => ServerTypeOK
  <2> SUFFICES ASSUME StreamTypes, Counted PROVE ServerTypeOK
    OBVIOUS
  <2>1. Live \subseteq Tallied /\ Tallied \subseteq Conns
    BY DEF Tallied, Live, Counted
  <2>2. IsFiniteSet(Live)
    BY <2>1, FS_Subset DEF Counted
  <2>3. Cardinality(Live) \in Nat /\ Cardinality(Tallied) \in Nat
    BY <2>2, FS_CardinalityType DEF Counted
  <2>4. permits \in 0..MaxConns /\ active \in Nat /\ registry \subseteq Conns
    BY <2>1, <2>3, ServerAssumption DEF Counted, CountersExact
  <2>5. cur \in [Conns -> Seq(Pieces)]
    <3>1. Seq(Items) \subseteq Seq(Pieces)
      BY ServerAssumption
    <3>2. QED
      BY <3>1 DEF StreamTypes
  <2>6. QED
    BY <2>1, <2>4, <2>5 DEF StreamTypes, Counted, ServerTypeOK
<1>2. QED
  BY <1>1, ServerInductive, PTL

(***************************************************************************)
(* The broker                                                              *)
(***************************************************************************)
CallType ==
    [fn : {"none", "subscribe", "publish", "unsubscribe", "cleanup"},
     at : {"idle", "check", "receive", "stats", "remove"},
     chan : SUBSET Chans, gen : Nat, sub : SUBSET (Subs \cup Chans)]

\* The subscribers of a broadcast channel, and the threads that passed the
\* limit for one and have not created their receiver.
Receivers(g) == {s \in Subs : rx[s] = g}
Passed(g) == {t \in Threads : In(t, "subscribe", "receive") /\ calls[t].gen = g}

\* Whoever passed the limit found room for one more, so the receivers and the
\* threads that will create one exceed it by less than the threads there are.
Limit == MaxSubs + Cardinality(Threads) - 1
WithinLimit == \A g \in 1..gens : Cardinality(Receivers(g)) + Cardinality(Passed(g)) <= Limit

\* A thread that has removed the channel and will remove its statistics
Clearing(t, c) ==
    \/ In(t, "unsubscribe", "stats") /\ c \in calls[t].chan
    \/ In(t, "cleanup", "stats") /\ calls[t].sub = {c} /\ c \in calls[t].chan

\* The statistics that a channel leaves behind are those that some thread is
\* about to remove.  A subscriber that is being made has no receiver yet and is
\* made by one thread.
BrokerInv ==
    /\ BrokerTypeOK /\ calls \in [Threads -> CallType]
    /\ \A t \in Threads :
          /\ calls[t].fn = "subscribe" =>
                /\ calls[t].gen # 0
                /\ \E s \in Subs : calls[t].sub = {s} /\ (calls[t].at # "stats" => rx[s] = 0)
          /\ calls[t].fn = "unsubscribe" => calls[t].at = "stats"
          /\ In(t, "cleanup", "stats") => \E c \in calls[t].chan : calls[t].sub = {c}
          /\ \A u \in Threads : calls[t].fn = "subscribe" /\ calls[u].fn = "subscribe" /\ t # u
                                   => calls[t].sub # calls[u].sub
    /\ \A c \in Chans : channels[c] = 0 /\ stats[c] # -1 => \E t \in Threads : Clearing(t, c)
    /\ WithinLimit

\* The sets that are counted are finite, and smaller sets count less.
LEMMA Counting ==
    /\ \A S \in SUBSET Subs : IsFiniteSet(S) /\ Cardinality(S) \in 0..Cardinality(Subs)
    /\ \A T \in SUBSET Threads : IsFiniteSet(T) /\ Cardinality(T) \in 0..Cardinality(Threads)
    /\ \A S, R \in SUBSET Subs : S \subseteq R => Cardinality(S) <= Cardinality(R)
    /\ \A T, U \in SUBSET Threads : T \subseteq U => Cardinality(T) <= Cardinality(U)
    /\ Cardinality(Subs) \in Nat /\ Cardinality(Threads) \in Nat
    /\ Threads # {} => Cardinality(Threads) >= 1
<1>1. IsFiniteSet(Subs) /\ IsFiniteSet(Threads)
  BY BrokerAssumption
<1>2. Cardinality(Subs) \in Nat /\ Cardinality(Threads) \in Nat
  BY <1>1, FS_CardinalityType
<1>3. ASSUME NEW S \in SUBSET Subs
      PROVE  IsFiniteSet(S) /\ Cardinality(S) \in Nat /\ Cardinality(S) <= Cardinality(Subs)
  BY <1>1, FS_Subset, FS_CardinalityType
<1>4. ASSUME NEW T \in SUBSET Threads
      PROVE  IsFiniteSet(T) /\ Cardinality(T) \in Nat /\ Cardinality(T) <= Cardinality(Threads)
  BY <1>1, FS_Subset, FS_CardinalityType
<1>5. ASSUME NEW S \in SUBSET Subs, NEW R \in SUBSET Subs, S \subseteq R
      PROVE  Cardinality(S) <= Cardinality(R)
  BY <1>3, <1>5, FS_Subset
<1>6. ASSUME NEW T \in SUBSET Threads, NEW U \in SUBSET Threads, T \subseteq U
      PROVE  Cardinality(T) <= Cardinality(U)
  BY <1>4, <1>6, FS_Subset
<1>7. Threads # {} => Cardinality(Threads) >= 1
  BY <1>1, <1>2, FS_EmptySet
<1>8. \A S \in SUBSET Subs : IsFiniteSet(S) /\ Cardinality(S) \in 0..Cardinality(Subs)
  BY <1>2, <1>3
<1>9. \A T \in SUBSET Threads : IsFiniteSet(T) /\ Cardinality(T) \in 0..Cardinality(Threads)
  BY <1>2, <1>4
<1>10. QED
  BY <1>2, <1>5, <1>6, <1>7, <1>8, <1>9

\* The types that the invariant gives the maps.
LEMMA MapTypes ==
    ASSUME BrokerInv
    PROVE  /\ channels \in [Chans -> 0..gens] /\ stats \in [Chans -> -1..Cardinality(Subs)]
           /\ idle \subseteq Chans /\ readers \in [Chans -> SUBSET Threads] /\ gens \in Nat
           /\ 0 \in 0..gens /\ -1 \in -1..Cardinality(Subs) /\ calls \in [Threads -> CallType]
<1>1. /\ channels \in [Chans -> 0..gens] /\ stats \in [Chans -> -1..Cardinality(Subs)]
      /\ idle \subseteq Chans /\ readers \in [Chans -> SUBSET Threads] /\ gens \in 0..MaxGen
      /\ calls \in [Threads -> CallType]
  BY Zenon DEF BrokerInv, BrokerTypeOK
<1>2. Cardinality(Subs) \in Nat /\ MaxGen \in Nat
  BY Counting, BrokerAssumption, Zenon
<1>3. gens \in Nat /\ 0 \in 0..gens /\ -1 \in -1..Cardinality(Subs)
  BY <1>1, <1>2, SMTT(30)
<1>4. QED
  BY <1>1, <1>3, Zenon

\* Receivers that go, and threads that leave the limit behind, do no harm.
LEMMA FewerWithinLimit ==
    ASSUME WithinLimit, gens' = gens,
           \A s \in Subs : rx'[s] # 0 => rx'[s] = rx[s],
           \A u \in Threads : In(u, "subscribe", "receive")' => calls'[u] = calls[u]
    PROVE  WithinLimit'
<1> SUFFICES ASSUME NEW g \in 1..gens
             PROVE  Cardinality(Receivers(g)') + Cardinality(Passed(g)') <= Limit
  BY DEF WithinLimit, Limit
<1>1. Receivers(g)' \subseteq Receivers(g) /\ Receivers(g) \subseteq Subs
  BY DEF Receivers
<1>2. Passed(g)' \subseteq Passed(g) /\ Passed(g) \subseteq Threads
  BY DEF Passed, In
<1>3. Cardinality(Receivers(g)') <= Cardinality(Receivers(g)) /\ Cardinality(Passed(g)') <= Cardinality(Passed(g))
  BY <1>1, <1>2, Counting
<1>4. /\ Cardinality(Receivers(g)') \in Int /\ Cardinality(Receivers(g)) \in Int
      /\ Cardinality(Passed(g)') \in Int /\ Cardinality(Passed(g)) \in Int
  BY <1>1, <1>2, Counting
<1>5. Cardinality(Receivers(g)) + Cardinality(Passed(g)) <= Limit /\ Limit \in Int
  BY Counting, BrokerAssumption DEF WithinLimit, Limit
<1>6. QED
  BY <1>3, <1>4, <1>5

\* One thread goes on with its call: what has to be seen to.
LEMMA CallChanges ==
    ASSUME BrokerInv, NEW t \in Threads, NEW r \in CallType, calls' = [calls EXCEPT ![t] = r],
           BrokerTypeOK', WithinLimit',
           r.fn = "subscribe" =>
              /\ r.gen # 0
              /\ \E s \in Subs : r.sub = {s} /\ (r.at # "stats" => rx'[s] = 0)
              /\ \/ calls[t].fn = "subscribe" /\ calls[t].sub = r.sub
                 \/ \A u \in Threads : calls[u].sub # r.sub,
           r.fn = "unsubscribe" => r.at = "stats",
           r.fn = "cleanup" /\ r.at = "stats" => \E c \in r.chan : r.sub = {c},
           \A u \in Threads, s \in Subs :
              u # t /\ calls[u].fn = "subscribe" /\ calls[u].sub = {s} /\ rx[s] = 0 => rx'[s] = 0,
           \A c \in Chans : channels'[c] = 0 /\ stats'[c] # -1 =>
              \/ r.fn = "unsubscribe" /\ c \in r.chan
              \/ r.fn = "cleanup" /\ r.at = "stats" /\ r.sub = {c}
              \/ channels[c] = 0 /\ stats[c] # -1 /\ ~Clearing(t, c)
    PROVE  BrokerInv'
<1>1. \A u \in Threads : calls'[u] = IF u = t THEN r ELSE calls[u]
  BY Zenon DEF BrokerInv
<1>2. calls' \in [Threads -> CallType]
  BY SMTT(30) DEF BrokerInv
<1>3. \A u \in Threads : calls'[u].fn = "subscribe" =>
         /\ calls'[u].gen # 0
         /\ \E s \in Subs : calls'[u].sub = {s} /\ (calls'[u].at # "stats" => rx'[s] = 0)
  BY <1>1, SMTT(30) DEF BrokerInv
<1>4. \A u \in Threads : /\ calls'[u].fn = "unsubscribe" => calls'[u].at = "stats"
                         /\ In(u, "cleanup", "stats")' => \E c \in calls'[u].chan : calls'[u].sub = {c}
  BY <1>1 DEF BrokerInv, In
<1>5. \A u, v \in Threads : calls'[u].fn = "subscribe" /\ calls'[v].fn = "subscribe" /\ u # v
                                => calls'[u].sub # calls'[v].sub
  <2>1. \A u, v \in Threads : calls[u].fn = "subscribe" /\ calls[v].fn = "subscribe" /\ u # v
                                => calls[u].sub # calls[v].sub
    BY Zenon DEF BrokerInv
  <2>2. SUFFICES ASSUME NEW u \in Threads, NEW v \in Threads, calls'[u].fn = "subscribe",
                        calls'[v].fn = "subscribe", u # v
                 PROVE  calls'[u].sub # calls'[v].sub
    BY Zenon
  <2>3. CASE u # t /\ v # t
    <3>1. calls'[u] = calls[u] /\ calls'[v] = calls[v]
      BY <1>1, <2>3, SMTT(30)
    <3>2. QED
      BY <2>1, <2>2, <3>1, Zenon
  <2>4. CASE u = t
    BY <1>1, <2>1, <2>2, <2>4, SMTT(30)
  <2>5. CASE v = t
    BY <1>1, <2>1, <2>2, <2>5, SMTT(30)
  <2>6. QED
    BY <2>3, <2>4, <2>5, Zenon
<1>6. ASSUME NEW c \in Chans, channels'[c] = 0, stats'[c] # -1
      PROVE  \E u \in Threads : Clearing(u, c)'
  <2>1. CASE r.fn = "unsubscribe" /\ c \in r.chan
    BY <1>1, <2>1, SMTT(30) DEF Clearing, In
  <2>2. CASE r.fn = "cleanup" /\ r.at = "stats" /\ r.sub = {c}
    BY <1>1, <2>2 DEF Clearing, In
  <2>3. CASE channels[c] = 0 /\ stats[c] # -1 /\ ~Clearing(t, c)
    <3>1. PICK u \in Threads : Clearing(u, c)
      BY <2>3, SMTT(30) DEF BrokerInv
    <3>2. calls'[u] = calls[u]
      BY <1>1, <2>3, <3>1
    <3>3. QED
      BY <3>1, <3>2, SMTT(30) DEF Clearing, In
  <2>4. QED
    BY <1>6, <2>1, <2>2, <2>3, Zenon
<1>7. \A c \in Chans : channels'[c] = 0 /\ stats'[c] # -1 => \E u \in Threads : Clearing(u, c)'
  BY <1>6
<1>8. QED
  BY <1>2, <1>3, <1>4, <1>5, <1>7, Zenon DEF BrokerInv

\* The two tables when the steps of one thread change neither
LEMMA TablesKept ==
    ASSUME BrokerInv, NEW t \in Threads, NEW r \in CallType, calls' = [calls EXCEPT ![t] = r],
           UNCHANGED <<channels, stats, idle, rx, gens>>, readers' \in [Chans -> SUBSET Threads],
           r.gen \in 0..gens, ~(r.fn = "subscribe" /\ r.at = "receive")
    PROVE  BrokerTypeOK' /\ WithinLimit'
<1>1. \A u \in Threads : calls'[u] = IF u = t THEN r ELSE calls[u]
  BY DEF BrokerInv
<1>2. BrokerTypeOK'
  BY <1>1 DEF BrokerInv, BrokerTypeOK, CallType
<1>3. WithinLimit'
  BY <1>1, FewerWithinLimit, Zenon DEF BrokerInv, In
<1>4. QED
  BY <1>2, <1>3, SMTT(30)

\* No call, and a call from its parts
LEMMA CallTypes ==
    /\ NoCall \in CallType
    /\ NoCall.fn = "none" /\ NoCall.at = "idle" /\ NoCall.gen = 0 /\ NoCall.chan = {} /\ NoCall.sub = {}
BY DEF NoCall, CallType

\* subscribe_with_options: the entry of the channel
LEMMA BrokerEntry ==
    ASSUME BrokerInv, NEW t \in Threads, SubscribeEntry(t)
    PROVE  BrokerInv'
<1> USE BrokerAssumption
<1>1. PICK c \in Chans, s \in Subs :
        /\ calls[t] = NoCall
        /\ rx[s] = 0 /\ \A u \in Threads : calls[u].sub # {s}
        /\ \/ channels[c] # 0 /\ UNCHANGED <<mapVars, gens>>
           \/ /\ channels[c] = 0 /\ gens < MaxGen /\ gens' = gens + 1
              /\ channels' = [channels EXCEPT ![c] = gens']
              /\ stats' = [stats EXCEPT ![c] = 0]
              /\ idle' = idle \ {c}
        /\ calls' = [calls EXCEPT ![t] = [fn |-> "subscribe", at |-> "check", chan |-> {c},
                                        gen |-> channels'[c], sub |-> {s}]]
        /\ UNCHANGED <<rx, readers>>
  BY Zenon DEF SubscribeEntry
<1> DEFINE r == [fn |-> "subscribe", at |-> "check", chan |-> {c}, gen |-> channels'[c], sub |-> {s}]
<1>2. gens \in Nat /\ gens' \in 0..MaxGen /\ gens <= gens'
  BY <1>1 DEF BrokerInv, BrokerTypeOK, mapVars
<1>3. channels' \in [Chans -> 0..gens'] /\ channels'[c] # 0
  BY <1>1, <1>2 DEF BrokerInv, BrokerTypeOK, mapVars
<1>4. stats' \in [Chans -> -1..Cardinality(Subs)] /\ idle' \subseteq Chans
  BY <1>1, Counting DEF BrokerInv, BrokerTypeOK, mapVars
<1>5. r \in CallType /\ r.gen \in 0..gens' /\ r.gen # 0
  BY <1>2, <1>3 DEF CallType
<1>6. calls' = [calls EXCEPT ![t] = r]
  BY <1>1
<1>7. r.fn = "subscribe" /\ r.at = "check" /\ r.sub = {s}
  OBVIOUS
<1> HIDE DEF r
<1>8. \A u \in Threads : calls'[u] = IF u = t THEN r ELSE calls[u]
  BY <1>6, SMTT(30) DEF BrokerInv
<1>9. BrokerTypeOK'
  <2>1. \A u \in Threads : calls'[u].chan \subseteq Chans /\ calls'[u].gen \in 0..gens'
    BY <1>2, <1>5, <1>8 DEF BrokerInv, BrokerTypeOK, CallType
  <2>2. rx' \in [Subs -> 0..gens'] /\ readers' \in [Chans -> SUBSET Threads]
    BY <1>1, <1>2 DEF BrokerInv, BrokerTypeOK
  <2>3. QED
    BY <1>2, <1>3, <1>4, <2>1, <2>2, SMTT(30) DEF BrokerTypeOK
<1>10. WithinLimit'
  <2>1. CASE gens' = gens
    BY <1>1, <1>7, <1>8, <2>1, FewerWithinLimit DEF BrokerInv, In
  <2>2. CASE gens' = gens + 1
    <3> SUFFICES ASSUME NEW g \in 1..gens'
                 PROVE  Cardinality(Receivers(g)') + Cardinality(Passed(g)') <= Limit
      BY DEF WithinLimit, Limit
    <3>1. Receivers(g)' = Receivers(g)
      BY <1>1 DEF Receivers
    <3>2. Passed(g)' = Passed(g)
      BY <1>1, <1>7, <1>8, CallTypes DEF Passed, In
    <3>3. CASE g \in 1..gens
      BY <3>1, <3>2, <3>3, Zenon DEF BrokerInv, WithinLimit
    <3>4. CASE g = gens + 1
      <4> gens + 1 \notin 0..gens
        BY <1>2
      <4>1. Receivers(g) = {}
        <5>1. \A s1 \in Subs : rx[s1] \in 0..gens
          BY Zenon DEF BrokerInv, BrokerTypeOK
        <5>2. QED
          BY <3>4, <5>1, Zenon DEF Receivers
      <4>2. Passed(g) = {}
        <5>1. \A u \in Threads : calls[u].gen \in 0..gens
          BY Zenon DEF BrokerInv, BrokerTypeOK
        <5>2. QED
          BY <3>4, <5>1, Zenon DEF Passed
      <4>3. Cardinality({}) = 0
        BY FS_EmptySet
      <4>4. Limit \in Nat
        BY Counting DEF Limit
      <4>5. QED
        BY <3>1, <3>2, <4>1, <4>2, <4>3, <4>4, SMTT(30)
    <3>5. QED
      BY <1>2, <2>2, <3>3, <3>4
  <2>3. QED
    BY <1>1, <2>1, <2>2, SMTT(30)
<1>11. \A d \in Chans : channels'[d] = 0 /\ stats'[d] # -1 =>
          channels[d] = 0 /\ stats[d] # -1 /\ ~Clearing(t, d)
  <2> SUFFICES ASSUME NEW d \in Chans, channels'[d] = 0, stats'[d] # -1
               PROVE  channels[d] = 0 /\ stats[d] # -1 /\ ~Clearing(t, d)
    OBVIOUS
  <2>1. d # c
    BY <1>3, SMTT(30)
  <2>2. channels[d] = 0 /\ stats[d] # -1
    BY <1>1, <2>1, SMTT(30) DEF BrokerInv, BrokerTypeOK, mapVars
  <2>3. ~Clearing(t, d)
    BY <1>1, CallTypes, SMTT(30) DEF Clearing, In
  <2>4. QED
    BY <2>2, <2>3
<1>12. /\ \E s1 \in Subs : r.sub = {s1} /\ (r.at # "stats" => rx'[s1] = 0)
       /\ \A u \in Threads : calls[u].sub # r.sub
       /\ \A u \in Threads, s1 \in Subs : rx[s1] = 0 => rx'[s1] = 0
       /\ r.fn # "unsubscribe" /\ r.fn # "cleanup"
  BY <1>1, <1>7
<1>13. QED
  BY <1>5, <1>6, <1>9, <1>10, <1>11, <1>12, CallChanges, Zenon

\* subscribe_with_options: the limit
LEMMA BrokerCheck ==
    ASSUME BrokerInv, NEW t \in Threads, SubscribeCheck(t)
    PROVE  BrokerInv'
<1> USE BrokerAssumption
<1>0. /\ In(t, "subscribe", "check") /\ UNCHANGED <<channels, stats, idle, rx, gens, readers>>
      /\ calls \in [Threads -> CallType] /\ BrokerTypeOK /\ WithinLimit
  BY Zenon DEF SubscribeCheck, BrokerInv, mapVars
<1>1. CASE Done(t)
  <2>1. calls' = [calls EXCEPT ![t] = NoCall]
    BY <1>1 DEF Done
  <2>2. BrokerTypeOK' /\ WithinLimit'
    <3>1. 0 \in 0..gens /\ readers' \in [Chans -> SUBSET Threads]
      BY <1>0 DEF BrokerTypeOK
    <3>2. QED
      BY <1>0, <2>1, <3>1, CallTypes, TablesKept, Zenon
  <2>3. \A c \in Chans : ~Clearing(t, c)
    BY <1>0 DEF Clearing, In
  <2>4. QED
    BY <1>0, <2>1, <2>2, <2>3, CallTypes, CallChanges
<1>2. CASE ReceiverCount(calls[t].gen) < MaxSubs /\ Goto(t, "receive")
  <2> DEFINE r == [calls[t] EXCEPT !.at = "receive"]
  <2>1. /\ r \in CallType /\ r.fn = "subscribe" /\ r.at = "receive" /\ r.sub = calls[t].sub
        /\ r.gen = calls[t].gen /\ r.chan = calls[t].chan
    BY <1>0 DEF CallType, In
  <2>2. calls' = [calls EXCEPT ![t] = r]
    BY <1>0, <1>2 DEF Goto
  <2> HIDE DEF r
  <2>3. \A u \in Threads : calls'[u] = IF u = t THEN r ELSE calls[u]
    BY <1>0, <2>2, SMTT(30)
  <2>4. BrokerTypeOK'
    BY <1>0, <2>1, <2>3 DEF BrokerTypeOK
  <2>5. WithinLimit'
    <3> SUFFICES ASSUME NEW g \in 1..gens
                 PROVE  Cardinality(Receivers(g)') + Cardinality(Passed(g)') <= Limit
      BY <1>0 DEF WithinLimit, Limit
    <3>1. Receivers(g)' = Receivers(g)
      BY <1>0 DEF Receivers
    <3>2. CASE g # calls[t].gen
      <4>1. Passed(g)' = Passed(g)
        BY <1>0, <2>1, <2>3, <3>2 DEF Passed, In
      <4>2. QED
        BY <1>0, <3>1, <4>1 DEF WithinLimit
    <3>3. CASE g = calls[t].gen
      <4>1. Cardinality(Receivers(g)) < MaxSubs
        BY <1>2, <3>3 DEF ReceiverCount, Receivers
      <4>2. Receivers(g) \subseteq Subs /\ Passed(g)' \subseteq Threads
        BY DEF Receivers, Passed
      <4>3. Cardinality(Receivers(g)) \in Nat /\ Cardinality(Passed(g)') \in Nat
            /\ Cardinality(Passed(g)') <= Cardinality(Threads) /\ Cardinality(Threads) \in Nat
        BY <4>2, Counting, SMTT(30)
      <4>4. QED
        BY <3>1, <4>1, <4>3 DEF Limit
    <3>4. QED
      BY <3>2, <3>3
  <2>6. \A c \in Chans : ~Clearing(t, c)
    BY <1>0 DEF Clearing, In
  <2>7. /\ r.gen # 0
        /\ \E s \in Subs : r.sub = {s} /\ (r.at # "stats" => rx'[s] = 0)
        /\ calls[t].fn = "subscribe" /\ calls[t].sub = r.sub
    BY <1>0, <2>1, SMTT(30) DEF BrokerInv, In
  <2>8. QED
    BY <1>0, <2>1, <2>2, <2>4, <2>5, <2>6, <2>7, CallChanges, Zenon
<1>3. ReceiverCount(calls[t].gen) \in Int
  <2>1. {s \in Subs : rx[s] = calls[t].gen} \subseteq Subs
    OBVIOUS
  <2>2. QED
    BY <2>1, Counting DEF ReceiverCount
<1>4. QED
  BY <1>1, <1>2, <1>3 DEF SubscribeCheck

\* subscribe_with_options: the receiver
LEMMA BrokerReceive ==
    ASSUME BrokerInv, NEW t \in Threads, SubscribeReceive(t)
    PROVE  BrokerInv'
<1> USE BrokerAssumption
<1>0. /\ In(t, "subscribe", "receive") /\ UNCHANGED <<channels, stats, idle, gens, readers>>
      /\ calls \in [Threads -> CallType] /\ BrokerTypeOK /\ WithinLimit
  BY Zenon DEF SubscribeReceive, BrokerInv, mapVars
<1>1. PICK s \in Subs : calls[t].sub = {s} /\ rx[s] = 0
  BY <1>0, Zenon DEF BrokerInv, In
<1>2. calls[t].gen # 0 /\ calls[t].gen \in 0..gens
  BY <1>0 DEF BrokerInv, BrokerTypeOK, In
<1>3. The({s}) = s
  BY SMTT(30) DEF The
<1>4. rx' = [rx EXCEPT ![s] = calls[t].gen]
  BY <1>1, <1>3, Zenon DEF SubscribeReceive
<1> DEFINE r == [calls[t] EXCEPT !.at = "stats"]
<1>5. /\ r \in CallType /\ r.fn = "subscribe" /\ r.at = "stats" /\ r.sub = calls[t].sub
      /\ r.gen = calls[t].gen /\ r.chan = calls[t].chan
  BY <1>0 DEF CallType, In
<1>6. calls' = [calls EXCEPT ![t] = r]
  BY <1>0 DEF SubscribeReceive, Goto
<1> HIDE DEF r
<1>7. \A u \in Threads : calls'[u] = IF u = t THEN r ELSE calls[u]
  BY <1>0, <1>6
<1>8. \A q \in Subs : rx'[q] = IF q = s THEN calls[t].gen ELSE rx[q]
  BY <1>0, <1>4 DEF BrokerTypeOK
<1>9. BrokerTypeOK'
  BY <1>0, <1>2, <1>4, <1>5, <1>7, SMTT(30) DEF BrokerTypeOK
<1>10. WithinLimit'
  <2> SUFFICES ASSUME NEW g \in 1..gens
               PROVE  Cardinality(Receivers(g)') + Cardinality(Passed(g)') <= Limit
    BY <1>0 DEF WithinLimit, Limit
  <2>0. Cardinality(Receivers(g)) + Cardinality(Passed(g)) <= Limit
    BY <1>0 DEF WithinLimit
  <2>1. CASE g # calls[t].gen
    <3>1. Receivers(g)' = Receivers(g)
      BY <1>1, <1>8, <2>1 DEF Receivers
    <3>2. Passed(g)' = Passed(g)
      BY <1>0, <1>5, <1>7, <2>1 DEF Passed, In
    <3>3. QED
      BY <2>0, <3>1, <3>2
  <2>2. CASE g = calls[t].gen
    <3>1. Receivers(g)' = Receivers(g) \cup {s} /\ s \notin Receivers(g)
      BY <1>1, <1>2, <1>8, <2>2, SMTT(30) DEF Receivers
    <3>2. Passed(g)' = Passed(g) \ {t} /\ t \in Passed(g)
      BY <1>0, <1>5, <1>7, <2>2 DEF Passed, In
    <3>3. Receivers(g) \subseteq Subs /\ Passed(g) \subseteq Threads
      BY DEF Receivers, Passed
    <3>4. IsFiniteSet(Receivers(g)) /\ IsFiniteSet(Passed(g))
          /\ Cardinality(Receivers(g)) \in Nat /\ Cardinality(Passed(g)) \in Nat
      BY <3>3, Counting
    <3>5. Cardinality(Receivers(g) \cup {s}) = Cardinality(Receivers(g)) + 1
      BY <3>1, <3>4, FS_AddElement
    <3>6. Cardinality(Passed(g) \ {t}) = Cardinality(Passed(g)) - 1
      BY <3>2, <3>4, FS_RemoveElement, Zenon
    <3>7. QED
      BY <2>0, <3>1, <3>2, <3>4, <3>5, <3>6
  <2>3. QED
    BY <2>1, <2>2
<1>11. \A c \in Chans : ~Clearing(t, c)
  BY <1>0 DEF Clearing, In
<1>12. /\ r.gen # 0
       /\ \E q \in Subs : r.sub = {q} /\ (r.at # "stats" => rx'[q] = 0)
       /\ calls[t].fn = "subscribe" /\ calls[t].sub = r.sub
  BY <1>0, <1>1, <1>2, <1>5 DEF In
<1>13. \A u \in Threads, q \in Subs :
          u # t /\ calls[u].fn = "subscribe" /\ calls[u].sub = {q} /\ rx[q] = 0 => rx'[q] = 0
  <2> SUFFICES ASSUME NEW u \in Threads, NEW q \in Subs, u # t, calls[u].fn = "subscribe",
                      calls[u].sub = {q}, rx[q] = 0
               PROVE  rx'[q] = 0
    BY SMTT(30)
  <2>1. calls[u].sub # calls[t].sub
    BY <1>0 DEF BrokerInv, In
  <2>2. q # s
    BY <1>1, <2>1
  <2>3. QED
    BY <1>8, <2>2
<1>14. QED
  BY <1>0, <1>5, <1>6, <1>9, <1>10, <1>11, <1>12, <1>13, CallChanges, Zenon

\* A call that is not subscribe goes on, with the two tables and the receivers
\* as they were or with statistics less.
LEMMA BrokerCalls ==
    ASSUME BrokerInv, NEW t \in Threads, NEW r \in CallType, calls' = [calls EXCEPT ![t] = r],
           UNCHANGED <<rx, gens>>, r.fn # "subscribe", r.gen \in 0..gens,
           channels' \in [Chans -> 0..gens], stats' \in [Chans -> -1..Cardinality(Subs)],
           idle' \subseteq Chans, readers' \in [Chans -> SUBSET Threads],
           r.fn = "unsubscribe" => r.at = "stats",
           r.fn = "cleanup" /\ r.at = "stats" => \E c \in r.chan : r.sub = {c},
           \A c \in Chans : channels'[c] = 0 /\ stats'[c] # -1 =>
              \/ r.fn = "unsubscribe" /\ c \in r.chan
              \/ r.fn = "cleanup" /\ r.at = "stats" /\ r.sub = {c}
              \/ channels[c] = 0 /\ stats[c] # -1 /\ ~Clearing(t, c)
    PROVE  BrokerInv'
<1>1. \A u \in Threads : calls'[u] = IF u = t THEN r ELSE calls[u]
  BY Zenon DEF BrokerInv
<1>2. r.chan \subseteq Chans
  BY DEF CallType
<1>3. BrokerTypeOK'
  BY <1>1, <1>2, Zenon DEF BrokerInv, BrokerTypeOK
<1>4. WithinLimit'
  BY <1>1, FewerWithinLimit DEF BrokerInv, In
<1>5. QED
  BY <1>3, <1>4, CallChanges, Zenon

\* subscribe_with_options: the statistics
LEMMA BrokerCounts ==
    ASSUME BrokerInv, NEW t \in Threads, SubscribeStats(t)
    PROVE  BrokerInv'
<1> DEFINE n == ReceiverCount(calls[t].gen)
<1>1. n \in -1..Cardinality(Subs)
  <2>1. {s \in Subs : rx[s] = calls[t].gen} \subseteq Subs
    BY SMTT(30)
  <2>2. n \in 0..Cardinality(Subs) /\ Cardinality(Subs) \in Nat
    BY <2>1, Counting DEF ReceiverCount
  <2>3. QED
    BY <2>2
<1>2. /\ In(t, "subscribe", "stats") /\ UNCHANGED <<channels, idle, rx, gens, readers>>
      /\ stats' = [c \in Chans |-> IF c \in calls[t].chan /\ stats[c] # -1 THEN n ELSE stats[c]]
      /\ calls' = [calls EXCEPT ![t] = NoCall]
  BY SMTT(30) DEF SubscribeStats, Done
<1> HIDE DEF n
<1>3. stats' \in [Chans -> -1..Cardinality(Subs)] /\ channels' \in [Chans -> 0..gens]
      /\ idle' \subseteq Chans /\ readers' \in [Chans -> SUBSET Threads] /\ 0 \in 0..gens
  <2>1. /\ channels \in [Chans -> 0..gens] /\ stats \in [Chans -> -1..Cardinality(Subs)]
        /\ idle \subseteq Chans /\ readers \in [Chans -> SUBSET Threads] /\ 0 \in 0..gens
    BY MapTypes, Zenon
  <2>2. stats' \in [Chans -> -1..Cardinality(Subs)]
    BY <1>1, <1>2, <2>1, SMTT(30)
  <2>3. QED
    BY <1>2, <2>1, <2>2, Zenon
<1>4. \A c \in Chans : channels'[c] = 0 /\ stats'[c] # -1 =>
         channels[c] = 0 /\ stats[c] # -1 /\ ~Clearing(t, c)
  <2>1. /\ \A c \in Chans : ~Clearing(t, c) /\ channels'[c] = channels[c]
        /\ \A c \in Chans : stats'[c] = IF c \in calls[t].chan /\ stats[c] # -1 THEN n ELSE stats[c]
    BY <1>2, SMTT(30) DEF Clearing, In
  <2>2. QED
    BY <2>1, SMTT(30)
<1>5. QED
  BY <1>2, <1>3, <1>4, CallTypes, BrokerCalls, Zenon

\* publish_with_options
LEMMA BrokerPublishes ==
    ASSUME BrokerInv, NEW t \in Threads, PublishSend(t) \/ PublishStats(t)
    PROVE  BrokerInv'
<1>0. /\ channels \in [Chans -> 0..gens] /\ stats \in [Chans -> -1..Cardinality(Subs)]
      /\ idle \subseteq Chans /\ readers \in [Chans -> SUBSET Threads] /\ 0 \in 0..gens
  BY MapTypes, Zenon
<1>1. CASE PublishSend(t)
  <2>1. PICK c \in Chans, at \in {"remove", "stats"} :
          /\ calls[t] = NoCall
          /\ readers' = [readers EXCEPT ![c] = @ \cup {t}] \/ readers' = [readers EXCEPT ![c] = @]
          /\ calls' = [calls EXCEPT ![t] = [NoCall EXCEPT !.fn = "publish", !.chan = {c}, !.at = at]]
          /\ UNCHANGED <<mapVars, rx, gens>>
    BY <1>1, Zenon DEF PublishSend
  <2> DEFINE r == [NoCall EXCEPT !.fn = "publish", !.chan = {c}, !.at = at]
  <2>2. r \in CallType /\ r.fn = "publish" /\ r.gen = 0
    BY Zenon DEF NoCall, CallType
  <2>3. calls' = [calls EXCEPT ![t] = r]
    BY <2>1
  <2> HIDE DEF r
  <2>4. readers' \in [Chans -> SUBSET Threads]
    BY <1>0, <2>1
  <2>5. \A d \in Chans : ~Clearing(t, d)
    BY <2>1, CallTypes DEF Clearing, In
  <2>6. QED
    BY <1>0, <2>1, <2>2, <2>3, <2>4, <2>5, BrokerCalls, Zenon DEF mapVars
<1>2. CASE PublishStats(t)
  <2>1. In(t, "publish", "stats") /\ idle' \subseteq Chans /\ calls' = [calls EXCEPT ![t] = NoCall]
        /\ UNCHANGED <<channels, stats, rx, gens, readers>>
    BY <1>0, <1>2 DEF PublishStats, Done
  <2>2. \A d \in Chans : ~Clearing(t, d)
    BY <2>1 DEF Clearing, In
  <2>3. QED
    BY <1>0, <2>1, <2>2, CallTypes, BrokerCalls, Zenon
<1>3. QED
  BY <1>1, <1>2

\* unsubscribe
LEMMA BrokerUnsubscribes ==
    ASSUME BrokerInv, NEW t \in Threads, Unsubscribe(t) \/ UnsubscribeStats(t)
    PROVE  BrokerInv'
<1>0. /\ channels \in [Chans -> 0..gens] /\ stats \in [Chans -> -1..Cardinality(Subs)]
      /\ idle \subseteq Chans /\ readers \in [Chans -> SUBSET Threads] /\ gens \in Nat
      /\ 0 \in 0..gens /\ -1 \in -1..Cardinality(Subs)
  BY MapTypes, Zenon
<1>1. CASE Unsubscribe(t)
  <2>1. PICK c \in Chans :
          /\ calls[t] = NoCall
          /\ channels' = [channels EXCEPT ![c] = 0]
          /\ calls' = [calls EXCEPT ![t] = [NoCall EXCEPT !.fn = "unsubscribe", !.at = "stats", !.chan = {c}]]
          /\ UNCHANGED <<stats, idle, rx, gens, readers>>
    BY <1>1, Zenon DEF Unsubscribe
  <2> DEFINE r == [NoCall EXCEPT !.fn = "unsubscribe", !.at = "stats", !.chan = {c}]
  <2>2. r \in CallType /\ r.fn = "unsubscribe" /\ r.at = "stats" /\ r.gen = 0 /\ r.chan = {c}
    BY DEF NoCall, CallType
  <2>3. calls' = [calls EXCEPT ![t] = r]
    BY <2>1
  <2> HIDE DEF r
  <2>4. channels' \in [Chans -> 0..gens]
    BY <1>0, <2>1
  <2>5. \A d \in Chans : channels'[d] = 0 => d \in r.chan \/ channels[d] = 0
    BY <1>0, <2>1, <2>2
  <2>6. \A d \in Chans : ~Clearing(t, d)
    BY <2>1, CallTypes DEF Clearing, In
  <2>7. QED
    BY <1>0, <2>1, <2>2, <2>3, <2>4, <2>5, <2>6, BrokerCalls, Zenon
<1>2. CASE UnsubscribeStats(t)
  <2>1. /\ In(t, "unsubscribe", "stats") /\ calls' = [calls EXCEPT ![t] = NoCall]
        /\ stats' = [c \in Chans |-> IF c \in calls[t].chan THEN -1 ELSE stats[c]]
        /\ UNCHANGED <<channels, idle, rx, gens, readers>>
    BY <1>2, Zenon DEF UnsubscribeStats, Done
  <2>2. stats' \in [Chans -> -1..Cardinality(Subs)]
    BY <1>0, <2>1, SMTT(30)
  <2>3. \A d \in Chans : stats'[d] # -1 => stats[d] # -1 /\ ~Clearing(t, d)
    BY <2>1 DEF Clearing, In
  <2>4. QED
    BY <1>0, <2>1, <2>2, <2>3, CallTypes, BrokerCalls, Zenon
<1>3. QED
  BY <1>1, <1>2

\* cleanup_inactive_channels
LEMMA BrokerCleans ==
    ASSUME BrokerInv, NEW t \in Threads, CleanupCollect(t) \/ CleanupRemove(t) \/ CleanupStats(t)
    PROVE  BrokerInv'
<1>0. /\ channels \in [Chans -> 0..gens] /\ stats \in [Chans -> -1..Cardinality(Subs)]
      /\ idle \subseteq Chans /\ readers \in [Chans -> SUBSET Threads] /\ gens \in Nat
      /\ 0 \in 0..gens /\ -1 \in -1..Cardinality(Subs) /\ calls \in [Threads -> CallType]
  BY MapTypes, Zenon
<1>1. CASE CleanupCollect(t)
  <2> DEFINE r == [NoCall EXCEPT !.fn = "cleanup", !.at = "remove", !.chan = {c \in idle : stats[c] = 0}]
  <2>1. calls[t] = NoCall /\ calls' = [calls EXCEPT ![t] = r] /\ UNCHANGED <<mapVars, rx, gens, readers>>
    BY <1>1 DEF CleanupCollect
  <2>2. r \in CallType /\ r.fn = "cleanup" /\ r.at = "remove" /\ r.gen = 0
    BY <1>0, Zenon DEF NoCall, CallType
  <2> HIDE DEF r
  <2>3. \A d \in Chans : ~Clearing(t, d)
    BY <2>1, CallTypes DEF Clearing, In
  <2>4. QED
    BY <1>0, <2>1, <2>2, <2>3, BrokerCalls, Zenon DEF mapVars
<1>2. CASE CleanupRemove(t)
  <2>1. PICK c \in calls[t].chan :
          /\ IF channels[c] = 0
             THEN /\ calls' = [calls EXCEPT ![t] = IF calls[t].chan = {c} THEN NoCall
                                                 ELSE [calls[t] EXCEPT !.chan = @ \ {c}]]
                  /\ UNCHANGED channels
             ELSE /\ channels' = [channels EXCEPT ![c] = 0]
                  /\ calls' = [calls EXCEPT ![t].at = "stats", ![t].sub = {c}]
          /\ In(t, "cleanup", "remove") /\ UNCHANGED <<stats, idle, rx, gens, readers>>
    BY <1>2 DEF CleanupRemove
  <2>2. calls[t] \in CallType /\ calls[t].gen \in 0..gens /\ c \in Chans /\ calls[t].fn = "cleanup"
        /\ calls[t].at = "remove"
    BY <1>0, <2>1 DEF BrokerInv, BrokerTypeOK, CallType, In
  <2>3. \A d \in Chans : ~Clearing(t, d)
    BY <2>1 DEF Clearing, In
  <2>4. CASE channels[c] = 0
    <3> DEFINE r == IF calls[t].chan = {c} THEN NoCall ELSE [calls[t] EXCEPT !.chan = @ \ {c}]
    <3>1. calls' = [calls EXCEPT ![t] = r] /\ UNCHANGED channels
      BY <2>1, <2>4
    <3>2. r \in CallType /\ r.gen \in 0..gens /\ r.fn \in {"none", "cleanup"}
          /\ (r.fn = "cleanup" => r.at = "remove")
      <4>1. CASE calls[t].chan = {c}
        BY <1>0, <4>1, CallTypes
      <4>2. CASE calls[t].chan # {c}
        BY <2>2, <4>2 DEF CallType
      <4>3. QED
        BY <4>1, <4>2
    <3> HIDE DEF r
    <3>3. QED
      BY <1>0, <2>1, <2>3, <3>1, <3>2, BrokerCalls
  <2>5. CASE channels[c] # 0
    <3> DEFINE r == [calls[t] EXCEPT !.at = "stats", !.sub = {c}]
    <3>1. calls' = [calls EXCEPT ![t] = r] /\ channels' = [channels EXCEPT ![c] = 0]
      BY <1>0, <2>1, <2>5
    <3>2. r \in CallType /\ r.gen \in 0..gens /\ r.fn = "cleanup" /\ r.at = "stats" /\ r.sub = {c}
          /\ c \in r.chan
      BY <2>1, <2>2 DEF CallType
    <3> HIDE DEF r
    <3>3. channels' \in [Chans -> 0..gens] /\ \A d \in Chans : channels'[d] = 0 => d = c \/ channels[d] = 0
      BY <1>0, <2>2, <3>1
    <3>4. \A d \in Chans : channels'[d] = 0 /\ stats'[d] # -1 =>
              \/ r.fn = "cleanup" /\ r.at = "stats" /\ r.sub = {d}
              \/ channels[d] = 0 /\ stats[d] # -1 /\ ~Clearing(t, d)
      BY <2>1, <2>3, <3>2, <3>3
    <3>5. QED
      BY <1>0, <2>1, <3>1, <3>2, <3>3, <3>4, BrokerCalls, Zenon
  <2>6. QED
    BY <2>4, <2>5
<1>3. CASE CleanupStats(t)
  <2>1. In(t, "cleanup", "stats") /\ UNCHANGED <<channels, idle, rx, gens, readers>>
    BY <1>3 DEF CleanupStats
  <2>2. PICK c \in calls[t].chan : calls[t].sub = {c}
    BY <2>1, Zenon DEF BrokerInv
  <2>3. calls[t] \in CallType /\ calls[t].gen \in 0..gens /\ c \in Chans /\ calls[t].fn = "cleanup"
    BY <1>0, <2>1, <2>2 DEF BrokerInv, BrokerTypeOK, CallType, In
  <2>4. The({c}) = c
    BY Zenon DEF The
  <2>5. stats' = [stats EXCEPT ![c] = -1]
    BY <1>3, <2>2, <2>4, Zenon DEF CleanupStats
  <2> DEFINE r == IF calls[t].chan = calls[t].sub THEN NoCall
                  ELSE [calls[t] EXCEPT !.at = "remove", !.chan = @ \ calls[t].sub, !.sub = {}]
  <2>6. calls' = [calls EXCEPT ![t] = r]
    BY <1>3 DEF CleanupStats
  <2>7. r \in CallType /\ r.gen \in 0..gens /\ r.fn \in {"none", "cleanup"}
        /\ (r.fn = "cleanup" => r.at = "remove")
    <3>1. CASE calls[t].chan = calls[t].sub
      BY <1>0, <3>1, CallTypes
    <3>2. CASE calls[t].chan # calls[t].sub
      BY <2>3, <3>2, Zenon DEF CallType
    <3>3. QED
      BY <3>1, <3>2
  <2> HIDE DEF r
  <2>8. stats' \in [Chans -> -1..Cardinality(Subs)] /\ \A d \in Chans : stats'[d] # -1 => d # c /\ stats[d] # -1
    BY <1>0, <2>3, <2>5
  <2>9. \A d \in Chans : d # c => ~Clearing(t, d)
    BY <2>1, <2>2 DEF Clearing, In
  <2>10. QED
    BY <1>0, <2>1, <2>6, <2>7, <2>8, <2>9, BrokerCalls, Zenon
<1>4. QED
  BY <1>1, <1>2, <1>3

\* A subscriber is dropped, and time goes by.
LEMMA BrokerOutside ==
    ASSUME BrokerInv, DropSubscriber \/ Tick \/ UNCHANGED brokerVars
    PROVE  BrokerInv'
<1>1. UNCHANGED <<channels, stats, gens, readers, calls>>
  BY Zenon DEF DropSubscriber, Tick, mapVars, brokerVars
<1>2. idle' \subseteq Chans
  BY Zenon DEF DropSubscriber, Tick, mapVars, brokerVars, BrokerInv, BrokerTypeOK
<1>3. rx' \in [Subs -> 0..gens] /\ \A s \in Subs : rx'[s] # 0 => rx'[s] = rx[s]
  <2>0. rx \in [Subs -> 0..gens] /\ 0 \in 0..gens
    BY DEF BrokerInv, BrokerTypeOK
  <2>1. CASE UNCHANGED rx
    BY <2>0, <2>1, SMTT(30)
  <2>2. CASE DropSubscriber
    BY <2>0, <2>2 DEF DropSubscriber
  <2>3. QED
    BY <2>1, <2>2, SMTT(30) DEF Tick, brokerVars
<1>4. \A s \in Subs : rx[s] = 0 => rx'[s] = 0
  BY <1>3
<1>5. BrokerTypeOK'
  BY <1>1, <1>2, <1>3, Zenon DEF BrokerInv, BrokerTypeOK
<1>6. WithinLimit'
  BY <1>1, <1>3, FewerWithinLimit, SMTT(30) DEF BrokerInv
<1>7. \A t \in Threads : calls[t].fn = "subscribe" =>
         \E s \in Subs : calls[t].sub = {s} /\ (calls[t].at # "stats" => rx'[s] = 0)
  BY <1>4 DEF BrokerInv
<1>8. QED
  BY <1>1, <1>5, <1>6, <1>7, Zenon DEF BrokerInv, In, Clearing

\* Every step
LEMMA BrokerSteps == BrokerInv /\ [BrokerNext]_brokerVars => BrokerInv'
BY BrokerEntry, BrokerCheck, BrokerReceive, BrokerCounts, BrokerPublishes, BrokerUnsubscribes,
   BrokerCleans, BrokerOutside DEF BrokerNext, BrokerStep

\* A new broker
LEMMA BrokerStart == BrokerInit => BrokerInv
<1> SUFFICES ASSUME BrokerInit
             PROVE  BrokerInv
  OBVIOUS
<1>1. 0 \in 0..0 /\ 0 \in 0..MaxGen /\ -1 \in -1..Cardinality(Subs) /\ 1..0 = {}
  BY Counting, BrokerAssumption
<1>2. BrokerTypeOK
  BY <1>1, CallTypes DEF BrokerInit, BrokerTypeOK
<1>3. \A t \in Threads : calls[t] = NoCall
  BY DEF BrokerInit
<1>4. calls \in [Threads -> CallType]
  BY CallTypes DEF BrokerInit
<1>5. WithinLimit
  BY <1>1 DEF BrokerInit, WithinLimit
<1>6. \A c \in Chans : stats[c] = -1
  BY DEF BrokerInit
<1>7. QED
  BY <1>2, <1>3, <1>4, <1>5, <1>6, CallTypes DEF BrokerInv, In

(***************************************************************************)
(* For any number of threads, channels and subscribers, however their calls*)
(* interleave: a channel that is only in the statistics is being removed by*)
(* some thread at that moment, and a channel has at most one subscriber    *)
(* over max_subscribers_per_channel for each further thread (broker.rs,    *)
(* subscribe_with_options, unsubscribe, cleanup_inactive_channels).        *)
(***************************************************************************)
THEOREM BrokerIsSound == BrokerSpec => []BrokerSound
<1>1. BrokerInv => BrokerSound
  <2> SUFFICES ASSUME BrokerInv
               PROVE  BrokerSound
    OBVIOUS
  <2>1. NoStatsWithoutChannel
    BY DEF BrokerInv, NoStatsWithoutChannel, Removing, Clearing, In
  <2>2. ASSUME NEW g \in 1..gens
        PROVE  ReceiverCount(g) <= MaxSubs + Cardinality(Threads) - 1
    <3>1. ReceiverCount(g) = Cardinality(Receivers(g))
      BY DEF ReceiverCount, Receivers
    <3>2. Receivers(g) \subseteq Subs /\ Passed(g) \subseteq Threads
      BY DEF Receivers, Passed
    <3>3. Cardinality(Receivers(g)) \in Nat /\ Cardinality(Passed(g)) \in Nat /\ Cardinality(Threads) \in Nat
      BY <3>2, Counting, SMTT(30)
    <3>4. Cardinality(Receivers(g)) + Cardinality(Passed(g)) <= MaxSubs + Cardinality(Threads) - 1
      BY DEF BrokerInv, WithinLimit, Limit
    <3>5. QED
      BY <3>1, <3>3, <3>4, BrokerAssumption
  <2>3. QED
    BY <2>1, <2>2, SMTT(30) DEF BrokerSound, LimitOverrun, BrokerInv
<1>2. BrokerSpec => []BrokerInv
  BY BrokerStart, BrokerSteps, PTL DEF BrokerSpec
<1>3. QED
  BY <1>1, <1>2, PTL
==============================================================================
