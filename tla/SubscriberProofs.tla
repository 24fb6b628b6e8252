-------------------------- MODULE SubscriberProofs --------------------------
(***************************************************************************)
(* A subscriber hands over the messages of its channel in order and loses  *)
(* only what the code says it loses, and the subscribers of a              *)
(* MultiSubscriber take turns: for any number of messages and subscribers, *)
(* any capacity and any buffer.                                            *)
(***************************************************************************)
EXTENDS Subscriber, TLAPS

(***************************************************************************)
(* The round-robin                                                         *)
(***************************************************************************)
\* How many turns away subscriber b is when it is the turn of a
Turns(a, b) == IF a <= b THEN b - a ELSE b - a + N

\* A subscriber without a message has nothing to count.  While recv_any goes
\* round, the subscribers it has passed had no message then, and after a full
\* round, of recv_any or recv_all, that is so of all.  So what was returned
\* before a waiting message, and the turns until its own, are N at most.
RotationInv ==
    /\ MultiTypeOK
    /\ \A i \in Members :
          /\ pending[i] = 0 => passed[i] = 0
          /\ passed[i] + Turns(index, i) <= N
          /\ round = "any" => passed[i] = 0 \/ Turns(start, i) >= Turns(start, index)
          /\ round = "wait" => passed[i] = 0
          /\ round = "all" /\ got = {} /\ i < at => passed[i] = 0

\* round_robin_index goes up by one and from the last subscriber to the first.
LEMMA NextTurn ==
    ASSUME NEW i \in Members
    PROVE  (i + 1) % N = IF i = N - 1 THEN 0 ELSE i + 1
<1>1. N \in Nat \ {0} /\ i \in 0..(N - 1)
  BY MultiAssumption DEF Members
<1>2. CASE i = N - 1
  BY <1>1, <1>2
<1>3. CASE i # N - 1
  BY <1>1, <1>3
<1>4. QED
  BY <1>2, <1>3

\* The smaller of two numbers
LEMMA MinOfTwo ==
    ASSUME NEW a \in Nat, NEW b \in Nat
    PROVE  Min({a, b}) = IF a <= b THEN a ELSE b
<1> DEFINE m == IF a <= b THEN a ELSE b
<1>1. m \in {a, b} /\ \A y \in {a, b} : m <= y
  OBVIOUS
<1>2. \A x \in {a, b} : (\A y \in {a, b} : x <= y) => x = m
  OBVIOUS
<1>3. QED
  BY <1>1, <1>2 DEF Min

\* recv_any returns a message of j: every other waiting subscriber counts it.
LEMMA ReturnCounts ==
    ASSUME MultiTypeOK, NEW j \in Members, pending[j] > 0, ReturnFrom(j)
    PROVE  /\ pending' \in [Members -> 0..MemberCapacity]
           /\ passed' \in [Members -> 0..MaxTaken]
           /\ \A i \in Members :
                 /\ i = j \/ pending[i] = 0 => passed'[i] = 0
                 /\ passed'[i] <= passed[i] + 1
                 /\ pending'[i] = 0 => passed'[i] = 0
<1> USE MultiAssumption
<1>1. \A i \in Members : Min({passed[i] + 1, MaxTaken}) \in 0..MaxTaken
                           /\ Min({passed[i] + 1, MaxTaken}) <= passed[i] + 1
  <2> SUFFICES ASSUME NEW i \in Members
               PROVE  Min({passed[i] + 1, MaxTaken}) \in 0..MaxTaken
                           /\ Min({passed[i] + 1, MaxTaken}) <= passed[i] + 1
    OBVIOUS
  <2>1. passed[i] + 1 \in Nat /\ MaxTaken \in Nat
    BY DEF MultiTypeOK
  <2> DEFINE p == passed[i] + 1
  <2>2. p \in Nat
    BY <2>1
  <2> HIDE DEF p
  <2>3. Min({p, MaxTaken}) = IF p <= MaxTaken THEN p ELSE MaxTaken
    BY <2>1, <2>2, MinOfTwo
  <2>4. Min({p, MaxTaken}) \in 0..MaxTaken /\ Min({p, MaxTaken}) <= p
    BY <2>1, <2>2, <2>3
  <2>5. QED
    BY <2>4 DEF p
<1>2. passed' \in [Members -> 0..MaxTaken]
  BY <1>1 DEF ReturnFrom, MultiTypeOK
<1>3. pending' \in [Members -> 0..MemberCapacity]
  BY DEF ReturnFrom, MultiTypeOK
<1>4. \A i \in Members :
         /\ i = j \/ pending[i] = 0 => passed'[i] = 0
         /\ passed'[i] <= passed[i] + 1
         /\ i # j => pending'[i] = pending[i]
  BY <1>1 DEF ReturnFrom, MultiTypeOK
<1>5. QED
  BY <1>2, <1>3, <1>4

\* What a turn more does to the turns that are left
LEMMA TurnsTaken ==
    ASSUME NEW a \in Members, NEW i \in Members
    PROVE  /\ Turns(a, i) \in 0..(N - 1)
           /\ (a + 1) % N \in Members
           /\ i # a => Turns((a + 1) % N, i) = Turns(a, i) - 1
           /\ i = a => Turns((a + 1) % N, i) = N - 1
           /\ Turns(a, i) = 0 <=> i = a
BY NextTurn, MultiAssumption DEF Turns, Members

\* What a turn more does to the turns since the first
LEMMA TurnsSince ==
    ASSUME NEW s \in Members, NEW a \in Members
    PROVE  /\ (a + 1) % N # s => Turns(s, (a + 1) % N) = Turns(s, a) + 1
           /\ (a + 1) % N = s => Turns(s, a) = N - 1
           /\ \A i \in Members : Turns(s, i) = Turns(s, a) => i = a
BY NextTurn, MultiAssumption DEF Turns, Members

\* Every step keeps the bound on what is returned before a waiting message.
LEMMA RotationStep == RotationInv /\ [MultiNext]_multiVars => RotationInv'
<1> SUFFICES ASSUME RotationInv, [MultiNext]_multiVars
             PROVE  RotationInv'
  OBVIOUS
<1> USE MultiAssumption
<1>0. MultiTypeOK /\ index \in Members /\ start \in Members
  BY DEF RotationInv, MultiTypeOK
<1>1. ASSUME NEW j \in Members, Arrive(j)
      PROVE  RotationInv'
  <2>1. MultiTypeOK'
    BY <1>0, <1>1 DEF Arrive, MultiTypeOK
  <2>2. \A i \in Members : pending[i] \in Nat /\ (pending'[i] = 0 => pending[i] = 0)
    BY <1>0, <1>1 DEF Arrive, MultiTypeOK
  <2>3. UNCHANGED <<senders, index, start, at, got, round, passed>>
    BY <1>1 DEF Arrive
  <2>4. QED
    BY <2>1, <2>2, <2>3 DEF RotationInv, Turns
<1>2. ASSUME NEW j \in Members, CloseMember(j)
      PROVE  RotationInv'
  BY <1>2 DEF CloseMember, RotationInv, MultiTypeOK, Turns
<1>3. CASE RecvAny
  <2>1. Turns(start', index') = 0
    BY <1>0, <1>3, TurnsTaken DEF RecvAny
  <2>2. \A i \in Members : Turns(start', i) >= 0
    <3> SUFFICES ASSUME NEW i \in Members
                 PROVE  Turns(start', i) >= 0
      OBVIOUS
    <3>1. Turns(start', i) \in 0..(N - 1)
      BY <1>0, <1>3, TurnsTaken DEF RecvAny
    <3>2. QED
      BY <3>1
  <2>3. QED
    BY <1>0, <1>3, <2>1, <2>2 DEF RecvAny, RotationInv, MultiTypeOK, Turns
<1>4. CASE RecvAll
  BY <1>0, <1>4 DEF RecvAll, RotationInv, MultiTypeOK, Turns, Members
<1>5. CASE TakeAny
  <2> DEFINE nx == (index + 1) % N
  <2>0. pending[index] > 0 /\ ReturnFrom(index) /\ index' = nx
        /\ UNCHANGED <<senders, start, at, got>>
    BY <1>5 DEF TakeAny
  <2>1. \A i \in Members : /\ passed'[i] <= passed[i] + 1
                           /\ i = index => passed'[i] = 0
                           /\ pending'[i] = 0 => passed'[i] = 0
    BY <1>0, <2>0, ReturnCounts
  <2>2. pending' \in [Members -> 0..MemberCapacity] /\ passed' \in [Members -> 0..MaxTaken]
    BY <1>0, <2>0, ReturnCounts
  <2>3. nx \in Members /\ \A i \in Members :
           /\ i # index => Turns(nx, i) = Turns(index, i) - 1
           /\ i = index => Turns(nx, i) = N - 1
           /\ Turns(index, i) \in 0..(N - 1)
    BY <1>0, TurnsTaken
  <2>4. round' = "none"
    BY <2>0 DEF ReturnFrom
  <2>5. MultiTypeOK'
    BY <1>0, <2>0, <2>2, <2>3, <2>4 DEF MultiTypeOK
  <2> HIDE DEF nx
  <2>6. \A i \in Members : passed'[i] + Turns(nx, i) <= N
    <3> SUFFICES ASSUME NEW i \in Members
                 PROVE  passed'[i] + Turns(nx, i) <= N
      OBVIOUS
    <3>1. passed[i] \in Nat /\ passed'[i] \in Nat /\ passed[i] + Turns(index, i) <= N
      BY <1>0, <2>2 DEF RotationInv, MultiTypeOK
    <3>2. /\ passed'[i] <= passed[i] + 1
          /\ i = index => passed'[i] = 0
      BY <2>1
    <3>3. /\ i # index => Turns(nx, i) = Turns(index, i) - 1
          /\ i = index => Turns(nx, i) = N - 1
          /\ Turns(index, i) \in 0..(N - 1)
      BY <2>3
    <3>4. QED
      BY <3>1, <3>2, <3>3
  <2>7. QED
    <3>1. \A i \in Members : /\ pending'[i] = 0 => passed'[i] = 0
                             /\ passed'[i] + Turns(index', i) <= N
      BY <2>0, <2>1, <2>6
    <3>2. QED
      BY <2>4, <2>5, <3>1 DEF RotationInv, Turns
<1>6. CASE PassAny
  <2> DEFINE nx == (index + 1) % N
  <2>0. /\ round = "any" /\ pending[index] = 0 /\ index' = nx
        /\ round' = IF nx = start THEN "wait" ELSE "any"
        /\ UNCHANGED <<pending, senders, start, at, got, passed>>
    BY <1>6 DEF PassAny
  <2>1. passed[index] = 0
    BY <1>0, <2>0 DEF RotationInv
  <2>2. nx \in Members /\ \A i \in Members :
           /\ i # index => Turns(nx, i) = Turns(index, i) - 1
           /\ i = index => Turns(nx, i) = N - 1
           /\ Turns(index, i) \in 0..(N - 1)
           /\ Turns(start, i) \in 0..(N - 1)
    BY <1>0, TurnsTaken
  <2>3. /\ nx # start => Turns(start, nx) = Turns(start, index) + 1
        /\ nx = start => Turns(start, index) = N - 1
        /\ \A i \in Members : Turns(start, i) = Turns(start, index) => i = index
    BY <1>0, TurnsSince
  <2> HIDE DEF nx
  <2>4. MultiTypeOK'
    BY <1>0, <2>0, <2>2 DEF MultiTypeOK
  <2>5. \A i \in Members : passed[i] + Turns(nx, i) <= N
    <3> SUFFICES ASSUME NEW i \in Members
                 PROVE  passed[i] + Turns(nx, i) <= N
      OBVIOUS
    <3>1. passed[i] \in Nat /\ passed[i] + Turns(index, i) <= N
      BY <1>0 DEF RotationInv, MultiTypeOK
    <3>2. QED
      BY <3>1, <2>1, <2>2
  <2>6. \A i \in Members : passed[i] = 0 \/ (nx # start /\ Turns(start, i) >= Turns(start, nx))
    <3> SUFFICES ASSUME NEW i \in Members, passed[i] # 0
                 PROVE  nx # start /\ Turns(start, i) >= Turns(start, nx)
      OBVIOUS
    <3>1. i # index /\ Turns(start, i) >= Turns(start, index)
      BY <2>0, <2>1 DEF RotationInv
    <3>2. Turns(start, i) > Turns(start, index)
      BY <1>0, <2>2, <2>3, <3>1
    <3>3. QED
      BY <1>0, <2>2, <2>3, <3>2
  <2>7. \A i \in Members : pending[i] = 0 => passed[i] = 0
    BY DEF RotationInv
  <2>8. QED
    BY <2>0, <2>4, <2>5, <2>6, <2>7 DEF RotationInv, Turns
<1>7. CASE FailAny
  BY <1>0, <1>7 DEF FailAny, RotationInv, MultiTypeOK, Turns
<1>8. CASE WaitFirst
  <2>0. round = "wait" /\ 0 \in Members /\ UNCHANGED <<senders, index, start, at, got>>
    BY <1>8 DEF WaitFirst, Members
  <2>1. CASE pending[0] > 0 /\ ReturnFrom(0)
    <3>1. \A i \in Members : passed'[i] <= passed[i] + 1 /\ (pending'[i] = 0 => passed'[i] = 0)
      BY <1>0, <2>0, <2>1, ReturnCounts
    <3>2. pending' \in [Members -> 0..MemberCapacity] /\ passed' \in [Members -> 0..MaxTaken]
      BY <1>0, <2>0, <2>1, ReturnCounts
    <3>3. round' = "none"
      BY <2>1 DEF ReturnFrom
    <3>4. MultiTypeOK'
      BY <1>0, <2>0, <3>2, <3>3 DEF MultiTypeOK
    <3>5. \A i \in Members : passed'[i] + Turns(index, i) <= N
      <4> SUFFICES ASSUME NEW i \in Members
                   PROVE  passed'[i] + Turns(index, i) <= N
        OBVIOUS
      <4>1. passed[i] = 0 /\ passed'[i] \in Nat
        BY <2>0, <3>2 DEF RotationInv
      <4>2. Turns(index, i) \in 0..(N - 1)
        BY <1>0, TurnsTaken
      <4>3. QED
        BY <4>1, <4>2, <3>1
    <3>6. QED
      BY <2>0, <3>1, <3>3, <3>4, <3>5 DEF RotationInv, Turns
  <2>2. CASE round' = "none" /\ UNCHANGED <<pending, passed>>
    BY <1>0, <2>0, <2>2 DEF RotationInv, MultiTypeOK, Turns
  <2>3. QED
    BY <1>8, <2>1, <2>2 DEF WaitFirst
<1>9. CASE AllStep
  <2>0. round = "all" /\ UNCHANGED <<senders, index, start>>
    BY <1>9 DEF AllStep
  <2>1. CASE at = N /\ round' = (IF got = {} THEN "wait" ELSE "none")
             /\ UNCHANGED <<pending, at, got, passed>>
    <3>1. got = {} => \A i \in Members : passed[i] = 0
      BY <2>0, <2>1 DEF RotationInv, Members
    <3>2. QED
      BY <1>0, <2>0, <2>1, <3>1 DEF RotationInv, MultiTypeOK, Turns
  <2>2. CASE at # N /\ pending[at] > 0 /\ pending' = [pending EXCEPT ![at] = @ - 1]
             /\ passed' = Reset(at) /\ at' = at + 1 /\ got' = got \cup {at} /\ round' = round
    <3>1. at \in Members /\ at' \in 0..N
      BY <1>0, <2>2 DEF MultiTypeOK, Members
    <3>2. \A i \in Members : passed'[i] = IF i = at THEN 0 ELSE passed[i]
      BY <1>0, <2>2 DEF Reset, MultiTypeOK
    <3>3. MultiTypeOK'
      BY <1>0, <2>0, <2>2, <3>1 DEF MultiTypeOK, Reset
    <3>4. \A i \in Members : Turns(index, i) \in 0..(N - 1)
      BY <1>0, TurnsTaken
    <3>5. got' # {}
      BY <2>2
    <3>6. \A i \in Members : pending'[i] = 0 => passed'[i] = 0
      BY <1>0, <2>2, <3>1, <3>2 DEF RotationInv, MultiTypeOK
    <3>7. \A i \in Members : passed'[i] + Turns(index, i) <= N
      BY <3>2, <3>4 DEF RotationInv
    <3>8. QED
      BY <2>0, <2>2, <3>3, <3>5, <3>6, <3>7 DEF RotationInv, Turns
  <2>3. CASE at # N /\ pending[at] = 0 /\ at' = at + 1
             /\ UNCHANGED <<pending, got, round, passed>>
    <3>1. at \in Members /\ at' \in 0..N
      BY <1>0, <2>3 DEF MultiTypeOK, Members
    <3>2. \A i \in Members : got = {} /\ i < at' => passed[i] = 0
      BY <2>0, <2>3, <3>1 DEF RotationInv, Members
    <3>3. QED
      BY <1>0, <2>0, <2>3, <3>1, <3>2 DEF RotationInv, MultiTypeOK, Turns
  <2>4. CASE round' = "none" /\ UNCHANGED <<pending, at, got, passed>>
    BY <1>0, <2>0, <2>4 DEF RotationInv, MultiTypeOK, Turns
  <2>5. QED
    BY <1>9, <2>1, <2>2, <2>3, <2>4 DEF AllStep
<1>10. CASE UNCHANGED multiVars
  BY <1>10 DEF multiVars, RotationInv, MultiTypeOK, Turns
<1>11. QED
  BY <1>1, <1>2, <1>3, <1>4, <1>5, <1>6, <1>7, <1>8, <1>9, <1>10 DEF MultiNext, RoundStep

\* Before the first call nothing waits.
LEMMA RotationStart == MultiInit => RotationInv
<1> SUFFICES ASSUME MultiInit
             PROVE  RotationInv
  OBVIOUS
<1>1. 0 \in Members /\ 0 \in 0..N /\ 0 \in 0..MemberCapacity /\ 0 \in 0..MaxTaken
  BY MultiAssumption DEF Members
<1>2. MultiTypeOK
  BY <1>1 DEF MultiInit, MultiTypeOK
<1>3. \A i \in Members : passed[i] + Turns(index, i) <= N
  BY <1>1, TurnsTaken, MultiAssumption DEF MultiInit
<1>4. QED
  BY <1>2, <1>3 DEF RotationInv, MultiInit

(***************************************************************************)
(* For any number of subscribers and of waiting messages, recv_any returns *)
(* at most N messages of other channels while one waits, whatever calls of *)
(* recv_all come between: the turns until its own and the messages already *)
(* returned never add up to more (subscriber.rs, MultiSubscriber).         *)
(***************************************************************************)
THEOREM RotationIsFair == MultiSpec => []FairRotation
<1>1. RotationInv => FairRotation
  <2> SUFFICES ASSUME RotationInv, NEW i \in Members
               PROVE  passed[i] <= N
    BY DEF FairRotation
  <2>1. index \in Members /\ passed[i] \in Nat /\ passed[i] + Turns(index, i) <= N
    BY DEF RotationInv, MultiTypeOK
  <2>2. Turns(index, i) \in 0..(N - 1)
    BY <2>1, TurnsTaken
  <2>3. QED
    BY <2>1, <2>2, MultiAssumption
<1>2. MultiSpec => []RotationInv
  BY RotationStart, RotationStep, PTL DEF MultiSpec
<1>3. QED
  BY <1>1, <1>2, PTL

\* The indices of MultiSubscriber stay within its subscribers, for any number
\* of them (subscriber.rs, round_robin_index).
THEOREM MultiTypes == MultiSpec => []MultiTypeOK
<1>1. RotationInv => MultiTypeOK
  BY DEF RotationInv
<1>2. MultiSpec => []RotationInv
  BY RotationStart, RotationStep, PTL DEF MultiSpec
<1>3. QED
  BY <1>1, <1>2, PTL

(***************************************************************************)
(* One subscriber                                                          *)
(***************************************************************************)
Ordered(s) == \A i \in 2..Len(s) : s[i - 1] < s[i]
Before(s, t) == \A i \in DOMAIN s, j \in DOMAIN t : s[i] < t[j]

\* A batch belongs to a recv_batch that is not complete and comes after what
\* was returned before it.  The buffer holds nothing but the one message that
\* a recv_with_condition in progress has passed over.  What was counted is
\* nowhere else.
DeliveryInv ==
    /\ SubscriberTypeOK
    /\ returned \in Seq(Nat) /\ batch \in Seq(Nat) /\ buffer \in Seq(Nat)
    /\ DeliveredInOrder /\ Ordered(batch) /\ Before(returned, batch)
    /\ batch # <<>> => method = "recv_batch"
    /\ method = "recv_batch" => Len(batch) < want
    /\ buffer # <<>> => method = "recv_with_condition" /\ Len(buffer) = 1 /\ buffer[1] \notin Wanted
    /\ counted \cap (Range(returned) \cup Range(batch) \cup Range(buffer)) = {}

\* The numbers before b are those before a, and those from a.
LEMMA BeforeAndFrom ==
    ASSUME NEW a \in Nat, NEW b \in Nat, 1 <= a, a <= b
    PROVE  /\ 1..(b - 1) = (1..(a - 1)) \cup (a..(b - 1))
           /\ (1..(a - 1)) \cap (a..(b - 1)) = {}
<1>1. 1..(b - 1) = (1..(a - 1)) \cup (a..(b - 1))
  OBVIOUS
<1>2. \A x \in 1..(a - 1) : x \notin a..(b - 1)
  OBVIOUS
<1>3. QED
  BY <1>1, <1>2

\* The elements of sequences put together
LEMMA ElementsOf ==
    /\ Range(<<>>) = {}
    /\ \A m : Range(<<m>>) = {m}
    /\ \A s \in Seq(Nat), m \in Nat : Range(Append(s, m)) = Range(s) \cup {m}
    /\ \A s, t \in Seq(Nat) : Range(s \o t) = Range(s) \cup Range(t)
<1>1. Range(<<>>) = {} /\ \A m : Range(<<m>>) = {m}
  BY DEF Range
<1>2. ASSUME NEW s \in Seq(Nat), NEW m \in Nat
      PROVE  Range(Append(s, m)) = Range(s) \cup {m}
  <2>1. DOMAIN Append(s, m) = 1..(Len(s) + 1) /\ DOMAIN s = 1..Len(s) /\ Len(s) \in Nat
    OBVIOUS
  <2>2. \A i \in 1..Len(s) : Append(s, m)[i] = s[i]
    OBVIOUS
  <2>3. Append(s, m)[Len(s) + 1] = m
    OBVIOUS
  <2>4. QED
    BY <2>1, <2>2, <2>3 DEF Range
<1>3. ASSUME NEW s \in Seq(Nat), NEW t \in Seq(Nat)
      PROVE  Range(s \o t) = Range(s) \cup Range(t)
  <2>1. Range(s \o t) \subseteq Range(s) \cup Range(t)
    BY DEF Range
  <2>2. ASSUME NEW i \in DOMAIN s
        PROVE  s[i] \in Range(s \o t)
    <3>1. i \in DOMAIN (s \o t) /\ (s \o t)[i] = s[i]
      OBVIOUS
    <3>2. QED
      BY <3>1 DEF Range
  <2>3. ASSUME NEW i \in DOMAIN t
        PROVE  t[i] \in Range(s \o t)
    <3>1. Len(s) + i \in DOMAIN (s \o t) /\ (s \o t)[Len(s) + i] = t[i]
      OBVIOUS
    <3>2. QED
      BY <3>1 DEF Range
  <2>4. QED
    BY <2>1, <2>2, <2>3 DEF Range
<1>4. QED
  BY <1>1, <1>2, <1>3

\* Two parts in order, one after the other, are in order.
LEMMA OrderedTogether ==
    ASSUME NEW s \in Seq(Nat), NEW t \in Seq(Nat), Ordered(s), Ordered(t), Before(s, t)
    PROVE  s \o t \in Seq(Nat) /\ Ordered(s \o t)
<1>1. s \o t \in Seq(Nat) /\ Len(s \o t) = Len(s) + Len(t)
  OBVIOUS
<1> SUFFICES ASSUME NEW i \in 2..Len(s \o t)
             PROVE  (s \o t)[i - 1] < (s \o t)[i]
  BY <1>1 DEF Ordered
<1>2. CASE i <= Len(s)
  <2>1. (s \o t)[i - 1] = s[i - 1] /\ (s \o t)[i] = s[i] /\ i \in 2..Len(s)
    BY <1>1, <1>2
  <2>2. QED
    BY <2>1 DEF Ordered
<1>3. CASE i = Len(s) + 1
  <2>1. (s \o t)[i - 1] = s[i - 1] /\ (s \o t)[i] = t[1] /\ i - 1 \in DOMAIN s /\ 1 \in DOMAIN t
    BY <1>1, <1>3
  <2>2. QED
    BY <2>1 DEF Before
<1>4. CASE i > Len(s) + 1
  <2> DEFINE j == i - Len(s)
  <2>1. (s \o t)[i - 1] = t[j - 1] /\ (s \o t)[i] = t[j] /\ j \in 2..Len(t)
    BY <1>1, <1>4
  <2> HIDE DEF j
  <2>2. QED
    BY <2>1 DEF Ordered
<1>5. QED
  BY <1>1, <1>2, <1>3, <1>4

\* A message later than all of a sequence can be put at its end.
LEMMA OrderedOneMore ==
    ASSUME NEW s \in Seq(Nat), NEW m \in Nat, Ordered(s), \A i \in DOMAIN s : s[i] < m
    PROVE  /\ Append(s, m) \in Seq(Nat) /\ Ordered(Append(s, m))
           /\ <<m>> \in Seq(Nat) /\ Ordered(<<m>>) /\ Before(s, <<m>>)
<1>1. Append(s, m) \in Seq(Nat) /\ Len(Append(s, m)) = Len(s) + 1
  OBVIOUS
<1>2. <<m>> \in Seq(Nat) /\ Ordered(<<m>>) /\ Before(s, <<m>>)
  BY DEF Ordered, Before
<1>3. \A i \in 2..(Len(s) + 1) : Append(s, m)[i - 1] < Append(s, m)[i]
  BY DEF Ordered
<1>4. QED
  BY <1>1, <1>2, <1>3 DEF Ordered

\* ... and what came before the sequence comes before it then.
LEMMA BeforeOneMore ==
    ASSUME NEW s \in Seq(Nat), NEW t \in Seq(Nat), NEW m \in Nat, Before(s, t),
           \A i \in DOMAIN s : s[i] < m
    PROVE  Before(s, Append(t, m))
<1> SUFFICES ASSUME NEW i \in DOMAIN s, NEW j \in DOMAIN Append(t, m)
             PROVE  s[i] < Append(t, m)[j]
  BY DEF Before
<1>1. CASE j \in DOMAIN t
  <2>1. Append(t, m)[j] = t[j]
    BY <1>1
  <2>2. QED
    BY <1>1, <2>1 DEF Before
<1>2. CASE j \notin DOMAIN t
  <2>1. Append(t, m)[j] = m
    BY <1>2
  <2>2. QED
    BY <2>1
<1>3. QED
  BY <1>1, <1>2

\* Everything the subscriber has had is a message before the next one.
LEMMA HadIsPast ==
    ASSUME DeliveryInv
    PROVE  /\ next \in Nat /\ sent \in Nat
           /\ \A i \in DOMAIN returned : returned[i] < next
           /\ \A i \in DOMAIN batch : batch[i] < next
           /\ next \notin Range(returned) \cup Range(batch) \cup Range(buffer) \cup counted
<1>1. next \in Nat /\ sent \in Nat
  BY SubscriberAssumption DEF DeliveryInv, SubscriberTypeOK
<1>2. Range(returned) \cup Range(batch) \cup Range(buffer) \cup counted \subseteq 1..(next - 1)
  BY DEF DeliveryInv, SubscriberTypeOK
<1>3. /\ \A i \in DOMAIN returned : returned[i] \in Range(returned)
      /\ \A i \in DOMAIN batch : batch[i] \in Range(batch)
  BY DEF Range
<1>4. QED
  BY <1>1, <1>2, <1>3

\* What a step may do to the messages
Loses ==
    \/ Lost' = Lost
    \/ FailsLosing({})
    \/ next \in Broken \ Filtered /\ FailsLosing({next})
    \/ NoRoomFor(next)

\* A batch that is given up was nowhere else.
LEMMA BatchIsApart ==
    ASSUME DeliveryInv
    PROVE  Range(batch) \cap (Range(returned) \cup Range(buffer) \cup counted) = {}
<1>1. Range(batch) \cap counted = {}
  BY DEF DeliveryInv
<1>2. Range(batch) \cap Range(returned) = {}
  BY DEF DeliveryInv, Before, Range
<1>3. Range(batch) \cap Range(buffer) = {}
  <2>1. CASE batch = <<>>
    BY <2>1, ElementsOf
  <2>2. CASE buffer = <<>>
    BY <2>2, ElementsOf
  <2>3. QED
    BY <2>1, <2>2 DEF DeliveryInv
<1>4. QED
  BY <1>1, <1>2, <1>3

\* A step that takes nothing and gives nothing
LEMMA DeliveryQuiet ==
    ASSUME DeliveryInv, UNCHANGED <<next, buffer, batch, returned, counted>>, SubscriberTypeOK',
           batch # <<>> => method' = "recv_batch", method' = "recv_batch" => Len(batch) < want',
           buffer # <<>> => method' = "recv_with_condition"
    PROVE  DeliveryInv' /\ Loses
BY DEF DeliveryInv, DeliveredInOrder, Loses, Lost

\* The broker sends, drops the sender, and the owner begins a call or changes
\* the size of the buffer, which is empty then.
LEMMA DeliveryOutside ==
    ASSUME DeliveryInv, Send \/ DropSender \/ Begin \/ ResizeBuffer
    PROVE  DeliveryInv' /\ Loses
<1> USE SubscriberAssumption
<1>1. CASE Send
  <2>1. SubscriberTypeOK'
    BY <1>1 DEF Send, DeliveryInv, SubscriberTypeOK, callVars, optVars
  <2>2. QED
    BY <1>1, <2>1, DeliveryQuiet DEF Send, callVars, DeliveryInv
<1>2. CASE DropSender
  <2>1. SubscriberTypeOK'
    BY <1>2 DEF DropSender, DeliveryInv, SubscriberTypeOK, callVars, optVars
  <2>2. QED
    BY <1>2, <2>1, DeliveryQuiet DEF DropSender, callVars, DeliveryInv
<1>3. CASE Begin
  <2>0. batch = <<>> /\ buffer = <<>> /\ UNCHANGED <<chanVars, next, buffer, optVars, batch, returned, counted>>
    BY <1>3 DEF Begin, DeliveryInv
  <2>1. want' \in 0..MaxBatch /\ (method' = "recv_batch" => want' > 0) /\ method' \in Calls
    BY <1>3 DEF Begin
  <2>2. Len(<<>>) = 0
    OBVIOUS
  <2>3. SubscriberTypeOK'
    BY <2>0, <2>1, <2>2 DEF DeliveryInv, SubscriberTypeOK, chanVars, optVars
  <2>4. QED
    BY <2>0, <2>1, <2>2, <2>3, DeliveryQuiet
<1>4. CASE ResizeBuffer
  <2>0. batch = <<>> /\ buffer = <<>> /\ UNCHANGED <<chanVars, next, lagError, callVars, returned, counted>>
        /\ bufferSize' \in BufferSizes
    BY <1>4 DEF ResizeBuffer, DeliveryInv
  <2>1. buffer' = <<>>
    <3>1. Min({Len(buffer), bufferSize'}) = 0
      <4>1. Len(buffer) = 0 /\ bufferSize' \in Nat
        BY <2>0
      <4>2. QED
        BY <4>1, MinOfTwo
    <3>2. SubSeq(<<>>, 1, 0) = <<>>
      OBVIOUS
    <3>3. QED
      BY <1>4, <2>0, <3>1, <3>2 DEF ResizeBuffer
  <2>2. counted' = counted
    BY <2>0
  <2>3. Len(<<>>) = 0
    OBVIOUS
  <2>4. SubscriberTypeOK'
    BY <2>0, <2>1, <2>2, <2>3 DEF DeliveryInv, SubscriberTypeOK, chanVars, callVars
  <2>5. QED
    BY <2>0, <2>1, <2>2, <2>4, DeliveryQuiet DEF callVars, DeliveryInv
<1>5. QED
  BY <1>1, <1>2, <1>3, <1>4

\* recv_with_condition takes the message that it has passed over, and passes
\* over it again.
LEMMA DeliveryBuffered ==
    ASSUME DeliveryInv, TakeBuffered
    PROVE  DeliveryInv' /\ Loses
<1> USE SubscriberAssumption
<1>1. method = "recv_with_condition" /\ Len(buffer) = 1 /\ buffer[1] \notin Wanted /\ buffer \in Seq(Nat)
  BY DEF DeliveryInv, TakeBuffered
<1>2. Head(buffer) = buffer[1] /\ Tail(buffer) = <<>> /\ Append(<<>>, buffer[1]) = buffer
  <2>1. buffer = <<buffer[1]>>
    BY <1>1
  <2>2. \A m : Head(<<m>>) = m /\ Tail(<<m>>) = <<>> /\ Append(<<>>, m) = <<m>>
    OBVIOUS
  <2>3. QED
    BY <2>1, <2>2, Zenon
<1>3. PassOver(buffer[1], <<>>) /\ UNCHANGED <<chanVars, next, optVars>>
  BY <1>1, <1>2 DEF TakeBuffered, Deliver, Hand
<1>4. Len(<<>>) < bufferSize
  BY <1>1 DEF DeliveryInv, SubscriberTypeOK
<1>5. buffer' = buffer /\ counted' = counted /\ UNCHANGED <<callVars, returned>>
  BY <1>2, <1>3, <1>4 DEF PassOver
<1>6. SubscriberTypeOK'
  BY <1>3, <1>5 DEF DeliveryInv, SubscriberTypeOK, chanVars, callVars, optVars
<1>7. QED
  BY <1>3, <1>5, <1>6, DeliveryQuiet DEF DeliveryInv, callVars

\* The end of a call that returns msgs, after the message before next' was
\* taken or nothing was.
LEMMA DeliveryReturn ==
    ASSUME DeliveryInv, buffer = <<>>, NEW msgs \in Seq(Nat), Return(msgs),
           UNCHANGED <<chanVars, optVars, buffer>>, next' \in next..(sent + 1),
           Ordered(msgs), Before(returned, msgs), Range(msgs) \subseteq 1..(next' - 1),
           counted' \subseteq 1..(next' - 1), counted' \cap (Range(returned) \cup Range(msgs)) = {}
    PROVE  DeliveryInv'
<1> USE SubscriberAssumption
<1>1. batch' = <<>> /\ buffer' = <<>> /\ method' = "none" /\ want' = 0 /\ returned' = returned \o msgs
  BY DEF Return
<1>2. returned' \in Seq(Nat) /\ Ordered(returned')
  BY <1>1, OrderedTogether DEF DeliveryInv, DeliveredInOrder, Ordered
<1>3. Range(returned') = Range(returned) \cup Range(msgs)
  BY <1>1, ElementsOf DEF DeliveryInv
<1>4. /\ Range(batch') = {} /\ Range(buffer') = {} /\ batch' \in Seq(Nat) /\ buffer' \in Seq(Nat)
      /\ Len(batch') = 0 /\ Len(buffer') = 0 /\ DOMAIN batch' = {}
  BY <1>1, ElementsOf
<1>5. next' \in 1..(sent' + 1) /\ sent' \in 0..MaxMsgs /\ 1..(next - 1) \subseteq 1..(next' - 1)
  <2>1. sent \in 0..MaxMsgs /\ next \in 1..(sent + 1) /\ sent' = sent
    BY DEF DeliveryInv, SubscriberTypeOK, chanVars
  <2>2. sent \in Nat /\ next \in Nat /\ next >= 1 /\ next' \in Int /\ next <= next' /\ next' <= sent + 1
    BY <2>1
  <2>3. next' \in 1..(sent' + 1)
    BY <2>1, <2>2
  <2>4. 1..(next - 1) \subseteq 1..(next' - 1)
    <3>1. next' \in Nat
      BY <2>2
    <3>2. 1..(next' - 1) = (1..(next - 1)) \cup (next..(next' - 1))
      BY <2>2, <3>1, BeforeAndFrom
    <3>3. QED
      BY <3>2
  <2>5. QED
    BY <2>1, <2>3, <2>4
<1>6. Range(returned) \subseteq 1..(next - 1)
  BY DEF DeliveryInv, SubscriberTypeOK
<1>7. SubscriberTypeOK'
  <2>1. open' \in BOOLEAN /\ bufferSize' \in BufferSizes /\ bufferSize' \in Nat
    BY DEF DeliveryInv, SubscriberTypeOK, chanVars, optVars
  <2>2. Range(returned') \cup Range(batch') \cup Range(buffer') \cup counted' \subseteq 1..(next' - 1)
    BY <1>3, <1>4, <1>5, <1>6
  <2>3. want' \in 0..MaxBatch /\ Len(batch') <= want' /\ Len(buffer') <= bufferSize'
    BY <1>1, <1>4, <2>1
  <2>4. QED
    BY <1>1, <1>5, <2>1, <2>2, <2>3 DEF SubscriberTypeOK
<1>8. Ordered(batch') /\ Before(returned', batch')
  BY <1>4 DEF Ordered, Before
<1>9. QED
  BY <1>1, <1>2, <1>3, <1>4, <1>7, <1>8 DEF DeliveryInv, DeliveredInOrder, Ordered

\* The receiver goes on to next': the messages before it
LEMMA PastGrows ==
    ASSUME DeliveryInv, next' \in next..(sent + 1)
    PROVE  /\ next \in 1..(sent + 1) /\ sent \in 0..MaxMsgs
           /\ 1..(next' - 1) = (1..(next - 1)) \cup (next..(next' - 1))
           /\ (1..(next - 1)) \cap (next..(next' - 1)) = {}
<1>1. next \in 1..(sent + 1) /\ sent \in 0..MaxMsgs
  BY DEF DeliveryInv, SubscriberTypeOK
<1>2. next \in Nat /\ next >= 1 /\ next' \in Nat /\ next <= next'
  BY <1>1, SubscriberAssumption
<1>3. QED
  BY <1>1, <1>2, BeforeAndFrom

\* Messages are counted, and the call goes on.
LEMMA DeliverySkips ==
    ASSUME DeliveryInv, buffer = <<>>, UNCHANGED <<chanVars, optVars, callVars, buffer, returned>>,
           next' \in next..(sent + 1), counted' = counted \cup (next..(next' - 1))
    PROVE  DeliveryInv' /\ Loses
<1> DEFINE new == next..(next' - 1)
<1>1. /\ next \in 1..(sent + 1) /\ sent \in 0..MaxMsgs
      /\ 1..(next' - 1) = (1..(next - 1)) \cup new /\ (1..(next - 1)) \cap new = {}
  BY PastGrows
<1>2. counted' = counted \cup new /\ UNCHANGED <<sent, open, bufferSize, lagError, method, batch, want>>
  BY DEF chanVars, optVars, callVars
<1>3. Range(returned) \cup Range(batch) \cup Range(buffer) \cup counted \subseteq 1..(next - 1)
  BY DEF DeliveryInv, SubscriberTypeOK
<1>4. next' \in 1..(sent' + 1)
  BY <1>1, <1>2, SubscriberAssumption
<1> HIDE DEF new
<1>5. Range(returned) \cup Range(batch) \cup Range(buffer) \cup counted' \subseteq 1..(next' - 1)
  BY <1>1, <1>2, <1>3
<1>6. counted' \cap (Range(returned) \cup Range(batch) \cup Range(buffer)) = {}
  BY <1>1, <1>2, <1>3 DEF DeliveryInv
<1>7. SubscriberTypeOK'
  BY <1>2, <1>4, <1>5 DEF DeliveryInv, SubscriberTypeOK
<1>8. DeliveryInv'
  BY <1>2, <1>6, <1>7 DEF DeliveryInv, DeliveredInOrder
<1>9. Lost' = Lost
  BY <1>1, <1>2, <1>3 DEF Lost
<1>10. QED
  BY <1>8, <1>9 DEF Loses

\* A message is taken from the channel.
LEMMA DeliverySent ==
    ASSUME DeliveryInv, TakeSent
    PROVE  DeliveryInv' /\ Loses
<1> USE SubscriberAssumption
<1>1. /\ method # "none" /\ buffer = <<>> /\ next <= sent /\ next' = next + 1
      /\ UNCHANGED <<chanVars, optVars>>
  BY DEF TakeSent
<1>2. next \in Nat /\ sent \in Nat
  BY HadIsPast
<1>3. next' \in next..(sent + 1) /\ next..(next' - 1) = {next} /\ next \in 1..(next' - 1)
  <2>1. next >= 1
    BY DEF DeliveryInv, SubscriberTypeOK
  <2>2. QED
    BY <1>1, <1>2, <2>1
<1>4. /\ 1..(next' - 1) = (1..(next - 1)) \cup {next}
      /\ next \in 1..(sent + 1) /\ sent \in 0..MaxMsgs
  BY <1>3, PastGrows
<1>5. /\ Range(returned) \cup Range(batch) \cup Range(buffer) \cup counted \subseteq 1..(next - 1)
      /\ next \notin Range(returned) \cup Range(batch) \cup Range(buffer) \cup counted
      /\ returned \in Seq(Nat) /\ batch \in Seq(Nat) /\ Range(buffer) = {}
  BY <1>1, HadIsPast, ElementsOf DEF DeliveryInv, SubscriberTypeOK
<1>6. CASE counted' = counted \cup {next} /\ UNCHANGED <<buffer, callVars, returned>>
  BY <1>1, <1>3, <1>6, DeliverySkips
<1>7. CASE method # "recv_batch" /\ Return(<<next>>) /\ UNCHANGED <<buffer, counted>>
  <2>1. batch = <<>> /\ <<next>> \in Seq(Nat) /\ Ordered(<<next>>) /\ Before(returned, <<next>>)
    BY <1>2, <1>5, <1>7, HadIsPast, OrderedOneMore DEF DeliveryInv, DeliveredInOrder, Ordered
  <2>2. Range(<<next>>) = {next} /\ Range(batch) = {}
    BY <2>1, ElementsOf
  <2>3. counted' \cap (Range(returned) \cup Range(<<next>>)) = {} /\ counted' \subseteq 1..(next' - 1)
    <3>1. counted' = counted /\ counted \cap Range(returned) = {}
      BY <1>7 DEF DeliveryInv
    <3>2. QED
      BY <1>4, <1>5, <2>2, <3>1
  <2>4. DeliveryInv'
    BY <1>1, <1>3, <1>7, <2>1, <2>2, <2>3, DeliveryReturn
  <2>5. Range(returned') = Range(returned) \cup {next} /\ Range(batch') = {} /\ buffer' = buffer
    <3>1. returned' = returned \o <<next>> /\ batch' = <<>> /\ buffer' = buffer
      BY <1>7 DEF Return
    <3>2. Range(returned \o <<next>>) = Range(returned) \cup Range(<<next>>)
      BY <1>5, <2>1, ElementsOf
    <3>3. QED
      BY <2>2, <3>1, <3>2, ElementsOf
  <2>6. Lost' = Lost
    BY <1>4, <1>5, <1>7, <2>2, <2>5 DEF Lost
  <2>7. QED
    BY <2>4, <2>6 DEF Loses
<1>8. CASE Return(Append(batch, next)) /\ UNCHANGED <<buffer, counted>>
  <2> DEFINE b == Append(batch, next)
  <2>1. b \in Seq(Nat) /\ Ordered(b)
    BY <1>2, <1>5, HadIsPast, OrderedOneMore DEF DeliveryInv
  <2>2. Before(returned, b)
    BY <1>2, <1>5, HadIsPast, BeforeOneMore DEF DeliveryInv
  <2>3. Range(b) = Range(batch) \cup {next}
    BY <1>2, <1>5, ElementsOf
  <2> HIDE DEF b
  <2>4. counted' \cap (Range(returned) \cup Range(b)) = {} /\ counted' \subseteq 1..(next' - 1)
        /\ Range(b) \subseteq 1..(next' - 1)
    BY <1>4, <1>5, <1>8, <2>3 DEF DeliveryInv
  <2>5. Return(b)
    BY <1>8 DEF b
  <2>6. DeliveryInv'
    BY <1>1, <1>3, <1>8, <2>1, <2>2, <2>4, <2>5, DeliveryReturn
  <2>7. Range(returned') = Range(returned) \cup Range(b) /\ Range(batch') = {} /\ buffer' = buffer
    BY <1>5, <1>8, <2>1, <2>5, ElementsOf DEF Return
  <2>8. Lost' = Lost
    BY <1>4, <1>5, <1>8, <2>3, <2>7 DEF Lost
  <2>9. QED
    BY <2>6, <2>8 DEF Loses
<1>9. CASE /\ method = "recv_batch" /\ Len(batch) + 1 < want /\ batch' = Append(batch, next)
           /\ UNCHANGED <<method, want, returned, buffer, counted>>
  <2>1. batch' \in Seq(Nat) /\ Ordered(batch') /\ Len(batch') = Len(batch) + 1
    <3>1. batch' \in Seq(Nat) /\ Ordered(batch')
      BY <1>2, <1>5, <1>9, HadIsPast, OrderedOneMore DEF DeliveryInv
    <3>2. QED
      BY <1>2, <1>5, <1>9, <3>1
  <2>2. Before(returned, batch')
    BY <1>2, <1>5, <1>9, HadIsPast, BeforeOneMore DEF DeliveryInv
  <2>3. Range(batch') = Range(batch) \cup {next}
    BY <1>2, <1>5, <1>9, ElementsOf
  <2>4. Range(returned) \cup Range(batch') \cup Range(buffer) \cup counted \subseteq 1..(next' - 1)
    BY <1>4, <1>5, <2>3
  <2>5. counted \cap (Range(returned) \cup Range(batch') \cup Range(buffer)) = {}
    BY <1>5, <2>3 DEF DeliveryInv
  <2>6. SubscriberTypeOK'
    BY <1>1, <1>3, <1>4, <1>9, <2>1, <2>4 DEF DeliveryInv, SubscriberTypeOK, chanVars, optVars
  <2>7. DeliveryInv'
    BY <1>1, <1>9, <2>1, <2>2, <2>5, <2>6 DEF DeliveryInv, DeliveredInOrder
  <2>8. Lost' = Lost
    BY <1>4, <1>5, <1>9, <2>3 DEF Lost
  <2>9. QED
    BY <2>7, <2>8 DEF Loses
<1>10. CASE /\ method = "recv_with_condition" /\ next \notin Wanted /\ bufferSize > 0
            /\ buffer' = <<next>> /\ UNCHANGED <<callVars, returned, counted>>
  <2>1. /\ buffer' \in Seq(Nat) /\ Len(buffer') = 1 /\ buffer'[1] = next /\ Range(buffer') = {next}
        /\ UNCHANGED <<method, batch, want, returned, counted, sent, open, bufferSize, lagError>>
    BY <1>1, <1>2, <1>10, ElementsOf DEF callVars, chanVars, optVars
  <2>2. batch = <<>> /\ Range(batch) = {}
    BY <1>10, ElementsOf DEF DeliveryInv
  <2>3. Range(returned) \cup Range(batch) \cup Range(buffer') \cup counted \subseteq 1..(next' - 1)
    BY <1>4, <1>5, <2>1
  <2>4. counted \cap (Range(returned) \cup Range(batch) \cup Range(buffer')) = {}
    BY <1>5, <2>1 DEF DeliveryInv
  <2>5. SubscriberTypeOK'
    BY <1>3, <1>4, <1>10, <2>1, <2>3 DEF DeliveryInv, SubscriberTypeOK
  <2>6. DeliveryInv'
    BY <1>10, <2>1, <2>4, <2>5 DEF DeliveryInv, DeliveredInOrder
  <2>7. Lost' = Lost
    BY <1>4, <1>5, <2>1 DEF Lost
  <2>8. QED
    BY <2>6, <2>7 DEF Loses
<1>11. CASE /\ method = "recv_with_condition" /\ next \notin Wanted /\ bufferSize = 0
            /\ buffer' = <<>> /\ UNCHANGED <<callVars, returned, counted>>
  <2>1. /\ UNCHANGED <<method, batch, want, returned, counted, sent, open, bufferSize, lagError>>
        /\ buffer' = buffer
    BY <1>1, <1>11 DEF callVars, chanVars, optVars
  <2>2. Range(returned) \cup Range(batch) \cup Range(buffer) \cup counted \subseteq 1..(next' - 1)
    BY <1>4, <1>5
  <2>3. SubscriberTypeOK'
    BY <1>3, <1>4, <2>1, <2>2 DEF DeliveryInv, SubscriberTypeOK
  <2>4. DeliveryInv'
    BY <1>1, <2>1, <2>3 DEF DeliveryInv, DeliveredInOrder
  <2>5. Lost' = Lost \cup {next}
    BY <1>4, <1>5, <2>1 DEF Lost
  <2>6. QED
    BY <1>11, <2>1, <2>4, <2>5 DEF Loses, NoRoomFor
<1>12. ASSUME Deliver(next, <<>>)
       PROVE  DeliveryInv' /\ Loses
  <2>1. CASE Hand(next, <<>>)
    BY <1>1, <1>7, <1>8, <1>9, <2>1 DEF Hand
  <2>2. CASE PassOver(next, <<>>)
    <3>1. Len(<<>>) = 0 /\ Append(<<>>, next) = <<next>>
      OBVIOUS
    <3>2. bufferSize \in Nat
      BY DEF DeliveryInv, SubscriberTypeOK
    <3>3. bufferSize > 0 \/ bufferSize = 0
      BY <3>2
    <3>4. CASE bufferSize > 0
      BY <1>10, <2>2, <3>1, <3>4 DEF PassOver
    <3>5. CASE bufferSize = 0
      BY <1>11, <2>2, <3>1, <3>5 DEF PassOver
    <3>6. QED
      BY <3>3, <3>4, <3>5
  <2>3. QED
    BY <1>12, <2>1, <2>2 DEF Deliver
<1>13. QED
  BY <1>6, <1>12 DEF TakeSent

\* A call fails: with it goes the batch that it has gathered, and of the
\* messages taken by the step those that are not counted.
LEMMA DeliveryFails ==
    ASSUME DeliveryInv, method # "none", buffer = <<>>, Return(<<>>), UNCHANGED <<chanVars, optVars, buffer>>,
           next' \in next..(sent + 1), NEW S \in SUBSET (next..(next' - 1)),
           counted' = counted \cup ((next..(next' - 1)) \ S)
    PROVE  DeliveryInv' /\ FailsLosing(S)
<1> DEFINE new == next..(next' - 1)
<1>1. /\ next \in 1..(sent + 1) /\ sent \in 0..MaxMsgs
      /\ 1..(next' - 1) = (1..(next - 1)) \cup new /\ (1..(next - 1)) \cap new = {}
  BY PastGrows
<1>2. counted' = counted \cup (new \ S) /\ S \subseteq new
  OBVIOUS
<1> HIDE DEF new
<1>3. Range(returned) \cup Range(batch) \cup Range(buffer) \cup counted \subseteq 1..(next - 1)
  BY DEF DeliveryInv, SubscriberTypeOK
<1>4. /\ <<>> \in Seq(Nat) /\ Range(<<>>) = {} /\ Ordered(<<>>) /\ Before(returned, <<>>)
  BY ElementsOf DEF Ordered, Before
<1>5. counted \cap Range(returned) = {}
  BY DEF DeliveryInv
<1>6. counted' \cap (Range(returned) \cup Range(<<>>)) = {} /\ counted' \subseteq 1..(next' - 1)
      /\ Range(<<>>) \subseteq 1..(next' - 1)
  BY <1>1, <1>2, <1>3, <1>4, <1>5
<1>7. DeliveryInv'
  BY <1>4, <1>6, DeliveryReturn
<1>8. returned' = returned /\ Range(batch') = {} /\ Range(buffer') = {} /\ Range(buffer) = {} /\ method' = "none"
  <2>1. returned \in Seq(Nat) /\ returned' = returned \o <<>> /\ batch' = <<>> /\ buffer' = <<>>
        /\ method' = "none"
    BY DEF Return, DeliveryInv
  <2>2. returned \o <<>> = returned
    BY <2>1
  <2>3. QED
    BY <1>4, <2>1, <2>2
<1>9. Lost' = Lost \cup Range(batch) \cup S
  <2>1. Range(batch) \cap (Range(returned) \cup Range(buffer) \cup counted) = {}
    BY BatchIsApart
  <2>2. Lost' = (1..(next' - 1)) \ (Range(returned) \cup counted')
    BY <1>8 DEF Lost
  <2>3. Lost = (1..(next - 1)) \ (Range(returned) \cup Range(batch) \cup counted)
    BY <1>8 DEF Lost
  <2>4. QED
    BY <1>1, <1>2, <1>3, <2>1, <2>2, <2>3
<1>10. QED
  BY <1>7, <1>8, <1>9 DEF FailsLosing

\* A message does not decompress: the call fails and the message is lost.
LEMMA DeliveryBroken ==
    ASSUME DeliveryInv, TakeBroken
    PROVE  DeliveryInv' /\ Loses
<1>1. next \in Nat /\ sent \in Nat /\ next <= sent /\ next' = next + 1 /\ next \in Broken \ Filtered
  BY HadIsPast DEF TakeBroken
<1>2. next' \in next..(sent + 1) /\ next..(next' - 1) = {next}
  BY <1>1
<1>3. {next} \in SUBSET (next..(next' - 1)) /\ counted' = counted \cup ((next..(next' - 1)) \ {next})
  BY <1>2 DEF TakeBroken
<1>4. DeliveryInv' /\ FailsLosing({next})
  BY <1>2, <1>3, DeliveryFails DEF TakeBroken
<1>5. QED
  BY <1>1, <1>4 DEF Loses

\* The receiver is told that it missed messages.
LEMMA DeliveryLagged ==
    ASSUME DeliveryInv, TakeLagged
    PROVE  DeliveryInv' /\ Loses
<1>1. next \in Nat /\ sent \in Nat /\ Capacity \in Nat \ {0}
  BY HadIsPast, SubscriberAssumption
<1>2. next' = sent - Capacity + 1 /\ sent - next + 1 > Capacity /\ buffer = <<>>
      /\ counted' = counted \cup (next..(sent - Capacity)) /\ UNCHANGED <<chanVars, buffer, optVars>>
  BY DEF TakeLagged, Lagging
<1>3. next' \in next..(sent + 1) /\ next' - 1 = sent - Capacity
  BY <1>1, <1>2
<1>4. counted' = counted \cup (next..(next' - 1))
  BY <1>2, <1>3
<1>5. CASE Return(<<>>)
  <2>1. {} \in SUBSET (next..(next' - 1)) /\ counted' = counted \cup ((next..(next' - 1)) \ {})
    BY <1>4
  <2>2. DeliveryInv' /\ FailsLosing({})
    BY <1>2, <1>3, <1>5, <2>1, DeliveryFails DEF TakeLagged
  <2>3. QED
    BY <2>2 DEF Loses
<1>6. CASE UNCHANGED <<callVars, returned>>
  BY <1>2, <1>3, <1>4, <1>6, DeliverySkips
<1>7. QED
  BY <1>5, <1>6 DEF TakeLagged

\* Nothing to take: the call returns what it has, or fails.
LEMMA DeliveryEnds ==
    ASSUME DeliveryInv, ReturnEmpty \/ ReturnClosed \/ ReturnTimeout
    PROVE  DeliveryInv' /\ Loses
<1>1. next \in Nat /\ sent \in Nat /\ next \in 1..(sent + 1)
  BY HadIsPast DEF DeliveryInv, SubscriberTypeOK
<1>2. buffer = <<>> /\ UNCHANGED <<chanVars, next, buffer, optVars, counted>>
  BY DEF ReturnEmpty, ReturnClosed, ReturnTimeout, Drained
<1>3. next' \in next..(sent + 1) /\ next..(next' - 1) = {}
  BY <1>1, <1>2
<1>4. CASE Return(<<>>)
  <2>1. {} \in SUBSET (next..(next' - 1)) /\ counted' = counted \cup ((next..(next' - 1)) \ {})
    BY <1>2, <1>3
  <2>2. method # "none"
    BY DEF ReturnEmpty, ReturnClosed, ReturnTimeout, Drained
  <2>3. DeliveryInv' /\ FailsLosing({})
    BY <1>2, <1>3, <1>4, <2>1, <2>2, DeliveryFails
  <2>4. QED
    BY <2>3 DEF Loses
<1>5. CASE Return(batch)
  <2>1. batch \in Seq(Nat) /\ returned \in Seq(Nat) /\ Ordered(batch) /\ Before(returned, batch)
    BY DEF DeliveryInv
  <2>2. Range(returned) \cup Range(batch) \cup Range(buffer) \cup counted \subseteq 1..(next - 1)
    BY DEF DeliveryInv, SubscriberTypeOK
  <2>3. counted' \cap (Range(returned) \cup Range(batch)) = {} /\ counted' \subseteq 1..(next' - 1)
        /\ Range(batch) \subseteq 1..(next' - 1)
    BY <1>2, <2>2 DEF DeliveryInv
  <2>4. DeliveryInv'
    BY <1>2, <1>3, <1>5, <2>1, <2>3, DeliveryReturn
  <2>5. /\ returned' = returned \o batch /\ batch' = <<>>
    BY <1>5 DEF Return
  <2>6. Range(returned') = Range(returned) \cup Range(batch) /\ Range(batch') = {}
    BY <2>1, <2>5, ElementsOf
  <2>7. Lost' = Lost
    BY <1>2, <2>6 DEF Lost
  <2>8. QED
    BY <2>4, <2>7 DEF Loses
<1>6. QED
  BY <1>4, <1>5 DEF ReturnEmpty, ReturnClosed, ReturnTimeout

\* Every step
LEMMA DeliveryStep == DeliveryInv /\ [SubscriberNext]_subscriberVars => DeliveryInv' /\ Loses
<1> SUFFICES ASSUME DeliveryInv, [SubscriberNext]_subscriberVars
             PROVE  DeliveryInv' /\ Loses
  OBVIOUS
<1>1. CASE UNCHANGED subscriberVars
  <2>1. SubscriberTypeOK'
    BY <1>1 DEF subscriberVars, chanVars, optVars, callVars, DeliveryInv, SubscriberTypeOK
  <2>2. QED
    BY <1>1, <2>1, DeliveryQuiet DEF subscriberVars, callVars, DeliveryInv
<1>2. CASE SubscriberNext
  BY <1>2, DeliveryOutside, DeliveryBuffered, DeliverySent, DeliveryBroken, DeliveryLagged, DeliveryEnds
     DEF SubscriberNext, ReceiveStep
<1>3. QED
  BY <1>1, <1>2

\* A new subscriber
LEMMA DeliveryStart == SubscriberInit => DeliveryInv
<1> SUFFICES ASSUME SubscriberInit
             PROVE  DeliveryInv
  OBVIOUS
<1>1. <<>> \in Seq(Nat) /\ Range(<<>>) = {} /\ Len(<<>>) = 0 /\ DOMAIN <<>> = {}
  BY ElementsOf
<1>2. 0 \in 0..MaxMsgs /\ 1 \in 1..1 /\ 0 \in 0..MaxBatch /\ \A n \in BufferSizes : 0 <= n
  BY SubscriberAssumption
<1>3. SubscriberTypeOK
  BY <1>1, <1>2 DEF SubscriberInit, SubscriberTypeOK
<1>4. Ordered(<<>>) /\ Before(<<>>, <<>>)
  BY <1>1 DEF Ordered, Before
<1>5. QED
  BY <1>1, <1>3, <1>4 DEF SubscriberInit, DeliveryInv, DeliveredInOrder, Ordered

(***************************************************************************)
(* For any capacity of the channel, buffer, filters, conditions and mix of *)
(* calls, with publishers between any two steps: the owner of a subscriber *)
(* gets the messages in the order of publication and none twice.  One that *)
(* it does not get is counted as filtered or lagged, or is lost with a     *)
(* call that ends in an error (the batch that recv_batch has gathered, the *)
(* message that process_message does not decompress), or was passed over   *)
(* by recv_with_condition without a buffer (subscriber.rs).                *)
(***************************************************************************)
THEOREM MessagesDelivered == SubscriberSpec => Delivery
<1>1. DeliveryInv => SubscriberTypeOK /\ DeliveredInOrder
  BY DEF DeliveryInv
<1>2. SubscriberSpec => []DeliveryInv
  BY DeliveryStart, DeliveryStep, PTL DEF SubscriberSpec
<1>3. DeliveryInv /\ [SubscriberNext]_subscriberVars
        => [\/ Lost' = Lost
            \/ FailsLosing({})
            \/ next \in Broken \ Filtered /\ FailsLosing({next})
            \/ NoRoomFor(next)]_subscriberVars
  BY DeliveryStep DEF Loses
<1>4. QED
  BY <1>1, <1>2, <1>3, PTL DEF SubscriberSpec, Delivery, OnlyKnownLosses
=============================================================================
