----------------------------- MODULE Subscriber -----------------------------
(***************************************************************************)
(* One subscriber of a channel (Subscriber in src/src/pubsub/subscriber.rs)*)
(* and the tokio broadcast channel it receives from.                       *)
(*                                                                         *)
(* The messages of the channel are numbered in the order of publication.   *)
(* The broadcast channel keeps the last Capacity of them; a receiver that  *)
(* fell behind is told how many it missed.  The subscriber adds filters,   *)
(* a local buffer for the messages that recv_with_condition passes over,   *)
(* and recv_batch.  Publishers run in other threads, so a message may      *)
(* arrive between any two steps of a call.                                 *)
(*                                                                         *)
(* The second half of the module is MultiSubscriber, which receives from   *)
(* several subscribers in turn.                                            *)
(***************************************************************************)
EXTENDS Integers, Sequences, FiniteSetsExt, Functions

CONSTANTS
    MaxMsgs,     \* bound: messages published
    Capacity,    \* of the broadcast channel
    Filtered,    \* messages that should_process_message rejects
    Broken,      \* messages that process_message fails to decompress
    Wanted,      \* messages that satisfy the caller's condition
    BufferSizes, \* values of message_buffer_size, 0 also for no buffer
    MaxBatch,    \* recv_batch is asked for 1..MaxBatch messages
    HasTimeout,  \* options.recv_timeout is set
    LagErrors,   \* values of: options.lag_handling is LagHandling::Error
    Calls        \* the methods that the owner of the subscriber uses

ASSUME SubscriberAssumption ==
    /\ MaxMsgs \in Nat /\ Capacity \in Nat \ {0} /\ MaxBatch \in Nat \ {0}
    /\ BufferSizes \subseteq Nat
    /\ HasTimeout \in BOOLEAN /\ LagErrors \subseteq BOOLEAN
    /\ Calls \subseteq {"recv", "try_recv", "recv_batch", "recv_with_condition"}

VARIABLES
    sent,        \* messages published since the subscription
    open,        \* a sender exists
    next,        \* the receiver's position: the message it takes next
    buffer,      \* message_buffer
    bufferSize,  \* options.message_buffer_size
    lagError,    \* options.lag_handling is LagHandling::Error
    method,      \* the call in progress, "none" between calls
    batch,       \* recv_batch: the messages so far
    want,        \* recv_batch: max_messages
    returned,    \* the messages handed to the owner, in that order
    counted      \* messages in messages_filtered or lagged_messages

chanVars == <<sent, open>>
callVars == <<method, batch, want>>
optVars == <<bufferSize, lagError>>
subscriberVars == <<chanVars, next, buffer, optVars, callVars, returned, counted>>

SubscriberInit ==
    /\ sent = 0 /\ open = TRUE
    /\ next = 1
    /\ buffer = <<>>
    /\ bufferSize \in BufferSizes /\ lagError \in LagErrors
    /\ method = "none" /\ batch = <<>> /\ want = 0
    /\ returned = <<>>
    /\ counted = {}

\* The broker's side: a message, and unsubscribe, which drops the sender.
Send ==
    /\ open /\ sent < MaxMsgs
    /\ sent' = sent + 1
    /\ UNCHANGED <<open, next, buffer, optVars, callVars, returned, counted>>

DropSender ==
    /\ open
    /\ open' = FALSE
    /\ UNCHANGED <<sent, next, buffer, optVars, callVars, returned, counted>>

\* The owner begins a call, or changes the size of the buffer between calls.
Begin ==
    /\ method = "none"
    /\ method' \in Calls
    /\ want' \in IF method' = "recv_batch" THEN 1..MaxBatch ELSE {0}
    /\ UNCHANGED <<chanVars, next, buffer, optVars, batch, returned, counted>>

ResizeBuffer ==
    /\ method = "none"
    /\ bufferSize' \in BufferSizes \ {bufferSize}
    /\ buffer' = SubSeq(buffer, 1, Min({Len(buffer), bufferSize'}))
    /\ UNCHANGED <<chanVars, next, lagError, callVars, returned, counted>>

Return(msgs) ==
    /\ method' = "none" /\ batch' = <<>> /\ want' = 0
    /\ returned' = returned \o msgs

\* The calls that hand the message on: to the owner, or to the batch
Hand(m, rest) ==
    /\ \/ /\ method \in {"recv", "try_recv"} \/ (method = "recv_with_condition" /\ m \in Wanted)
          /\ Return(<<m>>)
       \/ /\ method = "recv_batch"
          /\ IF Len(batch) + 1 < want
             THEN batch' = Append(batch, m) /\ UNCHANGED <<method, want, returned>>
             ELSE Return(Append(batch, m))
    /\ buffer' = rest
    /\ UNCHANGED counted

\* recv_with_condition puts a message that it does not want into the buffer,
\* if there is room, and drops it otherwise, and asks for another.
PassOver(m, rest) ==
    /\ method = "recv_with_condition" /\ m \notin Wanted
    /\ buffer' = IF Len(rest) < bufferSize THEN Append(rest, m) ELSE rest
    /\ UNCHANGED <<callVars, returned, counted>>

\* What the call does with message m that recv or try_recv gave it, when rest
\* is what the buffer then holds.
Deliver(m, rest) == Hand(m, rest) \/ PassOver(m, rest)

\* The buffer comes first.
TakeBuffered ==
    /\ method # "none" /\ buffer # <<>>
    /\ Deliver(Head(buffer), Tail(buffer))
    /\ UNCHANGED <<chanVars, next, optVars>>

Lagging == sent - next + 1 > Capacity

TakeSentFirst ==
    /\ method # "none" /\ next <= sent /\ ~Lagging /\ next \notin Broken \ Filtered
    /\ next' = next + 1
    /\ IF next \in Filtered
       THEN counted' = counted \cup {next} /\ UNCHANGED <<buffer, callVars, returned>>
       ELSE Deliver(next, buffer)
    /\ UNCHANGED <<chanVars, optVars>>

\* One round of the loop in recv_internal and try_recv, on a message
TakeSent ==
    /\ method # "none" /\ buffer = <<>> /\ next <= sent /\ ~Lagging
    /\ next \notin Broken \ Filtered
    /\ next' = next + 1
    /\ IF next \in Filtered
       THEN counted' = counted \cup {next} /\ UNCHANGED <<buffer, callVars, returned>>
       ELSE Deliver(next, <<>>)
    /\ UNCHANGED <<chanVars, optVars>>

\* ... on one that process_message does not accept: every call fails, with the
\* error of a closed channel
TakeBroken ==
    /\ method # "none" /\ buffer = <<>> /\ next <= sent /\ ~Lagging
    /\ next \in Broken \ Filtered
    /\ next' = next + 1
    /\ Return(<<>>)
    /\ UNCHANGED <<chanVars, buffer, optVars, counted>>

\* ... and when told that messages were missed: an error, which a batch does
\* not survive, or the loop goes on with the oldest message there is.
TakeLagged ==
    /\ method # "none" /\ buffer = <<>> /\ Lagging
    /\ next' = sent - Capacity + 1
    /\ counted' = counted \cup (next..(sent - Capacity))
    /\ IF lagError THEN Return(<<>>) ELSE UNCHANGED <<callVars, returned>>
    /\ UNCHANGED <<chanVars, buffer, optVars>>

Drained == method # "none" /\ buffer = <<>> /\ next > sent

\* Nothing to take: try_recv says so, and a batch is complete without more.
\* recv and recv_with_condition wait.
ReturnEmpty ==
    /\ Drained /\ open
    /\ method = "try_recv" \/ batch # <<>>
    /\ Return(batch)
    /\ UNCHANGED <<chanVars, next, buffer, optVars, counted>>

\* Every call fails once the channel is closed and drained.
ReturnClosed ==
    /\ Drained /\ ~open
    /\ Return(<<>>)
    /\ UNCHANGED <<chanVars, next, buffer, optVars, counted>>

\* recv_timeout runs out while recv waits.
ReturnTimeout ==
    /\ Drained /\ open /\ HasTimeout
    /\ method # "try_recv" /\ batch = <<>>
    /\ Return(<<>>)
    /\ UNCHANGED <<chanVars, next, buffer, optVars, counted>>

ReceiveStep ==
    \/ TakeBuffered \/ TakeSent \/ TakeBroken \/ TakeLagged
    \/ ReturnEmpty \/ ReturnClosed \/ ReturnTimeout

SubscriberNext == Send \/ DropSender \/ Begin \/ ResizeBuffer \/ ReceiveStep

SubscriberSpec == SubscriberInit /\ [][SubscriberNext]_subscriberVars

\* The runtime polls a call that can go on.
SubscriberFairSpec == SubscriberSpec /\ WF_subscriberVars(ReceiveStep)

(***************************************************************************)
(* Properties                                                              *)
(***************************************************************************)
\* Positions, buffer and batch stay within the channel's messages, the buffer
\* within message_buffer_size and the batch within max_messages.
SubscriberTypeOK ==
    /\ sent \in 0..MaxMsgs /\ next \in 1..(sent + 1)
    /\ open \in BOOLEAN
    /\ bufferSize \in BufferSizes /\ Len(buffer) <= bufferSize
    /\ method \in Calls \cup {"none"}
    /\ want \in 0..MaxBatch /\ Len(batch) <= want
    /\ Range(returned) \cup Range(batch) \cup Range(buffer) \cup counted \subseteq 1..(next - 1)

\* Whatever mix of recv, try_recv, recv_batch and recv_with_condition is used,
\* the owner gets messages in the order of publication and none twice.
DeliveredInOrder ==
    \A i \in 2..Len(returned) : returned[i - 1] < returned[i]

\* Messages that were taken from the channel and are neither returned, nor
\* held, nor counted in messages_filtered or lagged_messages
Lost == (1..(next - 1)) \ (Range(returned) \cup Range(batch) \cup Range(buffer) \cup counted)

\* The call in progress ends in an error, and besides what it has gathered the
\* messages of S are lost.
FailsLosing(S) ==
    /\ method # "none" /\ method' = "none" /\ returned' = returned
    /\ Lost' = Lost \cup Range(batch) \cup S

\* recv_with_condition has no buffer for the message that it passes over.
NoRoomFor(m) ==
    /\ method = "recv_with_condition" /\ m \notin Wanted /\ bufferSize = 0
    /\ UNCHANGED <<method, returned>>
    /\ Lost' = Lost \cup {m}

\* A message is lost in three ways and no other: a failing call gives up the
\* batch that it has gathered, and a message that it could not decompress; and
\* recv_with_condition without a buffer drops what it does not want.
OnlyKnownLosses ==
    [][\/ Lost' = Lost
       \/ FailsLosing({})
       \/ next \in Broken \ Filtered /\ FailsLosing({next})
       \/ NoRoomFor(next)]_subscriberVars

\* The owner of a subscriber gets the messages in order and once.  Those it does
\* not get are counted in its statistics, or lost with an error that it is
\* returned, or rejected by its own condition (subscriber.rs).
Delivery == [](SubscriberTypeOK /\ DeliveredInOrder) /\ OnlyKnownLosses

\* recv_with_condition returns once a message that satisfies the condition and
\* the filters has been published.
ConditionMet ==
    \A m \in Wanted \ (Filtered \cup Broken) :
        (method = "recv_with_condition" /\ next <= m /\ m <= sent) ~> (method = "none")

-----------------------------------------------------------------------------
(***************************************************************************)
(* MultiSubscriber (src/src/pubsub/subscriber.rs): several subscribers     *)
(* read in turn by one owner, with recv_any and recv_all.  A subscriber is *)
(* reduced to the number of messages that its try_recv would give, capped  *)
(* at MemberCapacity, and whether its channel is open.                     *)
(***************************************************************************)

CONSTANTS
    N,               \* subscribers
    MemberCapacity,  \* messages a channel holds
    MaxTaken         \* bound: calls that are counted against a waiting channel

ASSUME MultiAssumption == N \in Nat \ {0} /\ MemberCapacity \in Nat \ {0} /\ MaxTaken \in Nat

VARIABLES
    pending,   \* subscriber -> messages waiting
    senders,   \* subscriber -> its channel has a sender
    index,     \* round_robin_index
    start,     \* recv_any: start_index
    at,        \* recv_all: the subscriber whose turn it is
    got,       \* recv_all: the subscribers that gave a message
    round,     \* what the owner is doing
    passed     \* subscriber -> messages of others that recv_any returned
               \* since one has been waiting here

multiVars == <<pending, senders, index, start, at, got, round, passed>>

Members == 0..(N - 1)

MultiInit ==
    /\ pending = [i \in Members |-> 0]
    /\ senders = [i \in Members |-> TRUE]
    /\ index = 0 /\ start = 0 /\ at = 0 /\ got = {}
    /\ round = "none"
    /\ passed = [i \in Members |-> 0]

\* The broker's side
Arrive(i) ==
    /\ senders[i] /\ pending[i] < MemberCapacity
    /\ pending' = [pending EXCEPT ![i] = @ + 1]
    /\ UNCHANGED <<senders, index, start, at, got, round, passed>>

CloseMember(i) ==
    /\ senders[i]
    /\ senders' = [senders EXCEPT ![i] = FALSE]
    /\ UNCHANGED <<pending, index, start, at, got, round, passed>>

(***************************************************************************)
(* recv_any                                                                *)
(***************************************************************************)
RecvAny ==
    /\ round = "none"
    /\ round' = "any" /\ start' = index
    /\ UNCHANGED <<pending, senders, index, at, got, passed>>

\* recv_any returns a message of subscriber i.
ReturnFrom(i) ==
    /\ pending' = [pending EXCEPT ![i] = @ - 1]
    /\ passed' = [j \in Members |-> IF j = i \/ pending[j] = 0 THEN 0
                                    ELSE Min({passed[j] + 1, MaxTaken})]
    /\ round' = "none"

TakeSameIndex ==
    /\ round = "any" /\ pending[index] > 0
    /\ ReturnFrom(index)
    /\ UNCHANGED <<senders, index, start, at, got>>

\* try_recv on the subscriber whose turn it is: a message
TakeAny ==
    /\ round = "any" /\ pending[index] > 0
    /\ ReturnFrom(index)
    /\ index' = (index + 1) % N
    /\ UNCHANGED <<senders, start, at, got>>

\* ... or none, and after a full round the first subscriber is waited for
PassAny ==
    /\ round = "any" /\ pending[index] = 0 /\ senders[index]
    /\ index' = (index + 1) % N
    /\ round' = IF index' = start THEN "wait" ELSE "any"
    /\ UNCHANGED <<pending, senders, start, at, got, passed>>

\* ... or the channel is closed and drained, and the call fails.
FailAny ==
    /\ round = "any" /\ pending[index] = 0 /\ ~senders[index]
    /\ round' = "none"
    /\ UNCHANGED <<pending, senders, index, start, at, got, passed>>

\* subscribers[0].recv()
WaitFirst ==
    /\ round = "wait"
    /\ \/ pending[0] > 0 /\ ReturnFrom(0)
       \/ pending[0] = 0 /\ ~senders[0] /\ round' = "none" /\ UNCHANGED <<pending, passed>>
    /\ UNCHANGED <<senders, index, start, at, got>>

(***************************************************************************)
(* recv_all                                                                *)
(***************************************************************************)
RecvAll ==
    /\ round = "none"
    /\ round' = "all" /\ at' = 0 /\ got' = {}
    /\ UNCHANGED <<pending, senders, index, start, passed>>

Reset(i) == [passed EXCEPT ![i] = 0]

\* try_recv on each in turn; a closed channel ends the call, and the messages
\* already taken from the others are dropped with it.
AllStep ==
    /\ round = "all"
    /\ IF at = N
       THEN /\ round' = IF got = {} THEN "wait" ELSE "none"
            /\ UNCHANGED <<pending, at, got, passed>>
       ELSE \/ /\ pending[at] > 0
               /\ pending' = [pending EXCEPT ![at] = @ - 1]
               /\ passed' = Reset(at)
               /\ at' = at + 1 /\ got' = got \cup {at}
               /\ UNCHANGED round
            \/ /\ pending[at] = 0 /\ senders[at]
               /\ at' = at + 1
               /\ UNCHANGED <<pending, got, round, passed>>
            \/ /\ pending[at] = 0 /\ ~senders[at]
               /\ round' = "none"
               /\ UNCHANGED <<pending, at, got, passed>>
    /\ UNCHANGED <<senders, index, start>>

RoundStep == TakeAny \/ PassAny \/ FailAny \/ WaitFirst \/ AllStep

MultiNext ==
    \/ \E i \in Members : Arrive(i) \/ CloseMember(i)
    \/ RecvAny \/ RecvAll
    \/ RoundStep

MultiSpec == MultiInit /\ [][MultiNext]_multiVars

\* The runtime polls a call that can go on.
MultiFairSpec == MultiSpec /\ WF_multiVars(RoundStep)

(***************************************************************************)
(* Properties                                                              *)
(***************************************************************************)
\* The indices stay within the subscribers.
MultiTypeOK ==
    /\ pending \in [Members -> 0..MemberCapacity]
    /\ senders \in [Members -> BOOLEAN]
    /\ index \in Members /\ start \in Members /\ at \in 0..N
    /\ got \subseteq Members
    /\ round \in {"none", "any", "wait", "all"}
    /\ passed \in [Members -> 0..MaxTaken]

\* The round-robin of recv_any is fair, with calls of recv_all in between or
\* not: while a message waits on one channel, at most N messages of the other
\* channels are returned before it, the Nth because of the wait for the first.
FairRotation ==
    \A i \in Members : passed[i] <= N

\* A recv_any in progress returns when a message waits on any of the channels.
AnyReturns ==
    \A i \in Members : (round \in {"any", "wait"} /\ pending[i] > 0) ~> (round = "none")
=============================================================================
