------------------------------- MODULE Broker -------------------------------
(***************************************************************************)
(* The publish/subscribe broker (src/src/pubsub/broker.rs).  Broker is     *)
(* shared by threads and works on two DashMaps, channels and stats.  A     *)
(* lookup keeps its shard of the map locked for reading as long as the     *)
(* result is in use; insert and remove wait until nobody holds the shard.  *)
(* Each channel name is given a shard of its own here.                     *)
(*                                                                         *)
(* The values in channels are senders of tokio broadcast channels, which   *)
(* are numbered in the order in which they are created.  What subscribers  *)
(* do with their messages is the subject of module Subscriber.             *)
(***************************************************************************)
EXTENDS Integers, FiniteSets

CONSTANTS
    Threads,   \* threads that call the broker
    Chans,     \* channel names
    Subs,      \* subscribers
    MaxSubs,   \* config.max_subscribers_per_channel
    MaxGen     \* bound: broadcast channels created

ASSUME BrokerAssumption ==
    IsFiniteSet(Threads) /\ IsFiniteSet(Subs) /\ MaxSubs \in Nat /\ MaxGen \in Nat

VARIABLES
    channels,  \* name -> broadcast channel, 0 when there is none
    stats,     \* name -> subscriber_count, -1 when there is no entry
    idle,      \* names whose last_activity is older than channel_ttl
    rx,        \* subscriber -> the broadcast channel it receives from, or 0
    gens,      \* broadcast channels created
    readers,   \* name -> threads that hold its shard of channels for reading
    calls      \* thread -> the call it is in

mapVars == <<channels, stats, idle>>
brokerVars == <<mapVars, rx, gens, readers, calls>>

NoCall == [fn |-> "none", at |-> "idle", chan |-> {}, gen |-> 0, sub |-> {}]

BrokerInit ==
    /\ channels = [c \in Chans |-> 0]
    /\ stats = [c \in Chans |-> -1]
    /\ idle = {}
    /\ rx = [s \in Subs |-> 0]
    /\ gens = 0
    /\ readers = [c \in Chans |-> {}]
    /\ calls = [t \in Threads |-> NoCall]

ReceiverCount(g) == Cardinality({s \in Subs : rx[s] = g})
The(S) == CHOOSE x \in S : TRUE
Goto(t, at) == calls' = [calls EXCEPT ![t].at = at]
Done(t) == calls' = [calls EXCEPT ![t] = NoCall]
In(t, fn, at) == calls[t].fn = fn /\ calls[t].at = at

(***************************************************************************)
(* subscribe_with_options                                                  *)
(***************************************************************************)
\* The entry of the channel, made together with its statistics if need be; the
\* sender is cloned and the entry released.
SubscribeEntry(t) ==
    \E c \in Chans, s \in Subs :
        /\ calls[t] = NoCall
        /\ rx[s] = 0 /\ \A u \in Threads : calls[u].sub # {s}
        /\ readers[c] = {}
        /\ \/ /\ channels[c] # 0
              /\ UNCHANGED <<mapVars, gens>>
           \/ /\ channels[c] = 0 /\ gens < MaxGen
              /\ gens' = gens + 1
              /\ channels' = [channels EXCEPT ![c] = gens']
              /\ stats' = [stats EXCEPT ![c] = 0]
              /\ idle' = idle \ {c}
        /\ calls' = [calls EXCEPT ![t] = [fn |-> "subscribe", at |-> "check", chan |-> {c},
                                        gen |-> channels'[c], sub |-> {s}]]
        /\ UNCHANGED <<rx, readers>>

\* The limit
SubscribeCheck(t) ==
    /\ In(t, "subscribe", "check")
    /\ IF ReceiverCount(calls[t].gen) >= MaxSubs THEN Done(t) ELSE Goto(t, "receive")
    /\ UNCHANGED <<mapVars, rx, gens, readers>>

SubscribeReceive(t) ==
    /\ In(t, "subscribe", "receive")
    /\ rx' = [rx EXCEPT ![The(calls[t].sub)] = calls[t].gen]
    /\ Goto(t, "stats")
    /\ UNCHANGED <<mapVars, gens, readers>>

SubscribeStats(t) ==
    /\ In(t, "subscribe", "stats")
    /\ stats' = [c \in Chans |-> IF c \in calls[t].chan /\ stats[c] # -1
                                 THEN ReceiverCount(calls[t].gen) ELSE stats[c]]
    /\ Done(t)
    /\ UNCHANGED <<channels, idle, rx, gens, readers>>

\* A subscriber is dropped: its receiver goes, the statistics are not told.
DropSubscriber ==
    /\ \E s \in Subs : /\ rx[s] # 0 /\ \A t \in Threads : calls[t].sub # {s}
                       /\ rx' = [rx EXCEPT ![s] = 0]
    /\ UNCHANGED <<mapVars, gens, readers, calls>>

(***************************************************************************)
(* publish_with_options                                                    *)
(***************************************************************************)
\* The sender is looked up and used while the entry is held.  Without any
\* receiver the send fails and the channel is to be removed: remove waits for
\* the entry that this very call still holds, so no step leaves "remove".
PublishSend(t) ==
    \E c \in Chans :
        LET closed == channels[c] # 0 /\ ReceiverCount(channels[c]) = 0
        IN  /\ calls[t] = NoCall
            /\ readers' = [readers EXCEPT ![c] = IF closed THEN @ \cup {t} ELSE @]
            /\ calls' = [calls EXCEPT ![t] = [NoCall EXCEPT !.fn = "publish", !.chan = {c},
                                                !.at = IF closed THEN "remove" ELSE "stats"]]
            /\ UNCHANGED <<mapVars, rx, gens>>

\* update_channel_stats and update_global_metrics
PublishStats(t) ==
    /\ In(t, "publish", "stats")
    /\ idle' = idle \ calls[t].chan
    /\ Done(t)
    /\ UNCHANGED <<channels, stats, rx, gens, readers>>

(***************************************************************************)
(* unsubscribe and cleanup_inactive_channels                               *)
(***************************************************************************)
UnsubscribeOnly(t) ==
    \E c \in Chans :
        /\ calls[t] = NoCall
        /\ readers[c] = {} /\ channels[c] # 0
        /\ channels' = [channels EXCEPT ![c] = 0]
        /\ UNCHANGED <<stats, idle, rx, gens, readers, calls>>

\* Dropping the sender closes the channel for all its subscribers.
Unsubscribe(t) ==
    \E c \in Chans :
        /\ calls[t] = NoCall
        /\ readers[c] = {} /\ channels[c] # 0
        /\ channels' = [channels EXCEPT ![c] = 0]
        /\ calls' = [calls EXCEPT ![t] = [NoCall EXCEPT !.fn = "unsubscribe", !.at = "stats", !.chan = {c}]]
        /\ UNCHANGED <<stats, idle, rx, gens, readers>>

UnsubscribeStats(t) ==
    /\ In(t, "unsubscribe", "stats")
    /\ stats' = [c \in Chans |-> IF c \in calls[t].chan THEN -1 ELSE stats[c]]
    /\ Done(t)
    /\ UNCHANGED <<channels, idle, rx, gens, readers>>

\* The channels to clean are the ones whose statistics count no subscriber.
CleanupCollect(t) ==
    /\ calls[t] = NoCall
    /\ LET unused == {c \in idle : stats[c] = 0}
       IN  /\ unused # {}
           /\ calls' = [calls EXCEPT ![t] = [NoCall EXCEPT !.fn = "cleanup", !.at = "remove", !.chan = unused]]
    /\ UNCHANGED <<mapVars, rx, gens, readers>>

CleanupRemove(t) ==
    /\ In(t, "cleanup", "remove")
    /\ \E c \in calls[t].chan :
          /\ readers[c] = {}
          /\ IF channels[c] = 0
             THEN /\ calls' = [calls EXCEPT ![t] = IF calls[t].chan = {c} THEN NoCall
                                                 ELSE [calls[t] EXCEPT !.chan = @ \ {c}]]
                  /\ UNCHANGED channels
             ELSE /\ channels' = [channels EXCEPT ![c] = 0]
                  /\ calls' = [calls EXCEPT ![t].at = "stats", ![t].sub = {c}]
    /\ UNCHANGED <<stats, idle, rx, gens, readers>>

CleanupStats(t) ==
    /\ In(t, "cleanup", "stats")
    /\ stats' = [stats EXCEPT ![The(calls[t].sub)] = -1]
    /\ calls' = [calls EXCEPT ![t] = IF calls[t].chan = calls[t].sub THEN NoCall
                                   ELSE [calls[t] EXCEPT !.at = "remove", !.chan = @ \ calls[t].sub, !.sub = {}]]
    /\ UNCHANGED <<channels, idle, rx, gens, readers>>

\* channel_ttl goes by without a message.
Tick ==
    /\ \E c \in Chans : stats[c] # -1 /\ c \notin idle /\ idle' = idle \cup {c}
    /\ UNCHANGED <<channels, stats, rx, gens, readers, calls>>

BrokerStep(t) ==
    \/ SubscribeCheck(t) \/ SubscribeReceive(t) \/ SubscribeStats(t)
    \/ PublishStats(t)
    \/ UnsubscribeStats(t) \/ CleanupRemove(t) \/ CleanupStats(t)

BrokerNext ==
    \/ \E t \in Threads : \/ SubscribeEntry(t) \/ PublishSend(t) \/ Unsubscribe(t)
                          \/ CleanupCollect(t) \/ BrokerStep(t)
    \/ DropSubscriber
    \/ Tick

BrokerSpec == BrokerInit /\ [][BrokerNext]_brokerVars

\* A thread carries on with its call, and cleanup runs again and again.
BrokerFairSpec ==
    /\ BrokerSpec
    /\ \A t \in Threads : WF_brokerVars(BrokerStep(t)) /\ WF_brokerVars(CleanupCollect(t))
    /\ WF_brokerVars(Tick)

(***************************************************************************)
(* Properties                                                              *)
(***************************************************************************)
\* The two tables, the receivers and the calls have their types; no entry of
\* the statistics counts more subscribers than there are.
BrokerTypeOK ==
    /\ channels \in [Chans -> 0..gens]
    /\ stats \in [Chans -> -1..Cardinality(Subs)]
    /\ idle \subseteq Chans
    /\ rx \in [Subs -> 0..gens]
    /\ gens \in 0..MaxGen
    /\ readers \in [Chans -> SUBSET Threads]
    /\ \A t \in Threads : calls[t].chan \subseteq Chans /\ calls[t].gen \in 0..gens

Removing(c) == \E t \in Threads : calls[t].fn \in {"unsubscribe", "cleanup"} /\ c \in calls[t].chan

\* subscribe_with_options, unsubscribe and cleanup_inactive_channels leave no
\* statistics behind for a channel that is gone, however they interleave: a
\* channel that is only in the statistics is being removed at that moment.
NoStatsWithoutChannel ==
    \A c \in Chans : channels[c] = 0 /\ stats[c] # -1 => Removing(c)

\* The limit is checked before the receiver is created, so a channel can have
\* more than max_subscribers_per_channel subscribers, but never more than one
\* for each further thread that is subscribing.
LimitOverrun ==
    \A g \in 1..gens : ReceiverCount(g) <= MaxSubs + Cardinality(Threads) - 1

\* However calls interleave, statistics outlive their channel by no more than
\* the call that removes it, and the limit of subscribers is overrun by no more
\* than the threads at work (broker.rs).  The other way round the tables may
\* drift apart for good: a channel made anew while the old one is removed can
\* lose its statistics (broker.rs:332), and no cleanup finds it.
BrokerSound == BrokerTypeOK /\ NoStatsWithoutChannel /\ LimitOverrun

\* A channel has no more than max_subscribers_per_channel subscribers.
SubscriberLimit ==
    \A g \in 1..gens : ReceiverCount(g) <= MaxSubs

\* When no call is in progress, every channel has its statistics.
ChannelHasStats ==
    (\A t \in Threads : calls[t] = NoCall) => \A c \in Chans : channels[c] # 0 => stats[c] # -1

\* publish_with_options returns.
PublishReturns ==
    \A t \in Threads : (calls[t].fn = "publish") ~> (calls[t].fn # "publish")

\* A channel that lost its last subscriber, and has no traffic, is removed by
\* a later cleanup_inactive_channels, unless it finds a subscriber or a
\* publisher holds it.
EmptyChannelRemoved ==
    \A c \in Chans :
        (channels[c] # 0 /\ ReceiverCount(channels[c]) = 0)
            ~> (channels[c] = 0 \/ ReceiverCount(channels[c]) # 0 \/ readers[c] # {})
=============================================================================
