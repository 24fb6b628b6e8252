------------------------------- MODULE Timed -------------------------------
(***************************************************************************)
(* Two structures that read a clock: ExpireMap (src/src/database/expire),  *)
(* deadlines by key with a heap of deadlines that is cleaned lazily, and   *)
(* Stream (src/src/database/stream), entries under ids of the wall clock   *)
(* and a sequence number.  Instant never goes back; the wall clock may.    *)
(* Equal entries of the heap act as one, so the heap is a set.             *)
(***************************************************************************)
EXTENDS Integers, Sequences

CONSTANTS
    TimedKeys, Ttls,
    MaxNow,         \* bound on the monotonic clock
    MaxWall,        \* bound on the wall clock
    MaxAdded        \* bound on the entries of the stream

ASSUME TimedAssumption == Ttls \subseteq Nat /\ MaxWall \in Nat

VARIABLES
    now,
    deadlines,      \* key -> Instant
    queue,          \* {<<Instant, key>>}
    lasts,          \* key -> deadline of its last set that was not removed
    wall,
    steady,         \* the wall clock has not gone back
    stream,         \* ids <<ms_time, sequence>>, in the order added
    nextSequence

expireVars == <<now, deadlines, queue, lasts>>
streamVars == <<wall, steady, stream, nextSequence>>

SetKey(f, key, value) == [k \in DOMAIN f \cup {key} |-> IF k = key THEN value ELSE f[k]]
ForgetKeys(f, keys) == [k \in DOMAIN f \ keys |-> f[k]]

ExpireInit == now = 0 /\ deadlines = [k \in {} |-> 0] /\ queue = {} /\ lasts = [k \in {} |-> 0]

ClockTicks ==
    /\ now < MaxNow
    /\ now' = now + 1
    /\ UNCHANGED <<deadlines, queue, lasts>>

ExpireSet(key, ttl) ==
    /\ deadlines' = SetKey(deadlines, key, now + ttl)
    /\ queue' = queue \cup {<<now + ttl, key>>}
    /\ lasts' = SetKey(lasts, key, now + ttl)
    /\ UNCHANGED now

ExpireRemove(key) ==
    /\ deadlines' = ForgetKeys(deadlines, {key})
    /\ lasts' = ForgetKeys(lasts, {key})
    /\ UNCHANGED <<now, queue>>

\* Mutant of Overdue: a popped entry drops its key, whatever its deadline is now.
OverdueUnchecked == {e[2] : e \in {q \in queue : q[1] <= now}} \cap DOMAIN deadlines

\* The keys purge removes: those of the entries it pops whose deadline, which
\* may have been set anew, is past too
Overdue == {k \in {e[2] : e \in {q \in queue : q[1] <= now}} \cap DOMAIN deadlines : deadlines[k] <= now}

\* purge, which get begins with
ExpirePurge ==
    /\ deadlines' = ForgetKeys(deadlines, Overdue)
    /\ queue' = {e \in queue : e[1] > now}
    /\ UNCHANGED <<now, lasts>>

ExpireGet(key) == key \in DOMAIN ForgetKeys(deadlines, Overdue)

--------------------------------------------------------------------------------

StreamInit == wall = 0 /\ steady = TRUE /\ stream = <<>> /\ nextSequence = 1

WallMoves(t) ==
    /\ wall' = t
    /\ steady' = (steady /\ t >= wall)
    /\ UNCHANGED <<stream, nextSequence>>

StreamAdd ==
    /\ Len(stream) < MaxAdded
    /\ stream' = Append(stream, <<wall, nextSequence>>)
    /\ nextSequence' = nextSequence + 1
    /\ UNCHANGED <<wall, steady>>

ExpireNext ==
    \/ ClockTicks
    \/ \E k \in TimedKeys, t \in Ttls : ExpireSet(k, t)
    \/ \E k \in TimedKeys : ExpireRemove(k)
    \/ ExpirePurge

StreamNext ==
    \/ \E t \in 0..MaxWall : WallMoves(t)
    \/ StreamAdd

ExpireSpec == ExpireInit /\ [][ExpireNext]_expireVars
StreamSpec == StreamInit /\ [][StreamNext]_streamVars

--------------------------------------------------------------------------------
(***************************************************************************)
(* get answers exactly whether the TTL of the last set of the key, not     *)
(* removed since, has not run out: entries left in the heap by an earlier  *)
(* set or by remove neither drop the key early nor keep it.                *)
(***************************************************************************)
ExpiryExact ==
    \A k \in TimedKeys : ExpireGet(k) <=> k \in DOMAIN lasts /\ lasts[k] > now

(***************************************************************************)
(* No two entries of a stream have the same id, also when the wall clock   *)
(* goes back; while it does not, ids only grow and the entries of a range  *)
(* are the ones between its ends in the order they were added.             *)
(***************************************************************************)
StreamIds ==
    LET before(a, b) == a[1] < b[1] \/ (a[1] = b[1] /\ a[2] < b[2])
    IN  \A i, j \in DOMAIN stream : i < j =>
            /\ stream[i] # stream[j]
            /\ steady => before(stream[i], stream[j])

(***************************************************************************)
(* What the two structures say of time is right, although the one forgets  *)
(* heap entries lazily and the other trusts a clock that may go back.      *)
(***************************************************************************)
TimedExact == ExpiryExact /\ StreamIds
=============================================================================
