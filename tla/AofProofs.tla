----------------------------- MODULE AofProofs -----------------------------
(***************************************************************************)
(* The append-only file for any keys, values and bounds: a restart before  *)
(* any compaction restores the index, whatever snapshots were taken; and a *)
(* file that has been through crashes, decay, rewrites and repairs says    *)
(* what the records that reached it whole say.                             *)
(***************************************************************************)
EXTENDS AofLog, Compaction, ReplayTheorems, FiniteSetTheorems

(***************************************************************************)
(* Snapshots and the log                                                   *)
(***************************************************************************)
Entries == [key : Keys, val : Values \cup {None}]

\* What recovery starts from before it replays the log.
Loaded == IF enabled THEN LatestSnapshot ELSE Nothing

\* How far the parts of the program are, and what a process leaves behind.
Stages ==
    /\ DOMAIN index = Keys
    /\ client = <<>> \/ \E r \in Entries : client = <<r>>
    /\ unlogged = <<>> \/ \E r \in Entries : unlogged = <<r>>
    /\ compactions \in Nat
    /\ compactions = 0 => log \in LogType(Entries) /\ linked /\ legacy = -1
    /\ ~ up => log.buf = <<>>
    /\ ~ up \/ stopping => client = <<>> /\ unlogged = <<>> /\ snapshot.at = "idle"

\* A snapshot under way will be the latest one.
Names ==
    /\ clock \in Nat \ {0}
    /\ DOMAIN snaps \subseteq 1 .. clock
    /\ DOMAIN snapshot = {"at", "ts", "todo", "data"}
    /\ snapshot.at = "collect" =>
          /\ enabled
          /\ snapshot.ts \in 1 .. clock
          /\ \A t \in DOMAIN snaps : t <= snapshot.ts

(***************************************************************************)
(* Key by key: the log decides for the keys it has records about, also     *)
(* when a snapshot has newer or older values of them; the latest snapshot  *)
(* has every other key as the index has it, and so has the snapshot under  *)
(* way, in the shards it has read.                                         *)
(***************************************************************************)
KeySafe(k) ==
    IF About(FullLog, k) # {}
    THEN Replay(FullLog)[k] = Acknowledged[k]
    ELSE /\ index[k] = Loaded[k]
         /\ About(client, k) = {}
         /\ snapshot.at = "collect" /\ ShardOf[k] \notin snapshot.todo
                => snapshot.data[k] = index[k]

CompactionInv ==
    /\ Stages /\ Names
    /\ up /\ compactions = 0 => \A k \in Keys : KeySafe(k)

\* What is logged is a sequence of records.
LEMMA LoggedType ==
    ASSUME NEW R, NEW l \in LogType(R)
    PROVE  Logged(l) \in Seq(R)
  BY ConcatProperties DEF Logged, LogType

\* A record more: which keys the log is about.
LEMMA AboutOne ==
    ASSUME NEW R, NEW s \in Seq(R), NEW r \in R, NEW k
    PROVE  About(s \o <<r>>, k) = {} <=> About(s, k) = {} /\ r.key # k
<1>1. /\ DOMAIN s = 1 .. Len(s) /\ Len(s) \in Nat
      /\ DOMAIN (s \o <<r>>) = 1 .. Len(s) + 1
      /\ \A i \in 1 .. Len(s) : (s \o <<r>>)[i] = s[i]
      /\ (s \o <<r>>)[Len(s) + 1] = r
  OBVIOUS
<1>2. \A i \in 1 .. Len(s) + 1 : i \in 1 .. Len(s) \/ i = Len(s) + 1
  BY <1>1
<1>3. \A i \in 1 .. Len(s) : i \in 1 .. Len(s) + 1
  BY <1>1
<1>4. Len(s) + 1 \in 1 .. Len(s) + 1
  BY <1>1
<1>5. QED
  BY <1>1, <1>2, <1>3, <1>4, Zenon DEF About

\* Nothing and one record replayed onto a map.
LEMMA OntoNothing ==
    ASSUME NEW b, NEW k \in Keys
    PROVE  About(<<>>, k) = {} /\ Onto(b, <<>>)[k] = b[k]
  BY DEF About, Onto

\* One record replayed onto a map decides for its key.
LEMMA OntoOne ==
    ASSUME NEW b, NEW r \in Entries, NEW k \in Keys
    PROVE  Onto(b, <<r>>)[k] = IF r.key = k THEN r.val ELSE b[k]
<1>1. DOMAIN <<r>> = {1} /\ <<r>>[1] = r
  OBVIOUS
<1>2. About(<<r>>, k) = IF r.key = k THEN {1} ELSE {}
  BY <1>1 DEF About
<1>3. Latest({1}) = 1
  BY DEF Latest
<1>4. r.key = k => Replay(<<r>>)[k] = r.val
  BY <1>1, <1>2, <1>3 DEF Replay
<1>5. QED
  BY <1>2, <1>4 DEF Onto

\* The initial state of a new store.
LEMMA CompactionStart == Init => CompactionInv
<1> SUFFICES ASSUME Init PROVE CompactionInv
  OBVIOUS
<1>1. Stages
  BY DEF Init, Stages, Nothing, NewLog, LogType, NoSnapshot
<1>2. Names
  BY DEF Init, Names, NoSnapshot
<1>3. ASSUME NEW k \in Keys PROVE KeySafe(k)
  <2>1. FullLog = <<>>
    BY DEF Init, NewLog, Logged, FullLog
  <2>2. DOMAIN snaps = {} /\ snapshot.at = "idle" /\ client = <<>>
    BY DEF Init, NoSnapshot
  <2>3. QED
    BY <2>1, <2>2, OntoNothing, Zenon DEF KeySafe, Init, Loaded, LatestSnapshot, Nothing
<1>4. QED
  BY <1>1, <1>2, <1>3 DEF CompactionInv

\* A step that changes neither the data nor the snapshots.
LEMMA CompactionQuiet ==
    ASSUME CompactionInv, up' = up, enabled' = enabled, index' = index, log' = log,
           client' = client, unlogged' = unlogged, snaps' = snaps, snapshot' = snapshot,
           clock' \in Nat, clock <= clock',
           compactions' \in Nat,
           compactions' = 0 => compactions = 0 /\ linked' = linked /\ legacy' = legacy,
           stopping' => stopping \/ (client = <<>> /\ unlogged = <<>> /\ snapshot.at = "idle")
    PROVE  CompactionInv'
<1>1. Stages'
  BY DEF CompactionInv, Stages
<1>2. Names'
  BY DEF CompactionInv, Names
<1>3. ASSUME NEW k \in Keys, KeySafe(k) PROVE KeySafe(k)'
  BY <1>3 DEF KeySafe, FullLog, Acknowledged, Loaded, LatestSnapshot
<1>4. QED
  BY <1>1, <1>2, <1>3 DEF CompactionInv

\* The log, with the DEL to come, when no operation is under way.
LEMMA FullLogIs ==
    ASSUME CompactionInv, compactions = 0, unlogged = <<>>
    PROVE  FullLog = Logged(log) /\ FullLog \in Seq(Entries)
<1>1. Logged(log) \in Seq(Entries)
  BY LoggedType DEF CompactionInv, Stages
<1>2. QED
  BY <1>1, ConcatEmptySeq DEF FullLog

\* A key when the client starts an operation, by writing the log or the index.
LEMMA KeyWritten ==
    ASSUME NEW r \in Entries, NEW k \in Keys, KeySafe(k), client = <<>>,
           FullLog \in Seq(Entries), FullLog' = FullLog \o <<r>>,
           (Acknowledged[k])' = IF r.key = k THEN r.val ELSE index[k],
           r.key # k => index'[k] = index[k] /\ About(client', k) = {},
           Loaded' = Loaded, snapshot' = snapshot
    PROVE  KeySafe(k)'
<1> DEFINE L == FullLog
<1> HIDE DEF L
<1>1. L \in Seq(Entries) /\ FullLog' = L \o <<r>>
  BY DEF L
<1>2. About(L \o <<r>>, k) = {} <=> About(L, k) = {} /\ r.key # k
  BY <1>1, AboutOne, SMTT(30)
<1>3. Replay(L \o <<r>>)[k] = IF r.key = k THEN r.val ELSE Replay(L)[k]
  BY <1>1, ReplayOne
<1>4. About(FullLog', k) = {} <=> About(L, k) = {} /\ r.key # k
  BY <1>1, <1>2, Zenon
<1>5. Replay(FullLog')[k] = IF r.key = k THEN r.val ELSE Replay(L)[k]
  BY <1>1, <1>3, Zenon
<1>6. Acknowledged[k] = index[k]
  BY OntoNothing DEF Acknowledged
<1>7. CASE About(FullLog', k) # {}
  BY <1>4, <1>5, <1>6, <1>7 DEF KeySafe, L
<1>8. CASE About(FullLog', k) = {}
  BY <1>4, <1>8 DEF KeySafe, L
<1>9. QED
  BY <1>7, <1>8

\* The client logs a SET.
LEMMA CompactionWrite == CompactionInv /\ Write => CompactionInv'
<1> SUFFICES ASSUME CompactionInv, Write PROVE CompactionInv'
  OBVIOUS
<1>1. PICK r \in Entries : log' \in Appended(log, r) /\ client' = <<r>>
  BY DEF Write, Entries, SetRec
<1>2. /\ up /\ up' = up /\ client = <<>> /\ ~ stopping /\ stopping' = stopping
      /\ unlogged = <<>> /\ unlogged' = <<>>
      /\ index' = index /\ enabled' = enabled /\ snaps' = snaps /\ snapshot' = snapshot
      /\ clock' = clock /\ compactions' = compactions /\ linked' = linked /\ legacy' = legacy
  BY DEF Write, Starts
<1>3. ASSUME compactions = 0
      PROVE  /\ log' \in LogType(Entries)
             /\ FullLog \in Seq(Entries) /\ FullLog' = FullLog \o <<r>>
  <2>1. log \in LogType(Entries)
    BY <1>3 DEF CompactionInv, Stages
  <2>2. log' \in LogType(Entries) /\ Logged(log') = Logged(log) \o <<r>>
    BY <1>1, <2>1, AppendedLogs
  <2>3. FullLog = Logged(log) /\ FullLog \in Seq(Entries)
    BY <1>2, <1>3, FullLogIs
  <2>4. Logged(log') \o <<>> = Logged(log')
    BY <2>2, LoggedType, ConcatEmptySeq
  <2>5. QED
    BY <1>2, <2>2, <2>3, <2>4 DEF FullLog
<1>4. Stages'
  BY <1>1, <1>2, <1>3 DEF CompactionInv, Stages
<1>5. Names'
  BY <1>2 DEF CompactionInv, Names
<1>6. ASSUME compactions = 0, NEW k \in Keys PROVE KeySafe(k)'
  <2>1. KeySafe(k)
    BY <1>2, <1>6 DEF CompactionInv
  <2>2. (Acknowledged[k])' = IF r.key = k THEN r.val ELSE index[k]
    BY <1>1, <1>2, OntoOne DEF Acknowledged
  <2>3. r.key # k => About(client', k) = {}
    BY <1>1 DEF About
  <2>4. Loaded' = Loaded
    BY <1>2 DEF Loaded, LatestSnapshot
  <2>5. QED
    BY <1>2, <1>3, <1>6, <2>1, <2>2, <2>3, <2>4, KeyWritten
<1>7. QED
  BY <1>2, <1>4, <1>5, <1>6 DEF CompactionInv

\* The client removes a key from the index.
LEMMA CompactionDelete == CompactionInv /\ Delete => CompactionInv'
<1> SUFFICES ASSUME CompactionInv, Delete PROVE CompactionInv'
  OBVIOUS
<1>1. PICK d \in Keys : index' = [index EXCEPT ![d] = None] /\ unlogged' = <<DelRec(d)>>
  BY Zenon DEF Delete
<1> DEFINE r == DelRec(d)
<1>2. r \in Entries /\ r.key = d /\ r.val = None
  BY DEF DelRec, Entries
<1> HIDE DEF r
<1>3. /\ up /\ up' = up /\ client = <<>> /\ client' = <<>> /\ ~ stopping /\ stopping' = stopping
      /\ unlogged = <<>> /\ unlogged' = <<r>>
      /\ enabled' = enabled /\ snaps' = snaps /\ snapshot' = snapshot /\ log' = log
      /\ clock' = clock /\ compactions' = compactions /\ linked' = linked /\ legacy' = legacy
  BY <1>1 DEF Delete, Starts, logVars, r
<1>4. Stages'
  BY <1>1, <1>2, <1>3 DEF CompactionInv, Stages
<1>5. Names'
  BY <1>3 DEF CompactionInv, Names
<1>6. ASSUME compactions = 0, NEW k \in Keys PROVE KeySafe(k)'
  <2>1. KeySafe(k)
    BY <1>3, <1>6 DEF CompactionInv
  <2>2. FullLog \in Seq(Entries) /\ FullLog' = FullLog \o <<r>>
    BY <1>3, <1>6, FullLogIs DEF FullLog
  <2>3. index'[k] = IF r.key = k THEN r.val ELSE index[k]
    BY <1>1, <1>2 DEF CompactionInv, Stages
  <2>4. (Acknowledged[k])' = index'[k] /\ About(client', k) = {}
    BY <1>3, OntoNothing DEF Acknowledged
  <2>5. Loaded' = Loaded
    BY <1>3 DEF Loaded, LatestSnapshot
  <2>6. QED
    BY <1>2, <1>3, <2>1, <2>2, <2>3, <2>4, <2>5, KeyWritten
<1>7. QED
  BY <1>3, <1>4, <1>5, <1>6 DEF CompactionInv

\* The client logs the DEL.
LEMMA CompactionLogDelete == CompactionInv /\ LogDelete => CompactionInv'
<1> SUFFICES ASSUME CompactionInv, LogDelete PROVE CompactionInv'
  OBVIOUS
<1>1. /\ up /\ up' = up /\ client' = client /\ stopping' = stopping
      /\ unlogged # <<>> /\ unlogged' = <<>> /\ log' \in Appended(log, Head(unlogged))
      /\ index' = index /\ enabled' = enabled /\ snaps' = snaps /\ snapshot' = snapshot
      /\ clock' = clock /\ compactions' = compactions /\ linked' = linked /\ legacy' = legacy
  BY DEF LogDelete
<1>2. PICK r \in Entries : unlogged = <<r>>
  BY <1>1 DEF CompactionInv, Stages
<1>3. ASSUME compactions = 0 PROVE log' \in LogType(Entries) /\ FullLog' = FullLog
  <2>1. log \in LogType(Entries) /\ Head(unlogged) = r
    BY <1>2, <1>3 DEF CompactionInv, Stages
  <2>2. log' \in LogType(Entries) /\ Logged(log') = Logged(log) \o <<r>>
    BY <1>1, <2>1, AppendedLogs
  <2>3. Logged(log') \o <<>> = Logged(log')
    BY <2>2, LoggedType, ConcatEmptySeq
  <2>4. QED
    BY <1>1, <1>2, <2>2, <2>3 DEF FullLog
<1>4. Stages'
  BY <1>1, <1>3 DEF CompactionInv, Stages
<1>5. Names'
  BY <1>1 DEF CompactionInv, Names
<1>6. ASSUME compactions = 0, NEW k \in Keys PROVE KeySafe(k)'
  <2>1. KeySafe(k)
    BY <1>1, <1>6 DEF CompactionInv
  <2>2. FullLog' = FullLog /\ Acknowledged' = Acknowledged /\ Loaded' = Loaded
    BY <1>1, <1>3, <1>6 DEF Acknowledged, Loaded, LatestSnapshot
  <2>3. QED
    BY <1>1, <2>1, <2>2 DEF KeySafe
<1>7. QED
  BY <1>1, <1>4, <1>5, <1>6 DEF CompactionInv

\* The client applies what it logged.
LEMMA CompactionApply == CompactionInv /\ Apply => CompactionInv'
<1> SUFFICES ASSUME CompactionInv, Apply PROVE CompactionInv'
  OBVIOUS
<1>1. /\ up /\ up' = up /\ client # <<>> /\ client' = <<>> /\ stopping' = stopping
      /\ index' = Onto(index, client) /\ enabled' = enabled /\ snaps' = snaps
      /\ snapshot' = snapshot /\ clock' = clock /\ compactions' = compactions
      /\ log' = log /\ linked' = linked /\ legacy' = legacy /\ unlogged' = unlogged
  BY DEF Apply, logVars
<1>2. Stages' /\ Names'
  BY <1>1 DEF CompactionInv, Stages, Names, Onto
<1>3. ASSUME compactions = 0, NEW k \in Keys PROVE KeySafe(k)'
  <2>1. KeySafe(k)
    BY <1>1, <1>3 DEF CompactionInv
  <2>2. index'[k] = Acknowledged[k] /\ About(client', k) = {}
        /\ (Acknowledged[k])' = index'[k]
    BY <1>1, OntoNothing DEF Acknowledged
  <2>3. About(client, k) = {} => index'[k] = index[k]
    BY <1>1 DEF Onto
  <2>4. Loaded' = Loaded /\ FullLog' = FullLog
    BY <1>1 DEF Loaded, LatestSnapshot, FullLog
  <2>5. QED
    BY <1>1, <2>1, <2>2, <2>3, <2>4 DEF KeySafe
<1>4. QED
  BY <1>1, <1>2, <1>3 DEF CompactionInv

\* A snapshot begins: it has read no shard yet.
LEMMA CompactionBegin == CompactionInv /\ SnapshotBegin => CompactionInv'
<1> SUFFICES ASSUME CompactionInv, SnapshotBegin PROVE CompactionInv'
  OBVIOUS
<1>1. /\ up /\ enabled /\ ~ stopping /\ up' = up /\ enabled' = enabled /\ stopping' = stopping
      /\ snapshot' = [at |-> "collect", ts |-> clock, todo |-> Shards, data |-> Nothing]
      /\ index' = index /\ client' = client /\ snaps' = snaps /\ clock' = clock
      /\ compactions' = compactions /\ log' = log /\ linked' = linked /\ legacy' = legacy
      /\ unlogged' = unlogged
  BY DEF SnapshotBegin, logVars, underway
<1>2. Stages'
  BY <1>1 DEF CompactionInv, Stages
<1>3. Names'
  BY <1>1 DEF CompactionInv, Names
<1>4. ASSUME NEW k \in Keys, KeySafe(k) PROVE KeySafe(k)'
  <2>1. ShardOf[k] \in snapshot'.todo
    BY <1>1 DEF Shards
  <2>2. Loaded' = Loaded /\ Acknowledged' = Acknowledged /\ FullLog' = FullLog
    BY <1>1 DEF Loaded, LatestSnapshot, Acknowledged, FullLog
  <2>3. QED
    BY <1>1, <1>4, <2>1, <2>2 DEF KeySafe
<1>5. QED
  BY <1>1, <1>2, <1>3, <1>4 DEF CompactionInv

\* The snapshot reads a shard.
LEMMA CompactionShard == CompactionInv /\ SnapshotShard => CompactionInv'
<1> SUFFICES ASSUME CompactionInv, SnapshotShard PROVE CompactionInv'
  OBVIOUS
<1> DEFINE s == Min(snapshot.todo)
<1>1. /\ up /\ snapshot.at = "collect" /\ up' = up /\ enabled' = enabled /\ stopping' = stopping
      /\ snapshot' = [snapshot EXCEPT !.todo = @ \ {s}, !.data = WithShard(@, s)]
      /\ index' = index /\ client' = client /\ snaps' = snaps /\ clock' = clock
      /\ compactions' = compactions /\ log' = log /\ linked' = linked /\ legacy' = legacy
      /\ unlogged' = unlogged
  BY DEF SnapshotShard, logVars, underway
<1> HIDE DEF s
<1>2. /\ snapshot'.at = snapshot.at /\ snapshot'.ts = snapshot.ts
      /\ snapshot'.todo = snapshot.todo \ {s} /\ snapshot'.data = WithShard(snapshot.data, s)
      /\ DOMAIN snapshot' = DOMAIN snapshot
  BY <1>1 DEF CompactionInv, Names
<1>3. Stages'
  BY <1>1, <1>2 DEF CompactionInv, Stages
<1>4. Names'
  BY <1>1, <1>2 DEF CompactionInv, Names
<1>5. ASSUME NEW k \in Keys, KeySafe(k) PROVE KeySafe(k)'
  <2>1. snapshot'.data[k] = IF ShardOf[k] = s THEN index[k] ELSE snapshot.data[k]
    BY <1>2 DEF WithShard
  <2>2. Loaded' = Loaded /\ Acknowledged' = Acknowledged /\ FullLog' = FullLog
    BY <1>1 DEF Loaded, LatestSnapshot, Acknowledged, FullLog
  <2>3. QED
    BY <1>1, <1>2, <1>5, <2>1, <2>2 DEF KeySafe
<1>6. QED
  BY <1>1, <1>3, <1>4, <1>5 DEF CompactionInv

\* cleanup_old_snapshots keeps the newest name, which stays the newest.
LEMMA NewestKept ==
    ASSUME NEW N, NEW n, N \subseteq Nat, n \in N, \A t \in N : t <= n
    PROVE  n \in Kept(N) /\ Kept(N) \subseteq N /\ Max(Kept(N)) = n
<1>1. {u \in N : u > n} = {}
  <2>1. \A t \in N : t \in Nat /\ n \in Nat /\ t <= n
    OBVIOUS
  <2>2. \A t \in N : ~ (t > n)
    BY <2>1
  <2>3. QED
    BY <2>2, Zenon
<1>2. Cardinality({u \in N : u > n}) = 0
  BY <1>1, FS_EmptySet
<1>3. n \in Kept(N) /\ Kept(N) \subseteq N
  BY <1>2, RetentionAssumption DEF Kept
<1> DEFINE K == Kept(N)
<1> HIDE DEF K
<1>4. \A x \in K : (\A y \in K : x >= y) => x = n
  BY <1>3 DEF K
<1>5. \A y \in K : n >= y
  BY <1>3 DEF K
<1>6. n \in K
  BY <1>3 DEF K
<1>7. Max(K) \in K /\ \A y \in K : Max(K) >= y
  BY <1>5, <1>6, Zenon DEF Max
<1>8. QED
  BY <1>3, <1>4, <1>7, Zenon DEF K

\* The snapshot is written, and older ones are removed.
LEMMA CompactionPersist == CompactionInv /\ SnapshotPersist => CompactionInv'
<1> SUFFICES ASSUME CompactionInv, SnapshotPersist PROVE CompactionInv'
  OBVIOUS
<1> DEFINE N == DOMAIN snaps \cup {snapshot.ts}
<1>1. /\ up /\ snapshot.at = "collect" /\ snapshot.todo = {}
      /\ up' = up /\ enabled' = enabled /\ stopping' = stopping
      /\ snaps' = [t \in Kept(N) |-> IF t = snapshot.ts THEN snapshot.data ELSE snaps[t]]
      /\ snapshot' = NoSnapshot
      /\ index' = index /\ client' = client /\ clock' = clock
      /\ compactions' = compactions /\ log' = log /\ linked' = linked /\ legacy' = legacy
      /\ unlogged' = unlogged
  BY DEF SnapshotPersist, logVars, underway
<1>2. /\ N \subseteq 1 .. clock /\ N \subseteq Nat /\ snapshot.ts \in N
      /\ \A t \in N : t <= snapshot.ts
      /\ enabled /\ clock \in Nat \ {0}
  BY <1>1 DEF CompactionInv, Names
<1> HIDE DEF N
<1>3. snapshot.ts \in Kept(N) /\ Kept(N) \subseteq N /\ Max(Kept(N)) = snapshot.ts
  BY <1>2, NewestKept, Zenon
<1>4. Loaded' = snapshot.data
  BY <1>1, <1>2, <1>3 DEF Loaded, LatestSnapshot
<1>5. Stages'
  BY <1>1 DEF CompactionInv, Stages, NoSnapshot
<1>6. Names'
  BY <1>1, <1>2, <1>3, ZenonT(30) DEF Names, NoSnapshot
<1>7. ASSUME NEW k \in Keys, KeySafe(k) PROVE KeySafe(k)'
  <2>1. Acknowledged' = Acknowledged /\ snapshot'.at = "idle" /\ FullLog' = FullLog
    BY <1>1 DEF Acknowledged, NoSnapshot, FullLog
  <2>2. QED
    BY <1>1, <1>4, <1>7, <2>1 DEF KeySafe
<1>8. QED
  BY <1>1, <1>5, <1>6, <1>7 DEF CompactionInv

\* A clean restart and a crash: what the next process finds.
LEMMA CompactionDown == CompactionInv /\ (Restart \/ Crash) => CompactionInv'
<1> SUFFICES ASSUME CompactionInv, Restart \/ Crash PROVE CompactionInv'
  OBVIOUS
<1>1. PICK f \in {Logged(log), log.file} :
         log' = NewLog(IF linked THEN f ELSE replaced)
         /\ legacy' = (IF linked THEN legacy ELSE Len(replaced)) /\ linked'
  BY DEF Restart, Crash, Reopened
<1>2. /\ ~ up' /\ client' = <<>> /\ unlogged' = <<>> /\ snapshot'.at = "idle"
      /\ index' = Nothing
      /\ clock' = clock /\ compactions' = compactions /\ snaps' = snaps
      /\ DOMAIN snapshot' = {"at", "ts", "todo", "data"}
  BY DEF Restart, Crash, underway, CompactionInv, Stages, Names, NoSnapshot
<1>3. compactions = 0 => log' \in LogType(Entries)
  <2>1. CASE compactions = 0
    <3>1. f \in Seq(Entries) /\ linked
      BY <2>1, LoggedType DEF CompactionInv, Stages, LogType
    <3>2. QED
      BY <1>1, <3>1 DEF LogType, NewLog
  <2>2. QED
    BY <2>1
<1>4. log'.buf = <<>>
  BY <1>1 DEF NewLog
<1>5. Stages'
  BY <1>1, <1>2, <1>3, <1>4 DEF CompactionInv, Stages, Nothing
<1>6. Names'
  BY <1>2 DEF CompactionInv, Names
<1>7. QED
  BY <1>2, <1>5, <1>6 DEF CompactionInv

\* Recovery fills the index from the latest snapshot and the log.
LEMMA CompactionRecover == CompactionInv /\ Recover => CompactionInv'
<1> SUFFICES ASSUME CompactionInv, Recover PROVE CompactionInv'
  OBVIOUS
<1>1. /\ ~ up /\ up' /\ index' = Restored(log.file) /\ enabled' = enabled
      /\ stopping' = stopping /\ client' = client /\ snaps' = snaps /\ snapshot' = snapshot
      /\ clock' = clock /\ compactions' = compactions /\ log' = log /\ linked' = linked
      /\ legacy' = legacy /\ unlogged' = unlogged
  BY DEF Recover, logVars, underway
<1>2. client = <<>> /\ unlogged = <<>> /\ snapshot.at = "idle" /\ log.buf = <<>>
  BY <1>1 DEF CompactionInv, Stages
<1>3. Stages'
  BY <1>1, <1>2 DEF CompactionInv, Stages, Restored, Onto
<1>4. Names'
  BY <1>1 DEF CompactionInv, Names
<1>5. ASSUME compactions = 0, NEW k \in Keys PROVE KeySafe(k)'
  <2>1. log \in LogType(Entries) /\ linked /\ legacy = -1
    BY <1>5 DEF CompactionInv, Stages
  <2>2. FullLog' = log.file
    BY <1>1, <1>2, <2>1 DEF FullLog, Logged, LogType
  <2>3. index' = Onto(Loaded, log.file)
    BY <1>1, <2>1 DEF Restored, OnPath, Loaded
  <2>4. index'[k] = IF About(log.file, k) = {} THEN Loaded[k] ELSE Replay(log.file)[k]
    BY <2>3 DEF Onto
  <2>5. (Acknowledged[k])' = index'[k] /\ About(client', k) = {}
    BY <1>1, <1>2, OntoNothing, ZenonT(30) DEF Acknowledged
  <2>6. Loaded' = Loaded
    BY <1>1 DEF Loaded, LatestSnapshot
  <2>7. QED
    BY <1>1, <1>2, <2>2, <2>4, <2>5, <2>6 DEF KeySafe
<1>6. QED
  BY <1>1, <1>3, <1>4, <1>5 DEF CompactionInv

\* The invariant is kept by every step.
LEMMA CompactionStep == CompactionInv /\ [Next]_vars => CompactionInv'
<1> SUFFICES ASSUME CompactionInv, [Next]_vars PROVE CompactionInv'
  OBVIOUS
<1>1. clock \in Nat /\ clock <= clock /\ clock <= clock + 1 /\ clock + 1 \in Nat
      /\ compactions \in Nat /\ compactions + 1 \in Nat /\ compactions + 1 # 0
  BY DEF CompactionInv, Names, Stages
<1>2. CASE Tick
  BY <1>1, <1>2, CompactionQuiet DEF Tick, logVars, underway
<1>3. CASE Save \/ TriggerCompaction
  BY <1>1, <1>3, CompactionQuiet DEF Save, TriggerCompaction, logVars, underway
<1>4. CASE Worker
  BY <1>1, <1>4, CompactionQuiet
     DEF Worker, WorkerTop, WorkerWait, WorkerShard, WorkerReplace, logVars, underway
<1>5. CASE Shutdown
  BY <1>1, <1>5, CompactionQuiet DEF Shutdown, logVars, underway
<1>6. CASE UNCHANGED vars
  BY <1>1, <1>6, CompactionQuiet DEF vars, logVars, underway
<1>7. QED
  BY <1>2, <1>3, <1>4, <1>5, <1>6, CompactionWrite, CompactionApply, CompactionBegin,
     CompactionDelete, CompactionLogDelete, CompactionShard, CompactionPersist, CompactionDown,
     CompactionRecover DEF Next

\* What the invariant says of a restart.
LEMMA SafeKeysRestore == CompactionInv => CleanRestartRestores
<1> SUFFICES ASSUME CompactionInv, up, compactions = 0
             PROVE  Restored(FullLog) = Acknowledged
  BY DEF CleanRestartRestores
<1>1. Restored(FullLog) = Onto(Loaded, FullLog)
  BY DEF CompactionInv, Stages, Restored, OnPath, Loaded
<1>2. ASSUME NEW k \in Keys PROVE Onto(Loaded, FullLog)[k] = Acknowledged[k]
  BY DEF CompactionInv, KeySafe, Onto, Acknowledged
<1>3. Onto(Loaded, FullLog) = [k \in Keys |-> Onto(Loaded, FullLog)[k]]
      /\ Acknowledged = [k \in Keys |-> Acknowledged[k]]
  BY DEF Onto, Acknowledged
<1>4. QED
  BY <1>1, <1>2, <1>3

(***************************************************************************)
(* For any keys, shards, values and retention: before any compaction a     *)
(* snapshot never gets in the way of the log, and a clean restart restores *)
(* the index (compaction.rs, create_snapshot; recovery.rs,                 *)
(* recover_from_snapshot_plus_aof).                                        *)
(***************************************************************************)
THEOREM SnapshotsAreHarmless == Spec => []CleanRestartRestores
<1>1. Spec => []CompactionInv
  BY CompactionStart, CompactionStep, PTL DEF Spec
<1>2. QED
  BY <1>1, SafeKeysRestore, PTL

\* cleanup_old_snapshots keeps no more names than it should.
LEMMA FewKept ==
    ASSUME NEW N, N \subseteq Nat, IsFiniteSet(N), Kept(N) # {}
    PROVE  Cardinality(Kept(N)) <= Retention
<1> DEFINE K == Kept(N)
<1>1. K \subseteq N /\ K \subseteq Nat /\ K # {}
  BY DEF Kept
<1>2. PICK m \in K : \A y \in K : ~ (<<y, m>> \in OpToRel(<, Nat))
  BY <1>1, NatLessThanWellFounded, WFMin, Zenon
<1>3. \A y \in K : m <= y
  <2>1. SUFFICES ASSUME NEW y \in K PROVE m <= y
    OBVIOUS
  <2>2. m \in Nat /\ y \in Nat /\ ~ (y < m)
    BY <1>1, <1>2 DEF OpToRel
  <2>3. QED
    BY <2>2
<1> DEFINE Above == {u \in N : u > m}
<1>4. K \ {m} \subseteq Above
  <2>1. SUFFICES ASSUME NEW y \in K, y # m PROVE y \in N /\ y > m
    OBVIOUS
  <2>2. y \in N /\ y \in Nat /\ m \in Nat /\ m <= y
    BY <1>1, <1>3
  <2>3. QED
    BY <2>1, <2>2
<1>5. Cardinality(Above) < Retention
  BY <1>2 DEF Kept
<1> HIDE DEF K
<1>6. IsFiniteSet(K) /\ IsFiniteSet(Above)
  BY <1>1, FS_Subset
<1> HIDE DEF Above
<1>7. Cardinality(K \ {m}) <= Cardinality(Above) /\ Cardinality(K \ {m}) = Cardinality(K) - 1
  BY <1>4, <1>6, FS_Subset, FS_RemoveElement
<1>8. Cardinality(K) \in Nat /\ Cardinality(Above) \in Nat
  BY <1>6, FS_CardinalityType
<1>9. QED
  BY <1>5, <1>7, <1>8, RetentionAssumption DEF K

(***************************************************************************)
(* Whatever snapshots there were, cleanup_old_snapshots never removes the  *)
(* one that has just been taken and leaves at most                         *)
(* snapshot_retention_count of them.                                       *)
(***************************************************************************)
THEOREM RetentionIsSafe == Spec => NewestSnapshotKept
<1> DEFINE Taken == (snapshot.at = "collect" /\ snapshot'.at = "idle" /\ up') =>
                       /\ Cardinality(DOMAIN snaps') <= Retention
                       /\ snapshot.ts \in DOMAIN snaps'
                       /\ snaps'[snapshot.ts] = snapshot.data
<1>1. CompactionInv /\ [Next]_vars => [Taken]_vars
  <2> SUFFICES ASSUME CompactionInv, Next, snapshot.at = "collect", snapshot'.at = "idle", up'
               PROVE  /\ Cardinality(DOMAIN snaps') <= Retention
                      /\ snapshot.ts \in DOMAIN snaps'
                      /\ snaps'[snapshot.ts] = snapshot.data
    OBVIOUS
  <2>1. ASSUME snapshot' = snapshot PROVE FALSE
    BY <2>1
  <2>2. SnapshotShard => snapshot'.at = snapshot.at
    BY DEF SnapshotShard, CompactionInv, Names
  <2>3. SnapshotBegin => snapshot'.at = "collect"
    BY DEF SnapshotBegin
  <2>4. SnapshotPersist
    BY <2>1, <2>2, <2>3, Zenon DEF Next, Write, Apply, Delete, LogDelete, Tick, Save, TriggerCompaction, Worker, WorkerTop,
       WorkerWait, WorkerShard, WorkerReplace, Shutdown, Restart, Crash, Recover
  <2> DEFINE N == DOMAIN snaps \cup {snapshot.ts}
  <2>5. snaps' = [t \in Kept(N) |-> IF t = snapshot.ts THEN snapshot.data ELSE snaps[t]]
    BY <2>4 DEF SnapshotPersist
  <2>6. /\ N \subseteq 1 .. clock /\ N \subseteq Nat /\ snapshot.ts \in N
        /\ \A t \in N : t <= snapshot.ts
        /\ clock \in Nat
    BY DEF CompactionInv, Names
  <2> HIDE DEF N
  <2>7. IsFiniteSet(N)
    <3>1. 1 \in Int /\ clock \in Int
      BY <2>6
    <3>2. IsFiniteSet(1 .. clock)
      BY <3>1, FS_Interval
    <3>3. QED
      BY <2>6, <3>2, FS_Subset
  <2>8. snapshot.ts \in Kept(N)
    BY <2>6, NewestKept
  <2>9. Cardinality(Kept(N)) <= Retention
    BY <2>6, <2>7, <2>8, FewKept
  <2>10. QED
    BY <2>5, <2>8, <2>9
<1>2. Spec => []CompactionInv
  BY CompactionStart, CompactionStep, PTL DEF Spec
<1>3. QED
  BY <1>1, <1>2, PTL DEF Spec, NewestSnapshotKept

-----------------------------------------------------------------------------
(***************************************************************************)
(* A damaged file                                                          *)
(***************************************************************************)
\* The largest place in two parts of a file, when the second has one.
LEMMA LatestShift ==
    ASSUME NEW n \in Nat, NEW m \in Nat, NEW A \in SUBSET (1 .. n), NEW C \in SUBSET (1 .. m),
           C # {}
    PROVE  Latest(A \cup {n + i : i \in C}) = n + Latest(C) /\ Latest(C) \in C
<1> DEFINE l == Latest(C)  U == A \cup {n + i : i \in C}
<1>1. l \in C /\ l \in 1 .. m /\ \A j \in C : j <= l
  BY LatestIsMax
<1> HIDE DEF l
<1>2. n + l \in U
  BY <1>1
<1>3. \A j \in U : j <= n + l
  <2>1. \A j \in A : j <= n + l
    BY <1>1
  <2>2. \A i \in C : n + i <= n + l
    <3>1. SUFFICES ASSUME NEW i \in C PROVE n + i <= n + l
      OBVIOUS
    <3>2. i \in 1 .. m /\ i <= l
      BY <1>1
    <3>3. QED
      BY <1>1, <3>2
  <2>3. QED
    BY <2>1, <2>2
<1>4. U \in SUBSET (1 .. n + m)
  <2>1. \A i \in C : n + i \in 1 .. n + m
    <3>1. SUFFICES ASSUME NEW i \in 1 .. m PROVE n + i \in 1 .. n + m
      OBVIOUS
    <3>2. QED
      OBVIOUS
  <2>2. \A i \in A : i \in 1 .. n + m
    <3>1. SUFFICES ASSUME NEW i \in 1 .. n PROVE i \in 1 .. n + m
      OBVIOUS
    <3>2. QED
      OBVIOUS
  <2>3. QED
    BY <2>1, <2>2
<1> HIDE DEF U
<1>5. n + m \in Nat
  OBVIOUS
<1>6. Latest(U) = n + l
  BY <1>2, <1>3, <1>4, <1>5, LatestIs
<1>7. QED
  BY <1>1, <1>6 DEF U, l

\* Where a file with more records at its end has records about a key.
LEMMA AboutMore ==
    ASSUME NEW R, NEW s \in Seq(R), NEW t \in Seq(R), NEW k
    PROVE  About(s \o t, k) = About(s, k) \cup {Len(s) + i : i \in About(t, k)}
<1> DEFINE u == s \o t
<1>1. /\ Len(s) \in Nat /\ Len(t) \in Nat
      /\ DOMAIN s = 1 .. Len(s) /\ DOMAIN t = 1 .. Len(t)
      /\ DOMAIN u = 1 .. Len(s) + Len(t)
  BY LenProperties, ConcatProperties
<1>2. /\ \A i \in 1 .. Len(s) : u[i] = s[i]
      /\ \A i \in 1 .. Len(t) : u[Len(s) + i] = t[i]
  BY <1>1, ConcatProperties
<1>3. \A j \in DOMAIN u : j \in 1 .. Len(s) \/ \E i \in 1 .. Len(t) : j = Len(s) + i
  <2>1. SUFFICES ASSUME NEW j \in DOMAIN u, j \notin 1 .. Len(s)
                 PROVE  \E i \in 1 .. Len(t) : j = Len(s) + i
    OBVIOUS
  <2>2. j - Len(s) \in 1 .. Len(t) /\ j = Len(s) + (j - Len(s))
    BY <2>1, <1>1
  <2>3. QED
    BY <2>2
<1>4. QED
  BY <1>1, <1>2, <1>3 DEF About

\* More records at the end of a damaged file are read as a state after it.
LEMMA ReadBackMore ==
    ASSUME NEW R, NEW s \in Seq(R), NEW t \in Seq(R), NEW B \in SUBSET DOMAIN s
    PROVE  ReadBack(s \o t, B) = Then(ReadBack(s, B), t)
<1> SUFFICES ASSUME NEW k \in Keys
             PROVE  ReadBack(s \o t, B)[k] = Then(ReadBack(s, B), t)[k]
  BY DEF ReadBack, Then
<1> DEFINE u == s \o t
           A == About(s, k) \ B
           C == About(t, k)
<1>1. /\ Len(s) \in Nat /\ Len(t) \in Nat
      /\ DOMAIN s = 1 .. Len(s) /\ DOMAIN t = 1 .. Len(t)
  BY LenProperties
<1>2. /\ \A i \in 1 .. Len(s) : u[i] = s[i]
      /\ \A i \in 1 .. Len(t) : u[Len(s) + i] = t[i]
  BY <1>1, ConcatProperties
<1>3. A \in SUBSET (1 .. Len(s)) /\ C \in SUBSET (1 .. Len(t))
  BY <1>1 DEF About
<1>4. \A i \in C : Len(s) + i \notin B
  <2>1. SUFFICES ASSUME NEW i \in 1 .. Len(t) PROVE Len(s) + i \notin 1 .. Len(s)
    BY <1>1, <1>3
  <2>2. QED
    BY <1>1
<1>5. About(u, k) \ B = A \cup {Len(s) + i : i \in C}
  BY <1>4, AboutMore
<1>6. ReadBack(u, B)[k] = IF A \cup {Len(s) + i : i \in C} = {} THEN None
                          ELSE u[Latest(A \cup {Len(s) + i : i \in C})].val
  BY <1>5, Zenon DEF ReadBack
<1>7. ReadBack(s, B)[k] = IF A = {} THEN None ELSE s[Latest(A)].val
  BY DEF ReadBack
<1>8. Then(ReadBack(s, B), t)[k] = IF C = {} THEN ReadBack(s, B)[k] ELSE t[Latest(C)].val
  BY DEF Then, Replay
<1> HIDE DEF A, C, u
<1>9. CASE C = {}
  <2>1. A \cup {Len(s) + i : i \in C} = A
    BY <1>9
  <2>2. A # {} => Latest(A) \in 1 .. Len(s)
    BY <1>1, <1>3, LatestIsMax
  <2>3. QED
    BY <1>2, <1>6, <1>7, <1>8, <1>9, <2>1, <2>2, Zenon DEF u
<1>10. CASE C # {}
  <2>1. Latest(A \cup {Len(s) + i : i \in C}) = Len(s) + Latest(C) /\ Latest(C) \in C
    <3> DEFINE n == Len(s)  m == Len(t)
    <3>1. n \in Nat /\ m \in Nat /\ A \in SUBSET (1 .. n) /\ C \in SUBSET (1 .. m)
      BY <1>1, <1>3
    <3> HIDE DEF n, m
    <3>2. Latest(A \cup {n + i : i \in C}) = n + Latest(C) /\ Latest(C) \in C
      BY <3>1, <1>10, LatestShift
    <3>3. QED
      BY <3>2 DEF n
  <2>2. u[Len(s) + Latest(C)] = t[Latest(C)]
    BY <1>2, <1>3, <2>1
  <2>3. A \cup {Len(s) + i : i \in C} # {}
    BY <1>10, Zenon
  <2>4. QED
    BY <1>6, <1>8, <1>10, <2>1, <2>2, <2>3, Zenon DEF u
<1>11. QED
  BY <1>9, <1>10

\* A damaged record at the end of a file is not seen.
LEMMA ReadBackTorn ==
    ASSUME NEW R, NEW s \in Seq(R), NEW r \in R, NEW B \in SUBSET DOMAIN s
    PROVE  ReadBack(s \o <<r>>, B \cup {Len(s) + 1}) = ReadBack(s, B)
<1> SUFFICES ASSUME NEW k \in Keys
             PROVE  ReadBack(s \o <<r>>, B \cup {Len(s) + 1})[k] = ReadBack(s, B)[k]
  BY DEF ReadBack
<1> DEFINE u == s \o <<r>>
           A == About(s, k) \ B
<1>1. /\ Len(s) \in Nat /\ DOMAIN s = 1 .. Len(s) /\ DOMAIN u = 1 .. Len(s) + 1
      /\ \A i \in 1 .. Len(s) : u[i] = s[i]
  OBVIOUS
<1>2. /\ \A i \in 1 .. Len(s) + 1 : i \in 1 .. Len(s) \/ i = Len(s) + 1
      /\ \A i \in 1 .. Len(s) : i \in 1 .. Len(s) + 1 /\ i # Len(s) + 1
  BY <1>1
<1> HIDE DEF u
<1>3. About(u, k) \ (B \cup {Len(s) + 1}) = A
  BY <1>1, <1>2 DEF About
<1>4. A \in SUBSET (1 .. Len(s))
  BY <1>1 DEF About
<1>5. ReadBack(u, B \cup {Len(s) + 1})[k] = IF A = {} THEN None ELSE u[Latest(A)].val
  BY <1>3 DEF ReadBack
<1>6. ReadBack(s, B)[k] = IF A = {} THEN None ELSE s[Latest(A)].val
  BY DEF ReadBack
<1> HIDE DEF A
<1>7. A # {} => Latest(A) \in 1 .. Len(s)
  BY <1>1, <1>4, LatestIsMax, Zenon
<1>8. QED
  BY <1>1, <1>5, <1>6, <1>7 DEF u

\* Every key is read back with a value that was logged for it, or with none.
LEMMA ReadBackType ==
    ASSUME NEW V, NEW s \in Seq([key : Keys, val : V \cup {None}]), NEW B
    PROVE  ReadBack(s, B) \in [Keys -> V \cup {None}]
<1> DEFINE Seen(k) == About(s, k) \ B
<1>1. SUFFICES ASSUME NEW k \in Keys, Seen(k) # {}
               PROVE  s[Latest(Seen(k))].val \in V \cup {None}
  BY DEF ReadBack
<1>2. Len(s) \in Nat /\ DOMAIN s = 1 .. Len(s)
  BY LenProperties
<1>3. Latest(Seen(k)) \in 1 .. Len(s)
  BY <1>1, <1>2, LatestIsMax DEF About
<1>4. s[Latest(Seen(k))] \in [key : Keys, val : V \cup {None}]
  BY <1>3, ElementOfSeq, Zenon
<1>5. QED
  BY <1>4

\* The keys in some order: each once, and all of them.
LEMMA EachOnce ==
    ASSUME NEW S, IsFiniteSet(S)
    PROVE  /\ Cardinality(S) \in Nat
           /\ SetToSeq(S) \in [1 .. Cardinality(S) -> S]
           /\ IsInjective(SetToSeq(S))
           /\ \A x \in S : \E i \in 1 .. Cardinality(S) : SetToSeq(S)[i] = x
<1> DEFINE n == Cardinality(S)  D == 1 .. n
<1>1. n \in Nat /\ ExistsBijection(D, S)
  BY FS_CardinalityType
<1>2. PICK f \in [D -> S] : IsInjective(f)
  BY <1>1 DEF ExistsBijection, Bijection, Injection
<1>3. SetToSeq(S) \in [D -> S] /\ IsInjective(SetToSeq(S))
  BY <1>2 DEF SetToSeq
<1>4. SetToSeq(S) \in Injection(D, S)
  BY <1>3 DEF Injection
<1>5. Cardinality(D) = n
  <2>1. 1 \in Int /\ n \in Int
    BY <1>1
  <2> HIDE DEF n
  <2>2. Cardinality(1 .. n) = IF 1 > n THEN 0 ELSE n - 1 + 1
    BY <2>1, FS_Interval
  <2>3. QED
    BY <1>1, <2>2
<1>6. SetToSeq(S) \in Surjection(D, S)
  BY <1>4, <1>5, FS_Injection
<1>7. QED
  BY <1>1, <1>3, <1>6 DEF Surjection

LogEntries == [key : Keys, val : LogValues \cup {None}]

\* What rewrite writes is read back as the map it was given.
LEMMA RewriteReadsBack ==
    ASSUME NEW live \in [Keys -> LogValues \cup {None}]
    PROVE  /\ LiveRecords(live) \in Seq(LogEntries)
           /\ ReadBack(LiveRecords(live), {}) = live
<1> DEFINE P == {k \in Keys : live[k] # None}
           p == SetToSeq(P)
           n == Cardinality(P)
           recs == LiveRecords(live)
<1>1. IsFiniteSet(P)
  BY LogAssumption, FS_Subset
<1>2. /\ n \in Nat /\ p \in [1 .. n -> P] /\ IsInjective(p)
      /\ \A k \in P : \E i \in 1 .. n : p[i] = k
  BY <1>1, EachOnce, Zenon
<1>3. recs = [i \in DOMAIN p |-> SetRec(p[i], live[p[i]])]
  BY DEF LiveRecords
<1> HIDE DEF n, p, recs
<1>4. DOMAIN p = 1 .. n
  BY <1>2
<1>5. /\ DOMAIN recs = 1 .. n
      /\ \A i \in 1 .. n : recs[i].key = p[i] /\ recs[i].val = live[p[i]]
  BY <1>3, <1>4, Zenon DEF SetRec
<1>6. \A i \in 1 .. n : p[i] \in Keys /\ SetRec(p[i], live[p[i]]) \in LogEntries
  BY <1>2 DEF SetRec, LogEntries
<1>7. recs \in Seq(LogEntries)
  <2>1. recs \in [1 .. n -> LogEntries]
    BY <1>3, <1>4, <1>6
  <2>2. QED
    BY <1>2, <2>1
<1>8. ASSUME NEW k \in Keys PROVE ReadBack(recs, {})[k] = live[k]
  <2>1. CASE live[k] = None
    <3>1. About(recs, k) = {}
      BY <1>2, <1>5, <2>1 DEF About
    <3>2. QED
      BY <2>1, <3>1 DEF ReadBack
  <2>2. CASE live[k] # None
    <3>1. PICK i \in 1 .. n : p[i] = k
      BY <1>2, <2>2
    <3>2. About(recs, k) = {i}
      BY <1>2, <1>4, <1>5, <3>1 DEF About, IsInjective
    <3>3. Latest({i}) = i
      BY <3>1 DEF Latest
    <3>4. QED
      BY <1>5, <3>1, <3>2, <3>3 DEF ReadBack
  <2>3. QED
    BY <2>1, <2>2
<1>9. ReadBack(recs, {}) = live
  BY <1>8 DEF ReadBack
<1>10. QED
  BY <1>7, <1>9 DEF recs

(***************************************************************************)
(* The life of a log                                                       *)
(***************************************************************************)
\* Damaged places are places of the file, and what is read back is, for every
\* key that no repair has lost, what the records that reached the file whole say.
FileInv ==
    /\ writer \in LogType(LogEntries)
    /\ LogTypeOK
    /\ DOMAIN kept = Keys
    /\ FileRemembers

\* What reading a file with its damage does to the counters.
LEMMA ScannedTypes ==
    ASSUME NEW mode, NEW b \in BOOLEAN, NEW c \in Scanned(mode, b)
    PROVE  c \in BOOLEAN
  BY Zenon DEF Scanned

\* An append leaves the file as it was or writes records after its end.
LEMMA AppendReaches ==
    ASSUME NEW R, NEW l \in LogType(R), NEW r \in R, NEW x \in Appended(l, r)
    PROVE  /\ \E q \in Seq(R) : x.file = l.file \o q
           /\ l.pending \in 0 .. BatchSize => x.pending \in 0 .. BatchSize
<1>1. l.file \in Seq(R) /\ l.buf \in Seq(R) /\ l.pending \in Nat
  BY DEF LogType
<1>2. l.file = l.file \o <<>> /\ <<>> \in Seq(R)
  BY <1>1, ConcatEmptySeq
<1>3. ASSUME NEW p, NEW y \in Buffered(l, r, p)
      PROVE  (y.file = l.file \/ y.file = l.file \o l.buf) /\ y.pending = p
  <2>1. PICK z \in {l, Flushed(l)} :
           y = [file |-> z.file, buf |-> Append(z.buf, r), pending |-> p]
    BY DEF Buffered
  <2>2. Flushed(l).file = l.file \o l.buf
    BY Zenon DEF Flushed, Logged
  <2>3. QED
    BY <2>1, <2>2, Zenon
<1>4. ASSUME NEW p \in Nat, NEW y \in Buffered(l, r, p)
      PROVE  Flushed(y).file = l.file \o (l.buf \o <<r>>) /\ Flushed(y).pending = p
  <2>1. Logged(y) = Logged(l) \o <<r>>
    BY BufferedLogs
  <2> DEFINE a == l.file  b == l.buf  c == <<r>>
  <2>2. a \in Seq(R) /\ b \in Seq(R) /\ c \in Seq(R)
    BY <1>1
  <2>3. Logged(l) = a \o b
    BY DEF Logged
  <2> HIDE DEF a, b, c
  <2>4. a \o (b \o c) = (a \o b) \o c
    BY <2>2, Assoc
  <2>5. QED
    BY <1>3, <2>1, <2>3, <2>4, Zenon DEF Flushed, a, b, c
<1>5. l.buf \o <<r>> \in Seq(R)
  BY <1>1, ConcatProperties
<1>6. CASE Policy # "Always" \/ l.pending + 1 < BatchSize
  <2>1. PICK p \in Nat : /\ x \in Buffered(l, r, p)
                         /\ p = l.pending \/ (p = l.pending + 1 /\ p < BatchSize)
    <3>1. CASE Policy # "Always"
      <4>1. x \in Buffered(l, r, l.pending)
        BY <3>1 DEF Appended
      <4>2. QED
        BY <1>1, <4>1
    <3>2. CASE Policy = "Always" /\ l.pending + 1 < BatchSize
      <4>1. l.pending + 1 \in Nat
        BY <1>1
      <4>2. QED
        BY <3>2, <4>1, Zenon DEF Appended
    <3>3. QED
      BY <1>6, <3>1, <3>2
  <2>2. (x.file = l.file \/ x.file = l.file \o l.buf) /\ x.pending = p
    BY <1>3, <2>1, Zenon
  <2>3. \E q \in Seq(R) : x.file = l.file \o q
    BY <1>1, <1>2, <2>2, Zenon
  <2>4. l.pending \in 0 .. BatchSize => x.pending \in 0 .. BatchSize
    BY <2>1, <2>2, BatchSizeAssumption
  <2>5. QED
    BY <2>3, <2>4
<1>7. CASE ~ (Policy # "Always" \/ l.pending + 1 < BatchSize)
  <2>1. PICK y \in Buffered(l, r, 0) : x = Flushed(y)
    BY <1>7 DEF Appended
  <2>2. x.file = l.file \o (l.buf \o <<r>>) /\ x.pending = 0
    BY <1>4, <2>1, Zenon
  <2>3. \E q \in Seq(R) : x.file = l.file \o q
    BY <1>5, <2>2, Zenon
  <2>4. x.pending \in 0 .. BatchSize
    BY <2>2, BatchSizeAssumption
  <2>5. QED
    BY <2>3, <2>4
<1>8. QED
  BY <1>6, <1>7

\* The records that an append brings to the file.
LEMMA ReachedIs ==
    ASSUME NEW R, NEW s \in Seq(R), NEW q \in Seq(R)
    PROVE  SubSeq(s \o q, Len(s) + 1, Len(s \o q)) = q
  OBVIOUS

\* A file keeps its places when it grows.
LEMMA DomainGrows ==
    ASSUME NEW R, NEW s \in Seq(R), NEW q \in Seq(R)
    PROVE  DOMAIN s \subseteq DOMAIN (s \o q)
  OBVIOUS

\* What is read back after more records, for the keys that are not lost.
LEMMA RemembersMore ==
    ASSUME NEW m, NEW q, \A k \in Keys \ lost : m[k] = kept[k], Reach(q)
    PROVE  \A k \in Keys \ lost' : Then(m, q)[k] = kept'[k]
<1> SUFFICES ASSUME NEW k \in Keys, k \notin lost' PROVE Then(m, q)[k] = kept'[k]
  OBVIOUS
<1>1. kept'[k] = IF About(q, k) = {} THEN kept[k] ELSE Replay(q)[k]
  BY DEF Reach, Then
<1>2. Then(m, q)[k] = IF About(q, k) = {} THEN m[k] ELSE Replay(q)[k]
  BY DEF Then
<1>3. About(q, k) = {} => k \notin lost
  BY DEF Reach, Named
<1>4. QED
  BY <1>1, <1>2, <1>3

\* More records reach the file, and it stays open.
LEMMA FileGrows ==
    ASSUME FileInv, NEW q \in Seq(LogEntries),
           writer' \in LogType(LogEntries), writer'.file = writer.file \o q,
           writer'.pending \in 0 .. BatchSize, bad' = bad,
           Reach(q), opened' \in BOOLEAN, ~ opened' => writer'.buf = <<>>,
           flagged' \in BOOLEAN
    PROVE  FileInv'
<1>1. writer.file \in Seq(LogEntries) /\ DOMAIN bad \in SUBSET DOMAIN writer.file
  BY DEF FileInv, LogType, LogTypeOK
<1>2. ReadBack(writer'.file, DOMAIN bad') = Then(ReadBack(writer.file, DOMAIN bad), q)
  BY <1>1, ReadBackMore
<1>3. FileRemembers'
  BY <1>2, RemembersMore DEF FileInv, FileRemembers
<1>4. DOMAIN writer.file \subseteq DOMAIN writer'.file
  BY <1>1, DomainGrows
<1>5. LogTypeOK'
  BY <1>1, <1>4, SMTT(30) DEF FileInv, LogTypeOK
<1>6. DOMAIN kept' = Keys
  BY DEF Reach, Then
<1>7. QED
  BY <1>3, <1>5, <1>6 DEF FileInv

\* append_set and append_del
LEMMA FileAppend ==
    ASSUME FileInv, NEW r \in LogEntries, AppendOne(r)
    PROVE  FileInv'
<1>1. writer \in LogType(LogEntries) /\ writer' \in Appended(writer, r)
  BY DEF FileInv, AppendOne
<1>2. PICK q \in Seq(LogEntries) : writer'.file = writer.file \o q
  BY <1>1, AppendReaches
<1>3. writer'.pending \in 0 .. BatchSize /\ writer' \in LogType(LogEntries)
  BY <1>1, AppendReaches, AppendedLogs, Zenon DEF FileInv, LogTypeOK
<1>4. Reached(writer') = q
  BY <1>1, <1>2, ReachedIs DEF Reached, LogType
<1>5. QED
  BY <1>2, <1>3, <1>4, FileGrows, Zenon DEF AppendOne, FileInv, LogTypeOK

\* The flusher thread, and the drop of the log.
LEMMA FileFlush ==
    ASSUME FileInv, FlusherTick \/ Close
    PROVE  FileInv'
<1>1. writer \in LogType(LogEntries) /\ writer.buf \in Seq(LogEntries)
      /\ Logged(writer) \in Seq(LogEntries)
  BY LoggedType DEF FileInv, LogType
<1>2. /\ writer'.file = writer.file \o writer.buf /\ writer'.buf = <<>>
      /\ writer' \in LogType(LogEntries) /\ writer'.pending \in 0 .. BatchSize
  <2>1. CASE FlusherTick
    BY <1>1, <2>1, FlushedLogs, Zenon DEF FlusherTick, Flushed, Logged, FileInv, LogTypeOK
  <2>2. CASE Close
    BY <1>1, <2>2, BatchSizeAssumption DEF Close, NewLog, Logged, LogType
  <2>3. QED
    BY <2>1, <2>2, Zenon
<1>3. /\ bad' = bad /\ flagged' \in BOOLEAN /\ Reach(writer.buf)
      /\ opened' \in BOOLEAN
  BY Zenon DEF FlusherTick, Close, FileInv, LogTypeOK
<1>4. QED
  BY <1>1, <1>2, <1>3, FileGrows, Zenon

\* A crash, with or without a torn record.
LEMMA FileCrash ==
    ASSUME FileInv, LogCrash
    PROVE  FileInv'
<1>1. PICK n \in 0 .. Len(writer.buf), torn \in BOOLEAN :
         /\ torn => n > 0
         /\ writer' = NewLog(writer.file \o SubSeq(writer.buf, 1, n))
         /\ DOMAIN bad' = DOMAIN bad \cup
               (IF torn THEN {Len(writer.file \o SubSeq(writer.buf, 1, n))} ELSE {})
         /\ \A i \in DOMAIN bad' : bad'[i] = IF i \in DOMAIN bad THEN bad[i] ELSE "torn"
         /\ Reach(SubSeq(writer.buf, 1, IF torn THEN n - 1 ELSE n))
  BY Zenon DEF LogCrash
<1> DEFINE f == writer.file  b == writer.buf  q == SubSeq(b, 1, n)  B == DOMAIN bad
<1>2. f \in Seq(LogEntries) /\ b \in Seq(LogEntries) /\ q \in Seq(LogEntries)
      /\ B \in SUBSET DOMAIN f /\ \A k \in Keys \ lost : ReadBack(f, B)[k] = kept[k]
  BY DEF FileInv, LogType, LogTypeOK, FileRemembers
<1>3. opened' = FALSE /\ flagged' = FALSE
  BY DEF LogCrash
<1>4. writer' \in LogType(LogEntries) /\ writer'.file = f \o q /\ writer'.buf = <<>>
      /\ writer'.pending \in 0 .. BatchSize
  <2>1. f \o q \in Seq(LogEntries) /\ <<>> \in Seq(LogEntries)
    BY <1>2
  <2>2. writer' = [file |-> f \o q, buf |-> <<>>, pending |-> 0]
    BY <1>1 DEF NewLog
  <2>3. 0 \in Nat /\ 0 \in 0 .. BatchSize
    BY BatchSizeAssumption
  <2> HIDE DEF f, q
  <2>4. QED
    BY <2>1, <2>2, <2>3 DEF LogType
<1>5. FileRemembers' /\ DOMAIN bad' \subseteq DOMAIN writer'.file
  <2>1. CASE ~ torn
    <3>1. DOMAIN bad' = B /\ Reach(q)
      BY <1>1, <2>1
    <3>2. ReadBack(f \o q, B) = Then(ReadBack(f, B), q)
      BY <1>2, ReadBackMore, Zenon
    <3>3. DOMAIN f \subseteq DOMAIN (f \o q)
      BY <1>2, DomainGrows, Zenon
    <3>4. \A k \in Keys \ lost' : Then(ReadBack(f, B), q)[k] = kept'[k]
      BY <1>2, <3>1, RemembersMore, Zenon
    <3> HIDE DEF f, q
    <3>5. QED
      BY <1>2, <1>4, <3>1, <3>2, <3>3, <3>4, Zenon DEF FileRemembers
  <2>2. CASE torn
    <3> DEFINE h == SubSeq(b, 1, n - 1)  g == f \o h
    <3>1. n \in 1 .. Len(b) /\ n - 1 \in 0 .. Len(b)
      BY <1>1, <1>2, <2>2
    <3>2. h \in Seq(LogEntries) /\ b[n] \in LogEntries /\ q = h \o <<b[n]>>
      BY <1>2, <3>1
    <3>3. g \in Seq(LogEntries) /\ DOMAIN f \subseteq DOMAIN g
      BY <1>2, <3>2, DomainGrows, ConcatProperties, Zenon
    <3> HIDE DEF h, f, q
    <3>4. f \o q = g \o <<b[n]>>
      <4>1. <<b[n]>> \in Seq(LogEntries)
        BY <3>2
      <4>2. QED
        BY <1>2, <3>2, <4>1, Assoc
    <3> DEFINE r == b[n]
    <3> HIDE DEF g, r
    <3>5. Len(g \o <<r>>) = Len(g) + 1 /\ DOMAIN (g \o <<r>>) = 1 .. Len(g) + 1
          /\ DOMAIN g \subseteq DOMAIN (g \o <<r>>)
      BY <3>2, <3>3 DEF r
    <3>6. DOMAIN bad' = B \cup {Len(g) + 1} /\ Reach(h)
      BY <1>1, <2>2, <3>4, <3>5, Zenon DEF f, q, h, r
    <3>7. ReadBack(g \o <<r>>, B \cup {Len(g) + 1}) = ReadBack(g, B)
      <4>1. r \in LogEntries /\ g \in Seq(LogEntries) /\ B \in SUBSET DOMAIN g
        BY <1>2, <3>2, <3>3 DEF r
      <4> HIDE DEF B
      <4>2. QED
        BY <4>1, ReadBackTorn
    <3>8. ReadBack(g, B) = Then(ReadBack(f, B), h)
      BY <1>2, <3>2, ReadBackMore DEF g
    <3>9. Len(g) + 1 \in 1 .. Len(g) + 1
      BY <3>3
    <3>10. writer'.file = g \o <<r>>
      BY <1>4, <3>4 DEF r
    <3>11. \A k \in Keys \ lost' : Then(ReadBack(f, B), h)[k] = kept'[k]
      BY <1>2, <3>6, RemembersMore, Zenon
    <3>12. FileRemembers'
      BY <3>6, <3>7, <3>8, <3>10, <3>11, Zenon DEF FileRemembers
    <3>13. QED
      BY <1>2, <3>3, <3>5, <3>6, <3>9, <3>10, <3>12
  <2>3. QED
    BY <2>1, <2>2
<1>6. LogTypeOK'
  <2>1. \A i \in DOMAIN bad' : bad'[i] \in {"torn", "sum", "op"}
    BY <1>1, Zenon DEF FileInv, LogTypeOK
  <2>2. QED
    BY <1>3, <1>4, <1>5, <2>1, ZenonT(30) DEF FileInv, LogTypeOK
<1>7. DOMAIN kept' = Keys
  BY <1>1 DEF Reach, Then
<1>8. QED
  BY <1>4, <1>5, <1>6, <1>7 DEF FileInv

\* A damaged record more: only its key is read back differently.
LEMMA FileDecay ==
    ASSUME FileInv, Decay
    PROVE  FileInv'
<1>1. PICK i \in DOMAIN writer.file, kind \in Decays :
         /\ bad' = [j \in DOMAIN bad \cup {i} |-> IF j = i THEN kind ELSE bad[j]]
         /\ kept' = [kept EXCEPT ![writer.file[i].key] =
                         ReadBack(writer.file, DOMAIN bad')[writer.file[i].key]]
  BY ZenonT(30) DEF Decay
<1>2. writer' = writer /\ opened' = opened /\ flagged' = flagged /\ lost' = lost
  BY DEF Decay
<1>3. LogTypeOK'
  BY <1>1, <1>2, LogAssumption DEF FileInv, LogTypeOK
<1> DEFINE f == writer.file  B == DOMAIN bad
<1>4. DOMAIN bad' = B \cup {i}
  BY <1>1
<1>5. ASSUME NEW k \in Keys, k \notin lost PROVE ReadBack(f, B \cup {i})[k] = kept'[k]
  <2>1. ReadBack(f, B)[k] = kept[k]
    BY <1>5 DEF FileInv, FileRemembers
  <2>2. CASE k = f[i].key /\ k \in DOMAIN kept
    BY <1>1, <1>4, <2>2
  <2>3. CASE k # f[i].key
    <3>1. i \notin About(f, k)
      BY <2>3 DEF About
    <3>2. About(f, k) \ (B \cup {i}) = About(f, k) \ B
      BY <3>1
    <3>3. ReadBack(f, B \cup {i})[k] = ReadBack(f, B)[k]
      BY <3>2 DEF ReadBack
    <3>4. kept'[k] = kept[k]
      BY <1>1, <2>3
    <3>5. QED
      BY <2>1, <3>3, <3>4
  <2>4. k \in DOMAIN kept
    BY DEF FileInv
  <2>5. QED
    BY <2>2, <2>3, <2>4
<1>6. FileRemembers'
  BY <1>2, <1>4, <1>5 DEF FileRemembers
<1>7. DOMAIN kept' = Keys
  BY <1>1 DEF FileInv
<1>8. QED
  BY <1>2, <1>3, <1>6, <1>7 DEF FileInv

\* A new file in the place of the old one.
LEMMA FileRewritten ==
    ASSUME FileInv, NEW live \in [Keys -> LogValues \cup {None}],
           writer' = Rewritten(live), bad' = <<>>, DOMAIN kept' = Keys,
           \A k \in Keys \ lost' : live[k] = kept'[k],
           opened' = opened, flagged' \in BOOLEAN
    PROVE  FileInv'
<1>1. LiveRecords(live) \in Seq(LogEntries) /\ ReadBack(LiveRecords(live), {}) = live
  BY RewriteReadsBack
<1>2. writer'.file = LiveRecords(live) /\ writer'.buf = <<>> /\ writer'.pending = writer.pending
      /\ DOMAIN bad' = {}
  BY DEF Rewritten
<1>3. writer' \in LogType(LogEntries)
  BY <1>1 DEF Rewritten, FileInv, LogType
<1>4. LogTypeOK'
  BY <1>2 DEF FileInv, LogTypeOK
<1>5. FileRemembers'
  BY <1>1, <1>2 DEF FileRemembers
<1>6. QED
  BY <1>3, <1>4, <1>5 DEF FileInv

\* A rewrite that fails has written the buffer out or done nothing.
LEMMA FileNotRewritten ==
    ASSUME FileInv, RewriteFails, opened, opened' = opened, flagged' \in BOOLEAN
    PROVE  FileInv'
<1>1. CASE UNCHANGED <<writer, bad, kept, lost>>
  BY <1>1, Zenon DEF FileInv, LogTypeOK, FileRemembers
<1>2. CASE writer' = Flushed(writer) /\ Reach(writer.buf) /\ UNCHANGED bad
  <2>1. writer \in LogType(LogEntries) /\ writer.buf \in Seq(LogEntries)
    BY DEF FileInv, LogType
  <2>2. /\ writer'.file = writer.file \o writer.buf
        /\ writer' \in LogType(LogEntries) /\ writer'.pending \in 0 .. BatchSize
    BY <1>2, <2>1, FlushedLogs, Zenon DEF Flushed, Logged, FileInv, LogTypeOK
  <2>3. QED
    BY <1>2, <2>1, <2>2, FileGrows, ZenonT(30)
<1>3. QED
  BY <1>1, <1>2 DEF RewriteFails

\* rewrite and repair
LEMMA FileRepair ==
    ASSUME FileInv, Rewrite \/ \E mode \in Modes : Repair(mode)
    PROVE  FileInv'
<1> DEFINE f == writer.file  B == DOMAIN bad
<1>1. /\ f \in Seq(LogEntries) /\ writer.buf \in Seq(LogEntries) /\ flagged \in BOOLEAN
      /\ \A k \in Keys \ lost : ReadBack(f, B)[k] = kept[k]
  BY DEF FileInv, LogType, LogTypeOK, FileRemembers
<1>2. ReadBack(f, B) \in [Keys -> LogValues \cup {None}]
  BY <1>1, ReadBackType, Zenon DEF LogEntries
<1>3. \A q : DOMAIN Then(kept, q) = Keys
  BY DEF Then
<1>4. CASE Rewrite
  <2> DEFINE all == Then(ReadBack(f, B), writer.buf)
  <2>1. opened /\ opened' = opened /\ flagged' = flagged
    BY <1>4 DEF Rewrite
  <2>2. CASE RewriteFails
    BY <1>1, <2>1, <2>2, FileNotRewritten
  <2>3. CASE writer' = Rewritten(all) /\ bad' = <<>> /\ Reach(writer.buf)
    <3>1. all \in [Keys -> LogValues \cup {None}]
      <4>1. Replay(writer.buf) \in [Keys -> (LogValues \cup {None}) \cup {None}]
        BY <1>1, ReplayType, ZenonT(30) DEF LogEntries
      <4>2. (LogValues \cup {None}) \cup {None} = LogValues \cup {None}
        OBVIOUS
      <4>3. Replay(writer.buf) \in [Keys -> LogValues \cup {None}]
        BY <4>1, <4>2
      <4>4. QED
        BY <1>2, <4>3 DEF Then
    <3>2. \A k \in Keys \ lost' : all[k] = kept'[k]
      BY <1>1, <2>3, RemembersMore
    <3>3. DOMAIN kept' = Keys
      BY <1>3, <2>3 DEF Reach
    <3> HIDE DEF all
    <3>4. QED
      BY <1>1, <2>1, <2>3, <3>1, <3>2, <3>3, FileRewritten
  <2>4. QED
    BY <1>4, <2>2, <2>3 DEF Rewrite
<1>5. ASSUME NEW mode \in Modes, Repair(mode) PROVE FileInv'
  <2>1. flagged' \in BOOLEAN /\ opened /\ opened' = opened
    <3>1. opened /\ flagged' \in Scanned(mode, flagged) /\ opened' = opened
      BY <1>5, Zenon DEF Repair
    <3>2. QED
      BY <1>1, <3>1, ScannedTypes, Zenon
  <2>2. CASE UNCHANGED <<writer, bad, kept, lost>>
    BY <2>1, <2>2, Zenon DEF FileInv, LogTypeOK, FileRemembers
  <2>3. CASE RepairRewrites
    <3>1. /\ writer' = Rewritten(ReadBack(f, B)) /\ bad' = <<>>
          /\ kept' = Then(kept, writer.buf) /\ lost' = lost \cup Named(writer.buf)
      BY <2>3 DEF RepairRewrites, Recovered
    <3>2. ASSUME NEW k \in Keys, k \notin lost' PROVE ReadBack(f, B)[k] = kept'[k]
      <4>1. k \notin lost /\ About(writer.buf, k) = {}
        BY <3>1, <3>2 DEF Named
      <4>2. kept'[k] = kept[k]
        BY <3>1, <4>1 DEF Then
      <4>3. QED
        BY <1>1, <4>1, <4>2
    <3>3. DOMAIN kept' = Keys
      BY <1>3, <3>1
    <3>4. QED
      BY <1>2, <2>1, <3>1, <3>2, <3>3, FileRewritten
  <2>4. CASE RewriteFails
    BY <2>1, <2>4, FileNotRewritten
  <2>5. QED
    BY <1>5, <2>2, <2>3, <2>4, Zenon DEF Repair
<1>6. QED
  BY <1>4, <1>5

\* Opening the log, replaying and verifying it change nothing of the file.
LEMMA FileRead ==
    ASSUME FileInv,
           OpenLog \/ \E mode \in {"Skip", "Strict"} : ReplayLog(mode) \/ VerifyIntegrity(mode)
    PROVE  FileInv'
<1>1. /\ writer' = writer /\ bad' = bad /\ kept' = kept /\ lost' = lost
      /\ opened' = opened \/ opened' = TRUE
  BY Zenon DEF OpenLog, ReplayLog, VerifyIntegrity
<1>2. flagged' \in BOOLEAN
  <2>1. flagged \in BOOLEAN
    BY DEF FileInv, LogTypeOK
  <2>2. QED
    BY <2>1, ScannedTypes, Zenon DEF OpenLog, ReplayLog, VerifyIntegrity
<1>3. QED
  BY <1>1, <1>2, Zenon DEF FileInv, LogTypeOK, FileRemembers

\* The invariant is kept by every step.
LEMMA FileStep == FileInv /\ [LogNext]_aofVars => FileInv'
<1> SUFFICES ASSUME FileInv, [LogNext]_aofVars PROVE FileInv'
  OBVIOUS
<1>1. CASE AppendSet
  <2>1. PICK k \in Keys, v \in LogValues : AppendOne(SetRec(k, v))
    BY <1>1 DEF AppendSet
  <2>2. SetRec(k, v) \in LogEntries
    BY DEF SetRec, LogEntries
  <2>3. QED
    BY <2>1, <2>2, FileAppend
<1>2. CASE AppendDel
  <2>1. PICK k \in Keys : AppendOne(DelRec(k))
    BY <1>2 DEF AppendDel
  <2>2. DelRec(k) \in LogEntries
    BY DEF DelRec, LogEntries
  <2>3. QED
    BY <2>1, <2>2, FileAppend
<1>3. CASE UNCHANGED aofVars
  BY <1>3 DEF aofVars, FileInv, LogTypeOK, FileRemembers
<1>4. QED
  BY <1>1, <1>2, <1>3, FileFlush, FileCrash, FileDecay, FileRepair, FileRead DEF LogNext

\* A new file.
LEMMA FileStart == LogInit => FileInv
<1> SUFFICES ASSUME LogInit PROVE FileInv
  OBVIOUS
<1>1. writer \in LogType(LogEntries) /\ writer.file = <<>> /\ DOMAIN bad = {}
  BY DEF LogInit, NewLog, LogType
<1>2. LogTypeOK
  <2>1. writer.pending = 0 /\ writer.buf = <<>> /\ 0 \in 0 .. BatchSize
    BY BatchSizeAssumption DEF LogInit, NewLog
  <2>2. QED
    BY <1>1, <2>1, Zenon DEF LogInit, LogTypeOK
<1>3. ReadBack(<<>>, {}) = Replay(<<>>)
  BY DEF ReadBack, Replay, About
<1>4. DOMAIN kept = Keys
  BY DEF LogInit, Replay
<1>5. QED
  BY <1>1, <1>2, <1>3, <1>4 DEF FileInv, FileRemembers, LogInit

(***************************************************************************)
(* For any keys, values, policy and batch size, whatever sequence of       *)
(* appends, flushes, crashes with torn tails, decayed records, rewrites    *)
(* and repairs, succeeding or failing, the file has been through, reading  *)
(* it back gives for every key what the records that reached it whole and  *)
(* have not decayed say.  The exception is a key with a record in the      *)
(* buffer when a repair rewrites: that record reaches only the file that is*)
(* replaced (aof.rs, rewrite and repair).                                  *)
(***************************************************************************)
THEOREM FilesRemember == LogSpec => []FileRemembers
<1>1. LogSpec => []FileInv
  BY FileStart, FileStep, PTL DEF LogSpec
<1>2. FileInv => FileRemembers
  BY DEF FileInv
<1>3. QED
  BY <1>1, <1>2, PTL

\* The bookkeeping of AofLog keeps its types: pending_ops never passes
\* batch_size, and damage is damage to records of the file.
THEOREM LogTypes == LogSpec => []LogTypeOK
<1>1. LogSpec => []FileInv
  BY FileStart, FileStep, PTL DEF LogSpec
<1>2. FileInv => LogTypeOK
  BY DEF FileInv
<1>3. QED
  BY <1>1, <1>2, PTL

(***************************************************************************)
(* A repair that may rewrite, and whose rewrite does not fail, leaves no   *)
(* damage when there was a torn tail or a checksum error: reading the file has counted it, whatever the      *)
(* counters were before (aof.rs, repair).                                  *)
(***************************************************************************)
THEOREM RepairsHeal == LogSpec => RepairHealsTorn
<1>1. [LogNext]_aofVars =>
         [(/\ report' # report /\ report'.mode \in {"Skip", "Recover"} /\ ~ report'.failed
           /\ \E i \in DOMAIN bad : bad[i] # "op")
             => bad' = <<>>]_aofVars
  <2> SUFFICES ASSUME LogNext, report'.mode \in {"Skip", "Recover"}, ~ report'.failed,
                      NEW i \in DOMAIN bad, bad[i] # "op"
               PROVE  bad' = <<>>
    BY SMTT(30)
  <2>1. report' # NoReport
    BY DEF NoReport
  <2>2. PICK mode \in Modes : Repair(mode)
    BY <2>1, Zenon DEF LogNext, OpenLog, AppendSet, AppendDel, AppendOne, FlusherTick, Close, LogCrash,
       Decay, ReplayLog, VerifyIntegrity, Rewrite
  <2>3. mode # "Strict"
    <3>1. report'.mode = mode
      BY <2>2 DEF Repair
    <3>2. QED
      BY <3>1
  <2>4. Scanned(mode, flagged) = {TRUE}
    BY <2>3, Zenon DEF Scanned
  <2>5. RepairRewrites
    <3>1. NeedsRewrite(flagged')
      BY <2>2, <2>4, Zenon DEF Repair, NeedsRewrite
    <3>2. RepairRewrites \/
             report' = [mode |-> mode, modified |-> NeedsRewrite(flagged'),
                        changed |-> FALSE, failed |-> TRUE]
      BY <2>2, <2>3, <3>1, Zenon DEF Repair
    <3>3. QED
      BY <3>2
  <2>6. QED
    BY <2>5 DEF RepairRewrites
<1>2. QED
  BY <1>1, PTL DEF LogSpec, RepairHealsTorn
=============================================================================
