------------------------------ MODULE Requests ------------------------------
(***************************************************************************)
(* What a connection's handler does with a request, and what the server    *)
(* keeps about its connections (src/src/network/connection.rs,             *)
(* connection_state.rs, connection_registry.rs, admin_commands.rs).        *)
(*                                                                         *)
(* The first half is the two dispatchers: process_command for a line of    *)
(* text and execute_store_command for a ZSP command, on one store.  They   *)
(* do not await, so a command is one step.  A line is the sequence of its  *)
(* words, where the numbers of a GEO command are one word; a reply keeps   *)
(* its kind and what it carries.                                           *)
(*                                                                         *)
(* The second half is the counters and states of connections that come,    *)
(* are served and go, and the registry that the administrative commands    *)
(* read.  What a request does to the store is left out there.              *)
(***************************************************************************)
EXTENDS Integers, FiniteSetsExt, SequencesExt

CONSTANTS
    LineKeys,    \* keys in requests
    Words,       \* values and members in requests
    PopCounts,   \* counts in requests; 0 stands for what is not positive
    Slots,       \* connections that can be open at a time
    SlotIp,      \* slot -> the characters of its client's address
    IdWidth,     \* number of connection ids, 2^32
    MaxServed,   \* bound: connections that are ever registered
    MaxRequests, \* bound: requests of a connection
    ReadSizes,   \* numbers of bytes of a read
    ReplySizes   \* numbers of bytes of a reply

ASSUME RequestsAssumption ==
    /\ IdWidth \in Nat \ {0} /\ MaxServed \in Nat /\ MaxRequests \in Nat
    /\ PopCounts \subseteq Nat /\ ReadSizes \subseteq Nat /\ ReplySizes \subseteq Nat

(***************************************************************************)
(* The store, as the handler calls it.  The persistent engine may fail to  *)
(* log: SET logs first, the others change the key first.                   *)
(***************************************************************************)
VARIABLES
    engine,      \* "memory" or "persistent", or "none" when nothing is dispatched
    base         \* [kv |-> key -> value, geo |-> key -> member -> place]

dispatchVars == <<engine, base>>

NoKey == <<"none">>
StrOf(w) == <<"str", w>>
Number == <<"int">>
SetOf(S) == <<"set", S>>

\* Bytes that are no UTF-8, which only a ZSP client can store, and what
\* from_utf8_lossy makes of them
RawBytes == "raw"
Lossy(w) == IF w = RawBytes THEN "replaced" ELSE w

Places == {"there", "origin"}

DispatchInit ==
    /\ engine \in {"none", "memory", "persistent"}
    /\ base = [kv |-> [k \in LineKeys |-> NoKey], geo |-> [k \in LineKeys |-> <<>>]]

Good(x, s) == [ok |-> TRUE, val |-> x, store |-> s]
Bad(s) == [ok |-> FALSE, val |-> 0, store |-> s]
MayFail(s) == IF engine = "persistent" THEN {Bad(s)} ELSE {}
With(s, k, v) == [s EXCEPT !.kv[k] = v]

EngineSet(s, k, v) == {Good(0, With(s, k, v))} \cup MayFail(s)

EngineDel(s, k) ==
    LET t == With(s, k, NoKey)
    IN  IF s.kv[k] = NoKey THEN {Good(FALSE, s)} ELSE {Good(TRUE, t)} \cup MayFail(t)

\* Use(S) of the set at k, `none` when there is no key, an error for another type
OnSet(s, k, none, Use(_)) ==
    CASE s.kv[k] = NoKey -> none
      [] s.kv[k][1] = "set" -> Use(s.kv[k][2])
      [] OTHER -> {Bad(s)}

EngineSAdd(s, k, M) ==
    LET Add(S) == LET t == With(s, k, SetOf(S \cup M))
                  IN  {Good(Cardinality(M \ S), t)} \cup MayFail(t)
    IN  OnSet(s, k, Add({}), Add)

Shrunk(s, k, S) == With(s, k, IF S = {} THEN NoKey ELSE SetOf(S))

EngineSRem(s, k, M) ==
    OnSet(s, k, {Good(0, s)},
          LAMBDA S : LET t == Shrunk(s, k, S \ M)
                     IN  {Good(Cardinality(S \cap M), t)} \cup MayFail(t))

EngineSPop(s, k, n) ==
    OnSet(s, k, {Good({}, s)},
          LAMBDA S : UNION {LET t == Shrunk(s, k, S \ P) IN {Good(P, t)} \cup MayFail(t) :
                            P \in kSubset(Min({Max({n, 1}), Cardinality(S)}), S)})

EngineSRandMember(s, k, n) ==
    OnSet(s, k, {Good({}, s)},
          LAMBDA S : {Good(P, s) : P \in kSubset(Min({n, Cardinality(S)}), S)})

EngineSMembers(s, k) == OnSet(s, k, {Good({}, s)}, LAMBDA S : {Good(S, s)})

EngineSCard(s, k) == OnSet(s, k, {Good(0, s)}, LAMBDA S : {Good(Cardinality(S), s)})

EngineSIsMember(s, k, m) == OnSet(s, k, {Good(FALSE, s)}, LAMBDA S : {Good(m \in S, s)})

EngineMGet(s, ks) == {Good([i \in DOMAIN ks |-> s.kv[ks[i]]], s)}

\* The geo sets of the memory engine; which members a radius covers is the
\* subject of GeoSet.
MembersAt(s, k) == DOMAIN s.geo[k]

EngineGeoAdd(s, k, place, m) ==
    {Good(m \notin MembersAt(s, k),
          [s EXCEPT !.geo[k] = [x \in MembersAt(s, k) \cup {m} |->
                                   IF x = m THEN place ELSE s.geo[k][x]]])}

EngineGeoRadius(s, k) == {Good(M, s) : M \in SUBSET MembersAt(s, k)}

(***************************************************************************)
(* process_command: a line of text                                         *)
(***************************************************************************)
Simple(x) == <<"+", x>>
Bulk(x) == <<"$", x>>
Nil == <<"$-1">>
Num(n) == <<":", n>>
Array(x) == <<"*", x>>
Err == <<"-">>
IsErr(r) == r[1] = "-"

Replied(outs, Reply(_)) ==
    {[reply |-> IF o.ok THEN Reply(o.val) ELSE Err, store |-> o.store] : o \in outs}
Just(r, s) == {[reply |-> r, store |-> s]}
YesNo(b) == Num(IF b THEN 1 ELSE 0)

Parsed(t) == IF t \in PopCounts THEN t ELSE 1
PlaceOf(t) == IF t \in Places THEN t ELSE "origin"

OneOrAll(n, P) ==
    CASE n # 1 -> Array(P)
      [] P = {} -> Nil
      [] OTHER -> Bulk(CHOOSE x \in P : TRUE)

ShownText(v) ==
    CASE v = NoKey -> Nil
      [] v[1] = "str" /\ v[2] # RawBytes -> Simple(v[2])
      [] OTHER -> Err

\* The length that goes with the replaced bytes is that of the stored ones.
ShownInArray(v) == IF v[1] = "str" THEN Bulk(Lossy(v[2])) ELSE Nil

Pairs(args) == [i \in 1..(Len(args) \div 2) |-> <<args[2 * i - 1], args[2 * i]>>]

SetAllAnyway(s, pairs) ==
    FoldLeft(LAMBDA outs, p :
                UNION {LET next == EngineSet(o.store, p[1], p[2])
                       IN  IF o.ok THEN next ELSE {Bad(n.store) : n \in next} : o \in outs},
             {Good(0, s)}, pairs)

\* One engine.set after the other, up to the first that fails
SetAll(s, pairs) ==
    FoldLeft(LAMBDA outs, p : UNION {IF o.ok THEN EngineSet(o.store, p[1], p[2]) ELSE {o} : o \in outs},
             {Good(0, s)}, pairs)

PopReply(s, k, n) == Replied(EngineSPop(s, k, n), LAMBDA P : OneOrAll(n, P))

TextMSet(s, args) ==
    IF Len(args) % 2 # 0 THEN Just(Err, s)
    ELSE Replied(SetAll(s, [i \in DOMAIN Pairs(args) |-> <<Pairs(args)[i][1], StrOf(Pairs(args)[i][2])>>]),
                 LAMBDA x : Simple("OK"))

SetCommand(name, s, line) ==
    LET k == line[2]
        n == Len(line)
        M == {line[i] : i \in 3..n}
    IN  CASE name = "SADD" /\ n >= 3 -> Replied(EngineSAdd(s, k, M), Num)
          [] name = "SREM" /\ n >= 3 -> Replied(EngineSRem(s, k, M), Num)
          [] name = "SMEMBERS" /\ n = 2 -> Replied(EngineSMembers(s, k), Array)
          [] name = "SCARD" /\ n = 2 -> Replied(EngineSCard(s, k), Num)
          [] name = "SISMEMBER" /\ n = 3 ->
                Replied(EngineSIsMember(s, k, line[3]), YesNo)
          [] name = "SRANDMEMBER" /\ n \in {2, 3} ->
                LET c == IF n = 3 THEN Parsed(line[3]) ELSE 1
                IN  Replied(EngineSRandMember(s, k, c), LAMBDA P : OneOrAll(c, P))
          [] name = "SPOP" /\ n \in {2, 3} ->
                PopReply(s, k, IF n = 3 THEN Parsed(line[3]) ELSE 1)
          [] OTHER -> Just(Err, s)

GeoCommand(name, s, line) ==
    LET k == line[2]
        n == Len(line)
    IN  CASE name = "GEOADD" /\ n = 4 -> Replied(EngineGeoAdd(s, k, PlaceOf(line[3]), line[4]), YesNo)
          [] name = "GEOPOS" /\ n = 3 ->
                Just(IF line[3] \in MembersAt(s, k) THEN Array(s.geo[k][line[3]]) ELSE Nil, s)
          [] name = "GEODIST" /\ n = 4 ->
                Just(IF {line[3], line[4]} \subseteq MembersAt(s, k) THEN Simple("distance") ELSE Nil, s)
          [] name = "GEORADIUS" /\ n = 3 -> Replied(EngineGeoRadius(s, k), Array)
          [] OTHER -> Just(Err, s)

ProcessCommand(s, line) ==
    LET n == Len(line)
        name == line[1]
    IN  CASE n = 0 -> Just(<<"">>, s)
          [] n > 0 /\ name = "PING" -> Just(Simple(IF n = 1 THEN "PONG" ELSE line[2]), s)
          [] n > 0 /\ name = "QUIT" -> Just(Simple("OK"), s)
          [] n = 3 /\ name = "SET" -> Replied(EngineSet(s, line[2], StrOf(line[3])), LAMBDA x : Simple("OK"))
          [] n = 2 /\ name = "GET" -> Just(ShownText(s.kv[line[2]]), s)
          [] n = 2 /\ name = "DEL" -> Replied(EngineDel(s, line[2]), YesNo)
          [] n > 1 /\ name = "MSET" -> TextMSet(s, Tail(line))
          [] n > 1 /\ name = "MGET" ->
                Replied(EngineMGet(s, Tail(line)),
                        LAMBDA vs : Array([i \in DOMAIN vs |-> ShownInArray(vs[i])]))
          [] n > 1 /\ name \in {"SADD", "SREM", "SMEMBERS", "SCARD", "SISMEMBER", "SRANDMEMBER", "SPOP"} ->
                SetCommand(name, s, line)
          [] n > 1 /\ name \in {"GEOADD", "GEOPOS", "GEODIST", "GEORADIUS"} -> GeoCommand(name, s, line)
          [] OTHER -> Just(Err, s)

(***************************************************************************)
(* execute_store_command: a ZSP command, whose values may be integers      *)
(***************************************************************************)
ShownZsp(v) ==
    CASE v = NoKey -> Nil
      [] v[1] = "str" -> Bulk(v[2])
      [] OTHER -> Err

ZspSetOnward(s, pairs) == Replied(SetAllAnyway(s, pairs), LAMBDA x : Simple("OK"))

ZspSet(s, pairs) == Replied(SetAll(s, pairs), LAMBDA x : Simple("OK"))

ExecuteStoreCommand(s, cmd) ==
    LET name == cmd[1]
    IN  CASE name = "SET" -> ZspSet(s, <<<<cmd[2], cmd[3]>>>>)
          [] name = "GET" -> Just(ShownZsp(s.kv[cmd[2]]), s)
          [] name = "DEL" -> Replied(EngineDel(s, cmd[2]), YesNo)
          [] name = "MSET" -> ZspSet(s, Pairs(Tail(cmd)))
          [] name = "MGET" ->
                Replied(EngineMGet(s, Tail(cmd)), LAMBDA vs : Array([i \in DOMAIN vs |-> ShownZsp(vs[i])]))
          [] OTHER -> Just(Err, s)

-----------------------------------------------------------------------------
\* The requests: right and wrong numbers of arguments, words that are no numbers
KeyLines == {<<name, k>> : name \in {"GET", "DEL", "MGET", "MSET", "SMEMBERS", "SCARD", "SPOP", "SRANDMEMBER"},
                           k \in LineKeys}
WordLines == {<<name, k, w>> : name \in {"SET", "SADD", "SREM", "SISMEMBER", "SPOP"},
                               k \in LineKeys, w \in Words}
PairLines == {<<"MSET", k, v, l, w>> : k, l \in LineKeys, v, w \in Words}
                \cup {<<"MGET", k, l>> : k, l \in LineKeys}
CountLines == {<<name, k, n>> : name \in {"SPOP", "SRANDMEMBER"}, k \in LineKeys, n \in PopCounts}
GeoLines == {<<"GEOADD", k, p, w>> : k \in LineKeys, p \in {"there", "word"}, w \in Words}
                \cup {<<"GEOPOS", k, w>> : k \in LineKeys, w \in Words}
                \cup {<<"GEODIST", k, v, w>> : k \in LineKeys, v, w \in Words}
                \cup {<<"GEORADIUS", k, "there">> : k \in LineKeys}
OtherLines == {<<>>, <<"PING">>, <<"PING", "x">>, <<"QUIT">>, <<"NONE">>}
                \cup {<<name, k>> : name \in {"SET", "SADD", "GEOPOS"}, k \in LineKeys}

TextLines == KeyLines \cup WordLines \cup PairLines \cup CountLines \cup OtherLines

ZspCommands ==
    {<<name, k>> : name \in {"GET", "DEL", "SETNX"}, k \in LineKeys}
       \cup {<<"MGET", k, l>> : k, l \in LineKeys}
       \cup {<<"SET", k, v>> : k \in LineKeys, v \in {Number} \cup {StrOf(w) : w \in Words \cup {RawBytes}}}
       \cup {<<"MSET", k, StrOf(v), l, StrOf(w)>> : k, l \in LineKeys, v, w \in Words}

LinesNow ==
    CASE engine = "none" -> {}
      [] engine = "memory" -> TextLines \cup GeoLines
      [] engine = "persistent" -> TextLines

TextRequest ==
    /\ \E line \in LinesNow : \E o \in ProcessCommand(base, line) : base' = o.store
    /\ UNCHANGED engine

ZspRequest ==
    /\ engine # "none"
    /\ \E cmd \in ZspCommands : \E o \in ExecuteStoreCommand(base, cmd) : base' = o.store
    /\ UNCHANGED engine

DispatchNext == TextRequest \/ ZspRequest

-----------------------------------------------------------------------------
\* What a client learns from a reply, by whichever protocol
Learned(r) ==
    CASE r[1] \in {"+", "$"} -> <<"value", r[2]>>
      [] r[1] = "*" -> <<"values", [i \in DOMAIN r[2] |-> IF r[2][i][1] = "$" THEN r[2][i] ELSE Nil]>>
      [] OTHER -> r

Effects(outs) == {<<Learned(o.reply), o.store>> : o \in outs}

InZsp(line) ==
    CASE line[1] = "SET" -> <<"SET", line[2], StrOf(line[3])>>
      [] line[1] = "MSET" -> <<"MSET", line[2], StrOf(line[3]), line[4], StrOf(line[5])>>
      [] OTHER -> line

SharedLines ==
    {line \in KeyLines \cup WordLines \cup PairLines :
        \/ line[1] \in {"GET", "DEL", "MGET", "SET"}
        \/ line[1] = "MSET" /\ Len(line) = 5}

ReadsRaw(line) ==
    line[1] \in {"GET", "MGET"} /\ \E i \in 2..Len(line) : base.kv[line[i]] = StrOf(RawBytes)

\* A command sent as a line of text and as a ZSP command does the same to the
\* store and tells its client the same: process_command and
\* execute_store_command agree, also when the engine fails half-way (a value
\* that is no string is null in a text MGET and an error in a ZSP one).  Only
\* bytes that are no UTF-8 are answered as they are to a ZSP client alone: a
\* text GET refuses them, a text MGET shows others.
ProtocolsAgree ==
    \A line \in SharedLines \cap LinesNow :
       LET text == ProcessCommand(base, line)
           zsp == ExecuteStoreCommand(base, InZsp(line))
       IN  IF ReadsRaw(line)
           THEN \A o \in text, p \in zsp :
                   /\ o.store = base /\ p.store = base /\ ~IsErr(p.reply)
                   /\ IsErr(o.reply) = (line[1] = "GET") /\ Learned(o.reply) # Learned(p.reply)
           ELSE Effects(text) = Effects(zsp)

\* The store after the first i pairs of an MSET
AfterPairs(pairs, i) ==
    [k \in LineKeys |-> LET at == {j \in 1..i : pairs[j][1] = k}
                        IN  IF at = {} THEN base.kv[k] ELSE StrOf(pairs[Max(at)][2])]

\* A line that is answered with an error changed nothing.  Two exceptions: of
\* an MSET the pairs before the one that failed are written, and none after
\* it; and a DEL, SADD, SREM or SPOP that could not be logged has been done.
RefusedChanges ==
    \A line \in LinesNow : \A o \in ProcessCommand(base, line) :
       IsErr(o.reply) =>
          \/ o.store = base
          \/ /\ line[1] = "MSET"
             /\ \E i \in 1..(Len(line) \div 2 - 1) : o.store.kv = AfterPairs(Pairs(Tail(line)), i)
          \/ /\ engine = "persistent" /\ line[1] \in {"DEL", "SADD", "SREM", "SPOP"}
             /\ \E p \in ProcessCommand(base, line) : ~IsErr(p.reply) /\ p.store = o.store

InSet(v) == IF v[1] = "set" THEN v[2] ELSE {}

\* The members that SPOP answers are the ones it took out of the set: no
\* element disappears without having been handed to the client that popped it.
PoppedIsAnswered ==
    \A line \in {x \in LinesNow : x # <<>>} : line[1] = "SPOP" =>
       \A o \in ProcessCommand(base, line) :
          LET gone == InSet(base.kv[line[2]]) \ InSet(o.store.kv[line[2]])
          IN  CASE o.reply[1] = "*" -> o.reply[2] = gone
                [] o.reply[1] = "$" -> {o.reply[2]} = gone
                [] o.reply = Nil -> gone = {}
                [] OTHER -> engine = "persistent" \/ gone = {}

(***************************************************************************)
(* Connections, their counters and the registry                            *)
(***************************************************************************)
VARIABLES
    conn,        \* slot -> the connection's number, its id, and where its task is
    info,        \* slot -> its ConnectionInfo
    entries,     \* connections of the registry: id -> slot whose info it has
    idCounter,   \* id_counter
    served,      \* connections registered so far
    answered,    \* slot -> replies, and their bytes, that were written
    outlived     \* some connection was open while IdWidth others registered

registryVars == <<conn, info, entries, idCounter, served, answered, outlived>>

Closed == [nr |-> 0, id |-> 0, at |-> "free", kind |-> "none", in |-> 0, left |-> 0]
NoReply == [n |-> 0, bytes |-> 0]

\* ConnectionInfo::new; the handler's constructor makes it idle
Counters == [commands |-> 0, sent |-> 0, received |-> 0]
NewInfo(ip) == [ip |-> ip, state |-> "idle", meta |-> Counters, stats |-> Counters, errors |-> 0]

RegistryInit ==
    /\ conn = [c \in Slots |-> Closed]
    /\ info = [c \in Slots |-> NewInfo(SlotIp[c])]
    /\ answered = [c \in Slots |-> NoReply]
    /\ entries = <<>>
    /\ idCounter = 0 /\ served = 0
    /\ outlived = FALSE

Open == {c \in Slots : conn[c].at # "free"}
At(c, p) == conn[c].at = p
Move(c, p) == conn' = [conn EXCEPT ![c].at = p]

\* The addition wraps in a release build.
NextId == (idCounter + 1) % IdWidth

RegisterConnection(c) ==
    /\ At(c, "free") /\ served < MaxServed
    /\ served' = served + 1
    /\ conn' = [conn EXCEPT ![c] = [@ EXCEPT !.nr = served', !.id = NextId, !.at = "loop",
                                             !.left = MaxRequests]]
    /\ info' = [info EXCEPT ![c] = NewInfo(SlotIp[c])]
    /\ entries' = [i \in DOMAIN entries \cup {NextId} |-> IF i = NextId THEN c ELSE entries[i]]
    /\ idCounter' = NextId
    /\ answered' = [answered EXCEPT ![c] = NoReply]
    /\ outlived' = (outlived \/ \E d \in Open : served' - conn[d].nr >= IdWidth)

\* record_command counts in the metadata, under its lock, and in the atomics
CountedIn(x, in, out) ==
    [x EXCEPT !.commands = @ + 1, !.received = @ + in, !.sent = @ + out]

RecordCommand(i, in, out) ==
    [i EXCEPT !.meta = CountedIn(@, in, out), !.stats = CountedIn(@, in, out)]

RecordError(i) == [i EXCEPT !.errors = @ + 1]
SetState(i, st) == [i EXCEPT !.state = st]

Update(c, i) == info' = [info EXCEPT ![c] = i]

\* A read gives the end of a line of text, or a ZSP frame, or it does not:
\* then the handler reads on.  A line that came in several reads is counted
\* with the bytes of the last one.
ReadRequest(c) ==
    /\ At(c, "loop") /\ conn[c].left > 0
    /\ \E kind \in {"line", "quit", "frame", "refused", "undecodable"}, n \in ReadSizes :
          /\ conn' = [conn EXCEPT ![c] = [@ EXCEPT !.at = "replying", !.kind = kind, !.in = n,
                                                   !.left = @ - 1]]
          /\ Update(c, CASE kind = "undecodable" -> RecordError(info[c])
                         [] kind = "refused" -> RecordError(SetState(info[c], "processing"))
                         [] OTHER -> SetState(info[c], "processing"))
    /\ UNCHANGED <<entries, idCounter, served, answered, outlived>>

\* The reply is written.  QUIT is counted as a command, and as an error when
\* the loop is left.
ReplyWritten(c) ==
    /\ At(c, "replying")
    /\ \E out \in ReplySizes :
          LET kind == conn[c].kind
              done == RecordCommand(info[c], IF kind = "frame" THEN 0 ELSE conn[c].in, out)
              counts == kind \in {"line", "quit", "frame"}
          IN  /\ Update(c, CASE kind = "quit" -> SetState(RecordError(done), "closing")
                             [] kind \in {"line", "frame"} -> SetState(done, "idle")
                             [] kind = "refused" -> SetState(info[c], "idle")
                             [] OTHER -> info[c])
              /\ answered' = IF counts THEN [answered EXCEPT ![c] =
                                               [n |-> @.n + 1, bytes |-> @.bytes + out]]
                             ELSE answered
              /\ Move(c, IF kind = "quit" THEN "closing" ELSE "loop")
    /\ UNCHANGED <<entries, idCounter, served, outlived>>

ReplyFailedStays(c) ==
    /\ At(c, "replying")
    /\ LET frame == conn[c].kind \in {"frame", "refused"}
       IN  /\ Update(c, SetState(RecordError(info[c]), IF frame THEN "processing" ELSE "closing"))
           /\ Move(c, IF frame THEN "loop" ELSE "closing")
    /\ UNCHANGED <<entries, idCounter, served, answered, outlived>>

\* It cannot be written: a line and an undecodable frame end the connection,
\* a ZSP command does not.
ReplyFailed(c) ==
    /\ At(c, "replying")
    /\ LET frame == conn[c].kind \in {"frame", "refused"}
       IN  /\ Update(c, SetState(RecordError(info[c]), IF frame THEN "idle" ELSE "closing"))
           /\ Move(c, IF frame THEN "loop" ELSE "closing")
    /\ UNCHANGED <<entries, idCounter, served, answered, outlived>>

\* The client closed or broke the connection, it was idle, the server stops,
\* or the read failed: only that is an error.
LeaveLoop(c) ==
    /\ At(c, "loop")
    /\ \E failed \in BOOLEAN :
          Update(c, SetState(IF failed THEN RecordError(info[c]) ELSE info[c], "closing"))
    /\ Move(c, "closing")
    /\ UNCHANGED <<entries, idCounter, served, answered, outlived>>

\* A read that takes too long is counted, the client is told, and then the
\* state is set.
ReadTimeout(c) ==
    /\ At(c, "loop")
    /\ Update(c, RecordError(info[c]))
    /\ Move(c, "parting")
    /\ UNCHANGED <<entries, idCounter, served, answered, outlived>>

Parted(c) ==
    /\ At(c, "parting")
    /\ Update(c, SetState(info[c], "closing"))
    /\ Move(c, "closing")
    /\ UNCHANGED <<entries, idCounter, served, answered, outlived>>

\* The end of handle_connection removes whatever has the id.
UnregisterConnection(c) ==
    /\ At(c, "closing")
    /\ entries' = [i \in DOMAIN entries \ {conn[c].id} |-> entries[i]]
    /\ conn' = [conn EXCEPT ![c] = Closed]
    /\ info' = [info EXCEPT ![c] = NewInfo(SlotIp[c])]
    /\ answered' = [answered EXCEPT ![c] = NoReply]
    /\ UNCHANGED <<idCounter, served, outlived>>

RegistryNext ==
    \E c \in Slots : \/ RegisterConnection(c) \/ ReadRequest(c)
                     \/ ReplyWritten(c) \/ ReplyFailed(c)
                     \/ LeaveLoop(c) \/ ReadTimeout(c) \/ Parted(c) \/ UnregisterConnection(c)

(***************************************************************************)
(* The administrative commands                                             *)
(***************************************************************************)
\* A snapshot shows the metadata, not the atomics.
Snapshot(id) ==
    LET i == info[entries[id]]
    IN  [id |-> id, ip |-> i.ip, state |-> i.state, counters |-> i.meta]

AllSnapshots == {Snapshot(id) : id \in DOMAIN entries}

StartsWith(ip, text) == Len(text) <= Len(ip) /\ SubSeq(ip, 1, Len(text)) = text

SnapshotsByIp(ip) == {x \in AllSnapshots : StartsWith(x.ip, ip)}

Total(Of(_)) == MapThenSumSet(LAMBDA id : Of(info[entries[id]]), DOMAIN entries)

GlobalStats ==
    [active |-> Cardinality(DOMAIN entries),
     commands |-> Total(LAMBDA i : i.stats.commands),
     sent |-> Total(LAMBDA i : i.stats.sent),
     received |-> Total(LAMBDA i : i.stats.received),
     errors |-> Total(LAMBDA i : i.errors)]

\* No connection has a user name.
ClientInfo(id) == IF id \in DOMAIN entries THEN Bulk(Snapshot(id)) ELSE Err
ClientGetName(id) == IF id \in DOMAIN entries THEN Nil ELSE Err

NotAdmin == <<"not an administrative command">>

\* AdminCommands::execute
AdminReply(parts) ==
    LET n == Len(parts)
        Is(i, word) == n >= i /\ parts[i] = word
        Client(word) == Is(1, "CLIENT") /\ Is(2, word)
        ForId(Reply(_)) == IF parts[3] \in 0..(IdWidth - 1) THEN Reply(parts[3]) ELSE Err
    IN  CASE Client("LIST") -> Array(AllSnapshots)
          [] Client("COUNT") -> Num(Cardinality(DOMAIN entries))
          [] Client("INFO") /\ n >= 3 -> ForId(ClientInfo)
          [] Client("GETNAME") /\ n >= 3 -> ForId(ClientGetName)
          [] Client("BY") /\ n >= 4 /\ Is(3, "IP") -> Array(SnapshotsByIp(parts[4]))
          [] Is(1, "SERVER") /\ Is(2, "STATS") -> Bulk(GlobalStats)
          [] OTHER -> NotAdmin

(***************************************************************************)
(* Properties                                                              *)
(***************************************************************************)
\* However its requests end, a connection's two sets of counters agree, and
\* count the replies that were written and their bytes: a request whose reply
\* could not be written is in neither (record_command comes after the write).
CountsExact ==
    \A c \in Open :
       /\ info[c].meta = info[c].stats
       /\ info[c].stats.commands = answered[c].n
       /\ info[c].stats.sent = answered[c].bytes

\* CLIENT LIST shows a connection as processing exactly while a request of its
\* is being answered, and as closing exactly when its loop is left.
StateTruthful ==
    \A c \in Open :
       /\ info[c].state = "processing" <=> At(c, "replying") /\ conn[c].kind # "undecodable"
       /\ info[c].state = "closing" <=> At(c, "closing")

\* As long as no connection stays open while IdWidth others come, the ids of
\* open connections are their own: each answers to its id with its own
\* counters, CLIENT LIST and CLIENT COUNT show all of them and no other,
\* CLIENT BY IP finds those of an address, and SERVER STATS is their sum.
AdminExact ==
    ~outlived =>
       /\ DOMAIN entries = {conn[c].id : c \in Open}
       /\ \A c \in Open :
             LET own == [id |-> conn[c].id, ip |-> SlotIp[c], state |-> info[c].state,
                         counters |-> info[c].stats]
             IN  /\ AdminReply(<<"CLIENT", "INFO", conn[c].id>>) = Bulk(own)
                 /\ own \in AdminReply(<<"CLIENT", "LIST">>)[2]
                 /\ own \in AdminReply(<<"CLIENT", "BY", "IP", SlotIp[c]>>)[2]
                 /\ AdminReply(<<"CLIENT", "GETNAME", conn[c].id>>) = Nil
       /\ AdminReply(<<"CLIENT", "COUNT">>) = Num(Cardinality(Open))
       /\ AdminReply(<<"SERVER", "STATS">>)[2].commands
             = MapThenSumSet(LAMBDA c : answered[c].n, Open)

\* What the registry and the commands on it say of a connection is true: its
\* counters, its state, and the answers of CLIENT LIST, INFO, GETNAME, BY IP and
\* of the global statistics (connection_registry.rs, admin_commands.rs).
RegistryTruthful == CountsExact /\ StateTruthful /\ AdminExact

\* The dispatchers of text lines and of ZSP frames do the same with the same
\* command, a refused command changes nothing beyond what it had done before
\* the refusal, and what SPOP removes is what it answers (connection.rs).
RequestsAnswered == ProtocolsAgree /\ RefusedChanges /\ PoppedIsAnswered
=============================================================================
