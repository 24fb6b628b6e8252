------------------------------- MODULE Server -------------------------------
(***************************************************************************)
(* The server's life and the life of its connections                       *)
(* (src/src/network/server.rs, connection.rs, connection_registry.rs and   *)
(* run_server of src/src/main.rs).                                         *)
(*                                                                         *)
(* Everything runs on one thread: the accept loop and one task for each    *)
(* connection, which hand over to each other where they await.  A step of  *)
(* this module is what a task does between two such points.  A command is  *)
(* executed without awaiting; what it does to the store is left out.       *)
(*                                                                         *)
(* What a client sends is a sequence of items: lines of text, which arrive *)
(* in any pieces, and ZSP frames, which arrive whole here.  What becomes   *)
(* of a frame that arrives in pieces is the subject of Exchange.           *)
(***************************************************************************)
EXTENDS Integers, Sequences, FiniteSets

CONSTANTS
    Conns,       \* connections
    IpOf,        \* connection -> address of the client
    MaxConns,    \* config.max_connections
    MaxPerIp,    \* config.max_connections_per_ip
    Items,       \* the pieces that clients send: a subset of Pieces
    MaxItems     \* bound: connection -> pieces that its client sends

\* A piece of a line that does not end it, the end of QUIT and of any other
\* line, a frame, a frame that makes the handler panic (AUTH with a password
\* and no user), and one that the decoder rejects.
Pieces == {"part", "text", "quit", "zsp", "panic", "bad"}
Ips == {IpOf[c] : c \in Conns}

ASSUME ServerAssumption ==
    /\ MaxConns \in Nat \ {0} /\ MaxPerIp \in Nat \ {0} /\ MaxItems \in [Conns -> Nat]
    /\ Items \subseteq Pieces

VARIABLES
    server,      \* phase of the process
    phase,       \* connection -> where its task is
    sock,        \* connection -> items sent and not yet read
    buf,         \* connection -> recv_buf
    cur,         \* connection -> the pieces of the item that is being answered
    told,        \* connections whose wait for the shutdown signal is over
    permits,     \* free permits of connection_semaphore
    ipCount,     \* ip_connections
    active,      \* active_connections
    registry,    \* connections in the registry
    sent,        \* connection -> all pieces that its client has sent
    executed,    \* connection -> the pieces that were taken out of recv_buf
    panicked     \* connections whose handler panicked

streamVars == <<sock, buf, cur, sent, executed>>
countVars == <<permits, ipCount, active, registry, panicked>>
serverVars == <<server, phase, streamVars, told, countVars>>

ServerInit ==
    /\ server = "accepting"
    /\ phase = [c \in Conns |-> "none"]
    /\ sock = [c \in Conns |-> <<>>] /\ buf = sock /\ sent = sock /\ executed = sock
    /\ cur = sock
    /\ told = {} /\ panicked = {}
    /\ permits = MaxConns
    /\ ipCount = [i \in Ips |-> 0]
    /\ active = 0
    /\ registry = {}

EnterPhase(c, p) == phase' = [phase EXCEPT ![c] = p]
Running(c, p) == server # "exited" /\ phase[c] = p

(***************************************************************************)
(* Accepting: run_server spawns a task, handle_connection begins           *)
(***************************************************************************)
Accept(c) ==
    /\ server = "accepting" /\ phase[c] = "none"
    /\ EnterPhase(c, "accepted")
    /\ UNCHANGED <<server, streamVars, told, countVars>>

CanAccept(c) == permits > 0 /\ ipCount[IpOf[c]] < MaxPerIp

Refuse(c) ==
    /\ Running(c, "accepted") /\ ~CanAccept(c)
    /\ EnterPhase(c, "done")
    /\ UNCHANGED <<server, streamVars, told, countVars>>

\* The permit that was seen to be free is taken without awaiting; the handler
\* begins to wait for input and for the shutdown signal.
Register(c) ==
    /\ Running(c, "accepted") /\ CanAccept(c)
    /\ permits' = permits - 1
    /\ registry' = registry \cup {c}
    /\ ipCount' = [ipCount EXCEPT ![IpOf[c]] = @ + 1]
    /\ active' = active + 1
    /\ EnterPhase(c, "loop")
    /\ UNCHANGED <<server, streamVars, told, panicked>>

(***************************************************************************)
(* The client                                                              *)
(***************************************************************************)
EndsInLine(pieces) == pieces # <<>> /\ pieces[Len(pieces)] = "part"

\* A line that was begun is ended before anything else is sent.
ClientSend(c) ==
    /\ server # "exited" /\ phase[c] \notin {"none", "done"}
    /\ Len(sent[c]) < MaxItems[c]
    /\ \E x \in Items :
          /\ EndsInLine(sent[c]) => x \in {"part", "text", "quit"}
          /\ sock' = [sock EXCEPT ![c] = Append(@, x)]
          /\ sent' = [sent EXCEPT ![c] = Append(@, x)]
    /\ UNCHANGED <<server, phase, buf, cur, executed, told, countVars>>

(***************************************************************************)
(* The loop of ConnectionHandler::run                                      *)
(***************************************************************************)
ReceivedOver(c, k) == SubSeq(sock[c], 1, k)

\* What is read is appended to recv_buf.
Received(c, k) == buf[c] \o SubSeq(sock[c], 1, k)

\* The first item of the buffer ends with its n-th piece.
Complete(data, n) == data[n] # "part" /\ \A i \in 1..n - 1 : data[i] = "part"

Answer(c, item) ==
    /\ cur' = [cur EXCEPT ![c] = item]
    /\ EnterPhase(c, "writing")

\* The buffer holds the beginning of a line: process_buffer leaves it.
KeepLine(c, data) ==
    /\ \A i \in 1..Len(data) : data[i] = "part"
    /\ buf' = [buf EXCEPT ![c] = data]
    /\ UNCHANGED <<phase, cur, executed, countVars>>

\* A frame that the decoder rejects is answered and left where it is.
RejectFrame(c, data) ==
    /\ Head(data) = "bad"
    /\ buf' = [buf EXCEPT ![c] = data]
    /\ Answer(c, <<"bad">>)
    /\ UNCHANGED <<executed, countVars>>

TakeItem(c, data, n) ==
    /\ Complete(data, n)
    /\ buf' = [buf EXCEPT ![c] = SubSeq(data, n + 1, Len(data))]
    /\ executed' = [executed EXCEPT ![c] = @ \o SubSeq(data, 1, n)]

\* process_buffer takes up one item, the first.
ExecuteItem(c, data) ==
    \E n \in 1..Len(data) :
       /\ data[n] \notin {"bad", "panic"}
       /\ TakeItem(c, data, n)
       /\ Answer(c, SubSeq(data, 1, n))
       /\ UNCHANGED countVars

\* A panic ends the task inside handler.run(): the permit is given back when
\* it is dropped, and nothing else of the end of handle_connection happens.
Panic(c, data) ==
    /\ TakeItem(c, data, 1) /\ data[1] = "panic"
    /\ permits' = permits + 1
    /\ panicked' = panicked \cup {c}
    /\ EnterPhase(c, "done")
    /\ UNCHANGED <<cur, ipCount, active, registry>>

\* The wait for the shutdown signal is given up, also when the signal is
\* there, and the next round begins a new one.
Read(c) ==
    /\ Running(c, "loop")
    /\ \E k \in 1..Len(sock[c]) :
          /\ sock' = [sock EXCEPT ![c] = SubSeq(@, k + 1, Len(@))]
          /\ \/ KeepLine(c, Received(c, k)) \/ RejectFrame(c, Received(c, k))
             \/ ExecuteItem(c, Received(c, k)) \/ Panic(c, Received(c, k))
    /\ told' = told \ {c}
    /\ UNCHANGED <<server, sent>>

Ending(c, x) == cur[c][Len(cur[c])] = x

\* The reply is written; QUIT ends the connection.
WriteDone(c) ==
    /\ Running(c, "writing")
    /\ EnterPhase(c, IF Ending(c, "quit") THEN "closing" ELSE "loop")
    /\ cur' = [cur EXCEPT ![c] = <<>>]
    /\ UNCHANGED <<server, sock, buf, sent, executed, told, countVars>>

\* It cannot be written, or not in time.  An error from handle_zsp_frame is
\* logged and the loop goes on.
WriteFail(c) ==
    /\ Running(c, "writing")
    /\ EnterPhase(c, IF Ending(c, "zsp") THEN "loop" ELSE "closing")
    /\ cur' = [cur EXCEPT ![c] = <<>>]
    /\ UNCHANGED <<server, sock, buf, sent, executed, told, countVars>>

\* The client is gone, or the read fails or takes too long, or the connection
\* is idle for too long.
Leave(c) ==
    /\ Running(c, "loop")
    /\ EnterPhase(c, "closing")
    /\ UNCHANGED <<server, streamVars, told, countVars>>

HearShutdown(c) ==
    /\ Running(c, "loop") /\ c \in told
    /\ EnterPhase(c, "closing")
    /\ UNCHANGED <<server, streamVars, told, countVars>>

FinishKeepsIp(c) ==
    /\ Running(c, "closing")
    /\ registry' = registry \ {c}
    /\ active' = active - 1
    /\ permits' = permits + 1
    /\ EnterPhase(c, "done")
    /\ UNCHANGED <<server, streamVars, told, ipCount, panicked>>

\* The end of handle_connection
Finish(c) ==
    /\ Running(c, "closing")
    /\ registry' = registry \ {c}
    /\ ipCount' = [ipCount EXCEPT ![IpOf[c]] = @ - 1]
    /\ active' = active - 1
    /\ permits' = permits + 1
    /\ EnterPhase(c, "done")
    /\ UNCHANGED <<server, streamVars, told, panicked>>

(***************************************************************************)
(* Stopping                                                                *)
(***************************************************************************)
\* A signal ends the accept loop; notify_waiters reaches the handlers that are
\* waiting at this moment.
Signal ==
    /\ server = "accepting"
    /\ server' = "draining"
    /\ told' = {c \in Conns : phase[c] = "loop"}
    /\ UNCHANGED <<phase, streamVars, countVars>>

\* wait_for_shutdown ends when no connection is left
Drained ==
    /\ server = "draining" /\ active = 0
    /\ server' = "joining"
    /\ UNCHANGED <<phase, streamVars, told, countVars>>

DrainTimeoutNever ==
    /\ server = "draining" /\ active < 0
    /\ server' = "joining"
    /\ UNCHANGED <<phase, streamVars, told, countVars>>

\* ... or after shutdown_timeout.
DrainTimeout ==
    /\ server = "draining" /\ active > 0
    /\ server' = "joining"
    /\ UNCHANGED <<phase, streamVars, told, countVars>>

\* Each task is given one more second; the ones that go on are detached.
Join ==
    /\ server = "joining"
    /\ server' = "stopped"
    /\ UNCHANGED <<phase, streamVars, told, countVars>>

\* main then waits for a signal once more, and its end drops all tasks.
SecondSignal ==
    /\ server = "stopped"
    /\ server' = "exited"
    /\ UNCHANGED <<phase, streamVars, told, countVars>>

ServerNext ==
    \/ \E c \in Conns : \/ Accept(c) \/ Refuse(c) \/ Register(c)
                        \/ ClientSend(c)
                        \/ Read(c) \/ WriteDone(c) \/ WriteFail(c)
                        \/ Leave(c) \/ HearShutdown(c) \/ Finish(c)
    \/ Signal \/ Drained \/ DrainTimeout \/ Join \/ SecondSignal

ServerSpec == ServerInit /\ [][ServerNext]_serverVars

\* The runtime polls the two waits of the stopping server, which both have a
\* time limit.  Nothing is assumed of clients and handlers.
ServerFair == WF_serverVars(Drained \/ DrainTimeout) /\ WF_serverVars(Join)

(***************************************************************************)
(* Properties                                                              *)
(***************************************************************************)
Live == {c \in Conns : phase[c] \in {"loop", "writing", "closing"}}
Tallied == Live \cup panicked

\* Phases and counters have their types.
ServerTypeOK ==
    /\ server \in {"accepting", "draining", "joining", "stopped", "exited"}
    /\ phase \in [Conns -> {"none", "accepted", "loop", "writing", "closing", "done"}]
    /\ sock \in [Conns -> Seq(Items)] /\ buf \in [Conns -> Seq(Items)]
    /\ sent \in [Conns -> Seq(Items)] /\ executed \in [Conns -> Seq(Items)]
    /\ cur \in [Conns -> Seq(Pieces)]
    /\ permits \in 0..MaxConns /\ active \in Nat
    /\ ipCount \in [Ips -> Nat]
    /\ told \cup registry \cup panicked \subseteq Conns

\* The semaphore always has a permit for every connection that is not alive.
\* The registry, the count for each address and the count of all agree on the
\* connections that are alive and the ones whose handler panicked: these stay
\* counted for good.  All other connections, however they end, leave no trace.
CountersExact ==
    /\ permits = MaxConns - Cardinality(Live)
    /\ registry = Tallied
    /\ active = Cardinality(Tallied)
    /\ \A i \in Ips : ipCount[i] = Cardinality({c \in Tallied : IpOf[c] = i})

\* No address has more than max_connections_per_ip connections.
PerIpLimit ==
    \A i \in Ips : Cardinality({c \in Live : IpOf[c] = i}) <= MaxPerIp

\* In whatever pieces the lines of a client arrive, and however many lines and
\* frames a read brings, they are taken up one at a time, whole, and in the
\* order in which they were sent; none is lost or taken up twice.  Of frames
\* this is said only when they arrive whole.
StreamIntact ==
    \A c \in Conns :
       /\ executed[c] \o buf[c] \o sock[c] = sent[c]
       /\ ~EndsInLine(executed[c])
       /\ \A i \in 1..Len(cur[c]) - 1 : cur[c][i] = "part"

\* After a signal the accept loop's stop comes to an end, whatever clients do.
ServerStops ==
    (server = "draining") ~> (server \in {"stopped", "exited"})

\* After a signal the process ends.
ProcessExits ==
    (server = "draining") ~> (server = "exited")

\* Once the handlers were notified of the shutdown none takes up a new item.
ShutdownHeard ==
    [][\A c \in Conns : executed'[c] = executed[c] \/ server = "accepting"]_serverVars

\* A handler waits for more input only when it has answered what it received,
\* but for the beginning of a line.
ReceivedIsAnswered ==
    \A c \in Conns : phase[c] = "loop" => \A i \in 1..Len(buf[c]) : buf[c][i] = "part"
=============================================================================
