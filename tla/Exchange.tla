------------------------------ MODULE Exchange ------------------------------
(***************************************************************************)
(* A client and the server's handler of its connection                     *)
(* (src/src/client/core.rs and connection.rs; process_buffer,              *)
(* handle_zsp_frame and execute_store_command of                           *)
(* src/src/network/connection.rs), byte by byte.                           *)
(*                                                                         *)
(* The client sends a command and waits for one answer, for as long as its *)
(* read timeout allows.  Both sides decode with the decoder of Zsp; neither*)
(* tells it which bytes it has already seen.  The handler may say goodbye  *)
(* at any time, with an error frame that answers no command.               *)
(***************************************************************************)
EXTENDS Zsp

CONSTANTS
    ClientCalls,     \* commands of the client, as parsed ones
    MaxCalls         \* bound: calls of the client

VARIABLES
    client,          \* [waits, buf, dec]: a call waits, read_buf, decoder state
    toServer,        \* encoded frames on the way
    toClient,
    handler,         \* [alive, buf, dec]: the handler, recv_buf, decoder state
    dataset,         \* the store
    called,          \* the commands that were sent
    executed,        \* the commands that were executed
    answers,         \* the frames that answered them
    results,         \* what the calls returned
    late,            \* a call has timed out
    whole            \* every read so far ended where a frame ends

exchangeVars == <<client, toServer, toClient, handler, dataset, called, executed, answers, results, late, whole>>

ErrorFrame == Frame("error", <<"ERR">>)
Goodbye == Frame("error", <<"BYE">>)
Timeout == <<"timeout", <<>>>>
Closed == <<"closed", <<>>>>

ExchangeInit ==
    /\ client = [waits |-> FALSE, buf |-> <<>>, dec |-> Initial]
    /\ handler = [alive |-> TRUE, buf |-> <<>>, dec |-> Initial]
    /\ toServer = <<>> /\ toClient = <<>>
    /\ dataset = <<>>
    /\ called = <<>> /\ executed = <<>> /\ answers = <<>> /\ results = <<>>
    /\ late = FALSE /\ whole = TRUE

(***************************************************************************)
(* The client                                                              *)
(***************************************************************************)
\* command_to_frame; strings are inline, a stored string is binary
CommandToFrame(c) ==
    LET words == CASE c[1] = "SET" -> <<Frame("inline", c[2]), ValueToFrame(c[3])>>
                   [] c[1] \in {"GET", "DEL"} -> <<Frame("inline", c[2])>>
                   [] c[1] = "AUTH" -> [i \in DOMAIN c[2] |-> Frame("inline", c[2][i])]
                   [] c[1] = "PING" -> <<>>
    IN  Array(<<Inline(c[1])>> \o words)

\* frame_to_response
FrameToResponse(f) ==
    CASE f[1] = "inline" -> IF f[2] \in {<<"OK">>, <<"PONG">>} THEN <<"ok", <<>>>> ELSE <<"string", f[2]>>
      [] f[1] \in {"error", "int", "float", "bool"} -> f
      [] f[1] \in {"null", "nobinary"} -> <<"notfound", <<>>>>
      [] f[1] = "binary" -> <<"value", f[2]>>
      [] OTHER -> <<"unexpected", <<>>>>

\* What authenticate, ping, get, set and del make of the response
ClientResult(c, r) ==
    CASE r[1] \in {"error", "timeout", "closed"} -> <<"failed", r>>
      [] c[1] \in {"AUTH", "SET", "PING"} /\ r[1] = "ok" -> <<"done">>
      [] c[1] = "PING" /\ r = <<"string", <<"PONG">>>> -> <<"done">>
      [] c[1] = "GET" /\ r[1] \in {"value", "notfound"} -> r
      [] c[1] = "DEL" /\ r \in {<<"int", 0>>, <<"int", 1>>} -> r
      [] OTHER -> <<"unexpected">>

\* send_command, and receive_response begins with an empty buffer.  A handler
\* that is gone reads no more; the client need not notice when it sends.
Call(c) ==
    /\ ~client.waits /\ Len(called) < MaxCalls
    /\ Encodable(CommandToFrame(c), 0)
    /\ client' = [client EXCEPT !.waits = TRUE, !.buf = <<>>]
    /\ toServer' = IF handler.alive THEN Append(toServer, Encode(CommandToFrame(c))) ELSE toServer
    /\ called' = Append(called, c)
    /\ UNCHANGED <<toClient, handler, dataset, executed, answers, results, late, whole>>

CallRefused(c) ==
    /\ ~client.waits /\ Len(called) < MaxCalls /\ ~handler.alive
    /\ called' = Append(called, c)
    /\ results' = Append(results, Closed)
    /\ UNCHANGED <<client, toServer, toClient, handler, dataset, executed, answers, late, whole>>

\* A direction of the connection holds encoded frames; a read takes bytes, and
\* is whole when it ends where a frame ends.
Bytes(q) == FlattenSeq(q)
CutAt(q, n) == {k \in 0..Len(q) : Len(Bytes(SubSeq(q, 1, k))) = n}
After(q, n) ==
    IF CutAt(q, n) # {} THEN SubSeq(q, Min(CutAt(q, n)) + 1, Len(q))
    ELSE <<SubSeq(Bytes(q), n + 1, Len(Bytes(q)))>>
Arrives(buf, q, n) == buf \o SubSeq(Bytes(q), 1, n)

ClientPeeks(n) ==
    /\ client.waits /\ n <= Len(Bytes(toClient))
    /\ LET d == Decode(client.dec, Arrives(client.buf, toClient, n))
       IN  /\ d.res = "frame"
           /\ client' = [client EXCEPT !.waits = FALSE]
           /\ results' = Append(results, FrameToResponse(d.frame))
    /\ UNCHANGED <<toClient, toServer, handler, dataset, called, executed, answers, late, whole>>

\* The bytes that come after the first frame are dropped with the buffer.
ClientRead(n) ==
    /\ client.waits /\ n <= Len(Bytes(toClient))
    /\ LET buf == Arrives(client.buf, toClient, n)
           d == Decode(client.dec, buf)
       IN  /\ client' = [waits |-> d.res = "more", buf |-> buf, dec |-> d.state]
           /\ results' = CASE d.res = "frame" -> Append(results, FrameToResponse(d.frame))
                           [] d.res = "error" -> Append(results, <<"decoding", <<>>>>)
                           [] d.res = "more" -> results
    /\ toClient' = After(toClient, n)
    /\ whole' = (whole /\ CutAt(toClient, n) # {})
    /\ UNCHANGED <<toServer, handler, dataset, called, executed, answers, late>>

ClientTimeout ==
    /\ client.waits
    /\ client' = [client EXCEPT !.waits = FALSE]
    /\ results' = Append(results, Timeout)
    /\ late' = TRUE
    /\ UNCHANGED <<toServer, toClient, handler, dataset, called, executed, answers, whole>>

\* The end of the stream, or a reset that discards what had come
ClientClosed ==
    /\ client.waits /\ ~handler.alive
    /\ client' = [client EXCEPT !.waits = FALSE]
    /\ results' = Append(results, Closed)
    /\ toClient' = <<>>
    /\ UNCHANGED <<toServer, handler, dataset, called, executed, answers, late, whole>>

(***************************************************************************)
(* The server                                                              *)
(***************************************************************************)
Stored(k) == {p \in Range(dataset) : p[1] = k}
Put(d, k, v) == Append(SelectSeq(d, LAMBDA p : p[1] # k), <<k, v>>)

Found(k) ==
    IF Stored(k) = {} THEN Frame("nobinary", <<>>)
    ELSE LET v == (CHOOSE p \in Stored(k) : TRUE)[2] IN IF v[1] = "str" THEN Binary(v[2]) ELSE ErrorFrame

\* execute_store_command: <<answer, the store after it>>
Execute(c) ==
    CASE c[1] = "SET" -> <<Inline("OK"), Put(dataset, c[2], c[3])>>
      [] c[1] = "GET" -> <<Found(c[2]), dataset>>
      [] c[1] = "DEL" -> <<Frame("int", Cardinality(Stored(c[2]))), SelectSeq(dataset, LAMBDA p : p[1] # c[2])>>
      [] c[1] = "MSET" -> <<Inline("OK"), FoldLeft(LAMBDA d, p : Put(d, p[1], p[2]), dataset, c[2])>>
      [] c[1] = "MGET" -> <<Array([i \in DOMAIN c[2] |-> Found(c[2][i])]), dataset>>
      [] OTHER -> <<ErrorFrame, dataset>>

\* handle_zsp_frame
Handle(c) ==
    LET answer == IF c = Failed THEN <<ErrorFrame, dataset>> ELSE Execute(c)
    IN  /\ executed' = Append(executed, c)
        /\ answers' = Append(answers, answer[1])
        /\ dataset' = answer[2]
        /\ toClient' = Append(toClient, Encode(answer[1]))

\* process_buffer takes what begins otherwise for a line of text (Server,
\* Requests); the client sends none, and a buffer that begins inside a frame
\* is not followed.
IsZsp(buf) == Head(buf) \in Range(Sigil)

\* process_buffer: one frame is taken out of the buffer.  A partial frame stays
\* in the buffer whole, although the decoder has taken it in, and so does one
\* that cannot be decoded.  A panic ends the task.
HandlerRead(n) ==
    /\ handler.alive /\ n <= Len(Bytes(toServer))
    /\ LET buf == Arrives(handler.buf, toServer, n)
           d == Decode(handler.dec, buf)
           c == ParseCommand(d.frame)
       IN  /\ IsZsp(buf)
           /\ \/ /\ d.res = "frame" /\ c # <<"panic">> /\ Handle(c)
                 /\ handler' = [alive |-> TRUE, buf |-> d.rest, dec |-> d.state]
              \/ /\ d.res = "frame" /\ c = <<"panic">>
                 /\ handler' = [handler EXCEPT !.alive = FALSE]
                 /\ UNCHANGED <<executed, answers, dataset, toClient>>
              \/ /\ d.res = "more"
                 /\ handler' = [alive |-> TRUE, buf |-> buf, dec |-> d.state]
                 /\ UNCHANGED <<executed, answers, dataset, toClient>>
              \/ /\ d.res = "error"
                 /\ handler' = [alive |-> TRUE, buf |-> buf, dec |-> d.state]
                 /\ toClient' = Append(toClient, Encode(ErrorFrame))
                 /\ UNCHANGED <<executed, answers, dataset>>
    /\ toServer' = After(toServer, n)
    /\ whole' = (whole /\ CutAt(toServer, n) # {})
    /\ UNCHANGED <<client, called, results, late>>

\* run: at a shutdown, an idle timeout and a read timeout the handler says so
\* and closes; at an error of the socket it closes without a word.
HandlerLeaves(words) ==
    /\ handler.alive
    /\ handler' = [handler EXCEPT !.alive = FALSE]
    /\ toClient' = toClient \o words
    /\ UNCHANGED <<client, toServer, dataset, called, executed, answers, results, late, whole>>

ExchangeStep ==
    \/ \E c \in ClientCalls : Call(c) \/ CallRefused(c)
    \/ \E n \in 1..Len(Bytes(toClient)) : ClientRead(n)
    \/ \E n \in 1..Len(Bytes(toServer)) : HandlerRead(n)
    \/ \E words \in {<<>>, <<Encode(Goodbye)>>} : HandlerLeaves(words)
    \/ ClientTimeout \/ ClientClosed

\* A connection is followed until a read ends within a frame.
ExchangeNext == whole /\ ExchangeStep

(***************************************************************************)
(* Properties                                                              *)
(***************************************************************************)
\* The commands of a connection are executed in the order in which they were
\* sent, each at most once, as long as each read ends where a command ends;
\* timeouts of the client do not matter.
ExecutedInOrder ==
    whole => \A i \in DOMAIN executed :
        i \in DOMAIN called /\ executed[i] = ParseCommand(CommandToFrame(called[i]))

Bye == FrameToResponse(Goodbye)

\* Without timeouts, and with reads that end where frames end, a call returns
\* the answer to its own command, or it fails because the handler is gone: with
\* the handler's goodbye, which is taken for the answer, or with the end of the
\* connection.  The client never meets an answer of an unexpected kind.
AnswersMatch ==
    (whole /\ ~late) =>
        \A i \in DOMAIN results :
           /\ \/ results[i] \in {Closed, Bye} /\ ~handler.alive
              \/ i \in DOMAIN answers /\ results[i] = FrameToResponse(answers[i])
           /\ ClientResult(called[i], results[i]) # <<"unexpected">>

\* After timeouts a call may return the answer to an earlier command, but never
\* one to a later command, and no answer is returned twice; the goodbye is the
\* last that is returned.
AnswersInOrder ==
    whole =>
        LET real == SelectSeq(results, LAMBDA r : r \notin {Timeout, Closed, Bye})
            All == [i \in DOMAIN answers |-> FrameToResponse(answers[i])]
        IN  /\ \E pick \in SUBSET DOMAIN answers :
                  /\ Cardinality(pick) = Len(real)
                  /\ LET order == SetToSortSeq(pick, <) IN real = [i \in DOMAIN real |-> All[order[i]]]
            /\ \A i, j \in DOMAIN results : (results[i] = Bye /\ j > i) => results[j] \in {Timeout, Closed}

\* A client and its handler: commands are executed in the order they were sent
\* and answers returned in the order of execution, also after timeouts and when
\* the handler leaves (client/connection.rs, network/connection.rs).
ExchangeInOrder == ExecutedInOrder /\ AnswersMatch /\ AnswersInOrder

\* A command that arrives in pieces is executed as it was sent.
PiecesExecuted ==
    \A i \in DOMAIN executed : i \in DOMAIN called /\ executed[i] = ParseCommand(CommandToFrame(called[i]))
=============================================================================
