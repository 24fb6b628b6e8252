------------------------------ MODULE MCCodecs ------------------------------
(***************************************************************************)
(* What is sent and stored, in one run: the ZSP encoding of frames and of  *)
(* messages, a client and its handler, publish/subscribe, and the ZDB dump *)
(* format.  A behaviour uses one of them, and the state of the others does *)
(* not change.                                                             *)
(***************************************************************************)
EXTENDS Zdb, Exchange, Broker, Subscriber

-----------------------------------------------------------------------------
(* Dumps.  A byte is a digit to base 16: 15 is the end mark, and a number  *)
(* of three digits needs three bytes as a varint.                          *)

Rep(b, n) == [i \in 1..n |-> b]

MCKeys == {<<>>, <<1>>, Rep(1, 8), Rep(2, 15), <<4, 15>>}
MCValues ==
    {<<"str", <<>>>>, <<"str", Rep(15, 9)>>, <<"str", Rep(1, 12)>>, <<"int", 15>>,
     <<"float", 1>>, <<"null">>, <<"bool", 1>>, <<"list", <<<<1>>>>>>,
     <<"hash", <<<<<<1>>, <<2>>>>, <<<<2>>, <<>>>>>>>>, <<"zset", <<<<<<1>>, 3>>, <<<<>>, 15>>>>>>,
     <<"set", <<<<1>>, <<>>>>>>, <<"hll", <<1, 2>>>>, <<"stream", <<<<1, <<"int", 1>>>>>>>>,
     <<"array", <<<<"array", <<<<"null">>, <<"int", 12>>>>>>, <<"str", <<1>>>>>>>>,
     <<"bitmap", <<15, 0>>>>}
(* One more than a limit of the reader, or between two of them             *)
MCLarge ==
    {<<"str", Rep(1, 22)>>, <<"str", Rep(1, 25)>>, <<"bitmap", Rep(1, 7)>>, <<"bitmap", Rep(1, 21)>>,
     <<"array", Rep(<<"null">>, 16)>>, <<"set", [i \in 1..16 |-> <<i - 1>>]>>, <<"hll", Rep(1, 3)>>}
MCItems ==
    {<<>>, Rep(<<<<>>, <<"null">>>>, 15), Rep(<<<<>>, <<"null">>>>, 16)}
        \cup {<<<<<<1>>, v>>>> : v \in MCLarge}
        \cup {<<<<k, v>>>> : k \in MCKeys, v \in MCValues}
        \cup {<<<<k, v>>, <<<<3>>, <<"int", 5>>>>>> : k \in MCKeys, v \in MCValues}

-----------------------------------------------------------------------------
(* Frames: every kind, with contents that look like line ends and sigils.  *)

A == <<"a">>
Scalars ==
    {Frame("inline", <<"O", "K">>), Frame("inline", <<>>), Frame("error", A), Frame("int", -12),
     Frame("int", 7), Frame("float", 125), Frame("float", Inf), Frame("bool", TRUE),
     Frame("bool", FALSE), Binary(<<>>), Binary(<<"a", "CR", "LF">>),
     Binary(<<"+", "bad", "CR", "LF", "*", "1", "2", "a", "a", "a", "a">>),
     Frame("nobinary", <<>>), Null}
Few == {Frame("inline", A), Binary(<<"a", "LF">>), Frame("int", 1), Frame("float", 50), Null}
Conts ==
    {Frame("array", <<>>), Frame("array", <<Binary(A)>>),
     Frame("array", <<Frame("inline", A), Frame("array", <<Null, Frame("bool", TRUE)>>),
                      Frame("int", 3)>>),
     Frame("push", <<Frame("inline", A), Binary(A)>>), Frame("push", <<>>),
     Frame("set", {Frame("int", 1), Null, Binary(<<"bad">>)}), Frame("set", {}),
     Frame("dict", {}), Frame("dict", {<<A, Frame("int", 1)>>, <<<<"LF">>, Frame("array", <<Null>>)>>}),
     Frame("zset", <<>>), Frame("zset", <<<<A, 125>>, <<<<"b">>, 200>>, <<<<>>, 30>>>>)}
MCStreams ==
    {<<f>> : f \in Scalars \cup Conts}
        \cup {<<f, g>> : f \in Scalars \cup Conts, g \in Few \cup Conts}
        \cup {<<f, g, h>> : f \in Conts, g \in Few, h \in Few}

-----------------------------------------------------------------------------
(* Messages, subscriptions and answers.                                    *)

J == <<"{}">>
MCJsonTexts == {J}
MCPayloads ==
    {<<"bytes", <<>>>>, <<"bytes", <<"bad", "CR", "LF">>>>, <<"string", <<"a", "LF">>>>,
     <<"string", <<"METADATA">>>>, <<"json", J>>, <<"serialized", A, <<"bad">>>>}
        \cup {FromSerializable("v", f) : f \in {"json", "bincode", "msgpack"}}
MCMessages == {A, <<"CR", "LF">>} \X MCPayloads \X {<<>>, <<J>>}
MCSubscriptions ==
    {<<"SUBSCRIBE", <<A>>>>, <<"SUBSCRIBE", <<A, <<"LF">>>>>>, <<"UNSUBSCRIBE", <<>>>>,
     <<"UNSUBSCRIBE", <<<<"a", "bad">>>>>>, <<"PUBLISH", <<"bad">>, <<"bytes", A>>>>,
     <<"PUBLISH", A, <<"serialized", <<"bad">>, A>>>>}
        \cup ({"PUBLISH"} \X {A} \X MCPayloads)
MCStrings == {<<>>, A, <<"CR">>, <<"LF">>, <<"bad">>}
MCResults ==
    {<<"str", t>> : t \in MCStrings}
        \cup {<<"int", -3>>, <<"float", 125>>, <<"bool", TRUE>>, Null, <<"bitmap", <<"bad">>>>,
              <<"hll", <<>>>>}
        \cup {<<"list", <<t, A>>>> : t \in MCStrings} \cup {<<"set", s>> : s \in SUBSET MCStrings}
        \cup {<<"hash", {<<t, A>>, <<<<"b">>, t>>}>> : t \in MCStrings}
        \cup {<<"zset", <<<<t, 5>>>>>> : t \in MCStrings}
        \cup {<<"array", <<<<"str", t>>, <<"array", <<<<"set", {t}>>, Null>>>>>>>> : t \in MCStrings}
MCAnswers ==
    ({"value"} \X MCResults) \cup ({"message"} \X {A, <<"LF">>} \X MCPayloads)
        \cup ({"error", "string"} \X {t \in MCStrings : Utf8(t)})
        \cup {<<"ok">>, <<"notfound">>, <<"int", 2>>, <<"float", 126>>, <<"bool", FALSE>>,
              <<"subscribe", A, 1>>, <<"unsubscribe", <<"CR">>, 0>>}
MCPosts ==
    {<<"messages", <<m, n>>>> : m \in MCMessages, n \in MCMessages}
        \cup {<<"commands", <<m, n, m>>>> : m \in MCSubscriptions, n \in MCSubscriptions}
        \cup {<<"answers", <<m, n>>>> : m \in MCAnswers, n \in MCAnswers}

MCClientCalls ==
    {<<"SET", <<"k">>, <<"str", <<"a", "b">>>>>>, <<"SET", <<"k">>, <<"int", 5>>>>,
     <<"GET", <<"k">>>>, <<"DEL", <<"k">>>>, <<"AUTH", <<<<"p">>>>>>, <<"PING">>}

-----------------------------------------------------------------------------
VARIABLE part   \* what the behaviour is about

Branches ==
    {"zsp", "messages", "zdb", "exchange", "broker", "subscriber", "multi"}

\* The state of the parts that have many initial states, where they are not used
Unused ==
    /\ part # "zsp" => /\ frames = <<>> /\ wire = <<>> /\ left = <<>> /\ decoder = <<>>
                       /\ received = <<>> /\ fed = 0 /\ lost = FALSE
    /\ part # "messages" => link = "none" /\ posted = <<>> /\ data = <<>> /\ read = <<>>
    /\ part # "subscriber" => bufferSize = Max(BufferSizes) /\ lagError = (LagErrors = {TRUE})

CodecsInit(parts) ==
    /\ part \in parts
    /\ part = "zsp" => ZspInit
    /\ part = "messages" => MessagesInit
    /\ ZdbInit /\ ExchangeInit /\ BrokerInit /\ SubscriberInit /\ MultiInit
    /\ Unused

framesVars == <<zspVars, messageVars, zdbVars>>
pubsubVars == <<brokerVars, subscriberVars, multiVars>>

\* exchange is the step of a client and its handler
CodecsStep(exchange) ==
    /\ UNCHANGED part
    /\ \/ /\ part = "zsp" /\ ZspNext
          /\ UNCHANGED <<messageVars, zdbVars, exchangeVars, pubsubVars>>
       \/ /\ part = "messages" /\ MessagesNext
          /\ UNCHANGED <<zspVars, zdbVars, exchangeVars, pubsubVars>>
       \/ /\ part = "zdb" /\ ZdbNext
          /\ UNCHANGED <<zspVars, messageVars, exchangeVars, pubsubVars>>
       \/ /\ part = "exchange" /\ exchange
          /\ UNCHANGED <<framesVars, pubsubVars>>
       \/ /\ part = "broker" /\ BrokerNext
          /\ UNCHANGED <<framesVars, exchangeVars, subscriberVars, multiVars>>
       \/ /\ part = "subscriber" /\ SubscriberNext
          /\ UNCHANGED <<framesVars, exchangeVars, brokerVars, multiVars>>
       \/ /\ part = "multi" /\ MultiNext
          /\ UNCHANGED <<framesVars, exchangeVars, brokerVars, subscriberVars>>

codecsVars == <<part, framesVars, exchangeVars, pubsubVars>>
Spec == CodecsInit(Branches) /\ [][CodecsStep(ExchangeNext)]_codecsVars

\* A client and its handler whose reads may end inside a frame
PiecesSpec == CodecsInit({"exchange"}) /\ [][CodecsStep(ExchangeStep)]_codecsVars
=============================================================================
