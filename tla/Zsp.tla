-------------------------------- MODULE Zsp --------------------------------
(***************************************************************************)
(* The frames of the wire protocol and their codec                         *)
(* (src/src/network/zsp/frame/encoder.rs, decoder.rs, zsp_types.rs), and a *)
(* reader that hands the decoder each piece of a stream as it comes and    *)
(* keeps what the decoder leaves.  After them, the commands, answers and   *)
(* messages that frames carry.                                             *)
(*                                                                         *)
(* A frame is a pair of its kind and its content.  A byte is a string; the *)
(* byte "bad" is not UTF-8.  A float counts hundredths, and a Float frame  *)
(* is written with one decimal (five in the code) while the score of a     *)
(* sorted set is written in full.  Dictionaries and sets are written in    *)
(* some order of their items.                                              *)
(***************************************************************************)
EXTENDS Integers, FiniteSetsExt, SequencesExt

CONSTANTS
    MaxBinary,       \* MAX_BINARY_LENGTH
    MaxDepth,        \* MAX_ARRAY_DEPTH
    Streams          \* the sequences of frames that are sent

VARIABLES
    frames,          \* the frames of the stream
    wire,            \* its bytes that have not arrived
    left,            \* bytes that arrived and that the decoder left
    decoder,         \* ZspDecoder.state
    received,        \* the frames that were decoded
    fed,             \* how many bytes have arrived
    lost             \* the last read ended where the decoder cannot resume

zspVars == <<frames, wire, left, decoder, received, fed, lost>>

(***************************************************************************)
(* Texts                                                                   *)
(***************************************************************************)
CrLf == <<"CR", "LF">>
Digit == <<"0", "1", "2", "3", "4", "5", "6", "7", "8", "9">>
Inf == 99999

Utf8(s) == "bad" \notin Range(s)
OneLine(s) == {"CR", "LF"} \cap Range(s) = {}
IsNumber(s) == s # <<>> /\ Range(s) \subseteq Range(Digit)
Number(s) == FoldLeft(LAMBDA n, b : 10 * n + (CHOOSE d \in 0..9 : Digit[d + 1] = b), 0, s)

RECURSIVE NatText(_)
NatText(n) == IF n < 10 THEN <<Digit[n + 1]>> ELSE Append(NatText(n \div 10), Digit[(n % 10) + 1])

IntText(n) == IF n < 0 THEN <<"-">> \o NatText(-n) ELSE NatText(n)

\* str::parse, as a set with at most one number
IntOf(s) ==
    LET signed == s # <<>> /\ Head(s) \in {"-", "+"}
        digits == IF signed THEN Tail(s) ELSE s
    IN  IF IsNumber(digits) THEN {IF Head(s) = "-" THEN -Number(digits) ELSE Number(digits)} ELSE {}

FloatText(n) ==
    IF n = Inf THEN <<"inf">>
    ELSE LET tenths == (n + 5) \div 10 IN NatText(tenths \div 10) \o <<".", Digit[(tenths % 10) + 1]>>

ScoreText(n) ==
    IF n = Inf THEN <<"inf">>
    ELSE NatText(n \div 100)
         \o IF n % 100 = 0 THEN <<>>
            ELSE IF n % 10 = 0 THEN <<".", Digit[((n \div 10) % 10) + 1]>>
            ELSE <<".", Digit[((n \div 10) % 10) + 1], Digit[(n % 10) + 1]>>

FloatOf(s) ==
    IF s = <<"inf">> THEN {Inf}
    ELSE IF IsNumber(s) THEN {100 * Number(s)}
    ELSE {100 * Number(SubSeq(s, 1, p - 1)) + Number(SubSeq(s, p + 1, Len(s))) * (IF Len(s) = p + 1 THEN 10 ELSE 1) :
             p \in {q \in DOMAIN s : /\ s[q] = "." /\ Len(s) \in {q + 1, q + 2}
                                     /\ IsNumber(SubSeq(s, 1, q - 1)) /\ IsNumber(SubSeq(s, q + 1, Len(s)))}}

(***************************************************************************)
(* ZspEncoder::encode                                                      *)
(***************************************************************************)
Sigil == [inline |-> "+", error |-> "-", int |-> ":", float |-> ",", score |-> ",", bool |-> "#",
          binary |-> "$", nobinary |-> "$", null |-> "_", array |-> "*", dict |-> "%", set |-> "~",
          push |-> ">", zset |-> "^"]
Containers == {"array", "dict", "set", "push", "zset"}

Frame(kind, content) == <<kind, content>>
Null == Frame("null", <<>>)
Binary(s) == Frame("binary", s)

\* What is written between the header of a container and its end
Parts(f) ==
    CASE f[1] \in {"array", "push"} -> f[2]
      [] f[1] = "set" -> SetToSeq(f[2])
      [] f[1] = "dict" -> FlattenSeq([i \in 1..Cardinality(f[2]) |->
                                         <<Binary(SetToSeq(f[2])[i][1]), SetToSeq(f[2])[i][2]>>])
      [] f[1] = "zset" -> FlattenSeq([i \in DOMAIN f[2] |-> <<Binary(f[2][i][1]), Frame("score", f[2][i][2])>>])

Count(f) == IF f[1] \in {"set", "dict"} THEN Cardinality(f[2]) ELSE Len(f[2])

RECURSIVE Encodable(_, _)
Encodable(f, depth) ==
    /\ depth <= MaxDepth
    /\ f[1] \in {"inline", "error"} => OneLine(f[2])
    /\ f[1] = "binary" => Len(f[2]) <= MaxBinary
    /\ f[1] \in {"array", "set", "push"} => \A i \in DOMAIN Parts(f) : Encodable(Parts(f)[i], depth + 1)
    /\ f[1] = "dict" => \A p \in f[2] : Encodable(p[2], depth + 1)

HeaderText(f) ==
    CASE f[1] \in {"inline", "error"} -> f[2]
      [] f[1] = "int" -> IntText(f[2])
      [] f[1] = "float" -> FloatText(f[2])
      [] f[1] = "score" -> ScoreText(f[2])
      [] f[1] = "bool" -> <<IF f[2] THEN "t" ELSE "f">>
      [] f[1] = "binary" -> NatText(Len(f[2]))
      [] f[1] = "nobinary" -> <<"-", "1">>
      [] f[1] = "null" -> <<>>
      [] f[1] \in Containers -> NatText(Count(f))

HeaderLine(f) == <<Sigil[f[1]]>> \o HeaderText(f) \o CrLf

RECURSIVE Encode(_)
Encode(f) ==
    HeaderLine(f)
    \o IF f[1] = "binary" THEN f[2] \o CrLf
       ELSE IF f[1] \in Containers THEN FlattenSeq([i \in DOMAIN Parts(f) |-> Encode(Parts(f)[i])])
       ELSE <<>>

(***************************************************************************)
(* ZspDecoder::decode.  A partial container is its kind, the items that it *)
(* has and how many it still needs; the key or the member that waits for   *)
(* its value is the last of an odd number of items.                        *)
(***************************************************************************)
Initial == <<"initial">>
Decoded(f, rest) == [res |-> "frame", frame |-> f, state |-> Initial, rest |-> rest]
More(state, rest) == [res |-> "more", frame |-> Null, state |-> state, rest |-> rest]
Bad == [res |-> "error", frame |-> Null, state |-> Initial, rest |-> <<>>]

\* The first line of s, as a set with at most one <<line, rest>>
ReadLine(s) ==
    LET cr == {i \in DOMAIN s : s[i] = "CR"}
        p == Min(cr)
    IN  IF cr = {} \/ p = Len(s) THEN {}
        ELSE IF s[p + 1] # "LF" \/ ~Utf8(SubSeq(s, 1, p - 1)) THEN {}
        ELSE {<<SubSeq(s, 1, p - 1), SubSeq(s, p + 2, Len(s))>>}

TakeCrLf(f, s) ==
    IF Len(s) >= 2 /\ SubSeq(s, 1, 2) = CrLf THEN Decoded(f, SubSeq(s, 3, Len(s))) ELSE Bad

ContinueOver(len, data, s) ==
    LET n == Min({len, Len(s)})
        all == data \o SubSeq(s, 1, n)
        rest == SubSeq(s, n + 1, Len(s))
    IN  IF Len(all) >= len THEN TakeCrLf(Binary(all), rest) ELSE More(Initial, rest)

\* A string that is still not complete is given up: the state stays Initial.
ContinueBinaryString(len, data, s) ==
    LET n == Min({len - Len(data), Len(s)})
        all == data \o SubSeq(s, 1, n)
        rest == SubSeq(s, n + 1, Len(s))
    IN  IF Len(all) = len THEN TakeCrLf(Binary(all), rest) ELSE More(Initial, rest)

ParseBinaryString(len, s) ==
    IF len = -1 THEN Decoded(Frame("nobinary", <<>>), s)
    ELSE IF len < 0 \/ len > MaxBinary THEN Bad
    ELSE IF Len(s) >= len THEN TakeCrLf(Binary(SubSeq(s, 1, len)), SubSeq(s, len + 1, Len(s)))
    ELSE More(<<"binary", len, s>>, <<>>)

IsText(f) == f[1] = "inline" \/ (f[1] = "binary" /\ Utf8(f[2]))

Fits(kind, items, f) ==
    /\ (kind \in {"dict", "zset"} /\ Len(items) % 2 = 0) => IsText(f)
    /\ (kind = "zset" /\ Len(items) % 2 = 1) => f[1] \in {"float", "int"}

ScoreOf(f) == IF f[1] = "int" THEN 100 * f[2] ELSE f[2]

Build(kind, items) ==
    CASE kind \in {"array", "push"} -> Frame(kind, items)
      [] kind = "set" -> Frame("set", Range(items))
      [] kind = "dict" ->
            Frame("dict", {<<items[i][2], items[i + 1]>> :
                              i \in {j \in DOMAIN items : /\ j % 2 = 1
                                                          /\ \A k \in DOMAIN items :
                                                                (k % 2 = 1 /\ k > j) => items[k][2] # items[j][2]}})
      [] kind = "zset" -> Frame("zset", [i \in 1..(Len(items) \div 2) |->
                                            <<items[2 * i - 1][2], ScoreOf(items[2 * i])>>])

RECURSIVE InitialDecode(_), Fill(_, _, _, _)

\* An item that is not complete leaves its own partial state, which is
\* overwritten by the state of the container.
NextItem(kind, items, remaining, d) ==
    CASE d.res = "frame" /\ Fits(kind, items, d.frame) ->
            Fill(kind, Append(items, d.frame), remaining - 1, d.rest)
      [] d.res = "more" -> More(<<kind, items, remaining>>, d.rest)
      [] OTHER -> Bad

Fill(kind, items, remaining, s) ==
    IF remaining = 0 THEN Decoded(Build(kind, items), s)
    ELSE NextItem(kind, items, remaining, InitialDecode(s))

ParseContainer(kind, n, s) ==
    IF n < -1 \/ (n = -1 /\ kind \notin {"array", "zset"}) THEN Bad
    ELSE IF n <= 0 THEN Decoded(Build(kind, <<>>), s)
    ELSE Fill(kind, <<>>, IF kind \in {"dict", "zset"} THEN 2 * n ELSE n, s)

ParseLine(kind, line, rest) ==
    CASE kind \in {"inline", "error"} -> Decoded(Frame(kind, line), rest)
      [] kind = "float" -> IF FloatOf(line) = {} THEN Bad ELSE Decoded(Frame("float", Max(FloatOf(line))), rest)
      [] OTHER -> IF IntOf(line) = {} THEN Bad
                  ELSE LET n == Max(IntOf(line))
                       IN  CASE kind = "int" -> Decoded(Frame("int", n), rest)
                             [] kind = "binary" -> ParseBinaryString(n, rest)
                             [] OTHER -> ParseContainer(kind, n, rest)

InitialDecode(s) ==
    IF s = <<>> THEN More(Initial, <<>>)
    ELSE LET kinds == {k \in DOMAIN Sigil \ {"score", "nobinary"} : Sigil[k] = Head(s)}
             kind == CHOOSE k \in kinds : TRUE
             rest == Tail(s)
         IN  IF kinds = {} THEN Bad
             ELSE CASE kind = "bool" ->
                          IF Len(rest) >= 3 /\ rest[1] \in {"t", "f"}
                          THEN TakeCrLf(Frame("bool", rest[1] = "t"), Tail(rest)) ELSE Bad
                    [] kind = "null" -> TakeCrLf(Null, rest)
                    [] OTHER -> IF ReadLine(rest) = {} THEN Bad
                                ELSE LET l == CHOOSE x \in ReadLine(rest) : TRUE IN ParseLine(kind, l[1], l[2])

Decode(state, s) ==
    CASE state = Initial -> InitialDecode(s)
      [] state[1] = "binary" -> ContinueBinaryString(state[2], state[3], s)
      [] OTHER -> Fill(state[1], state[2], state[3], s)

(***************************************************************************)
(* A reader that gives the decoder what arrives, after what it left        *)
(***************************************************************************)
\* All frames that can be decoded
RECURSIVE DecodeAll(_, _, _)
DecodeOn(d, out) ==
    IF d.res # "frame" THEN [d EXCEPT !.frame = out]
    ELSE IF d.rest = <<>> THEN [d EXCEPT !.frame = Append(out, d.frame)]
    ELSE DecodeAll(Initial, d.rest, Append(out, d.frame))
DecodeAll(state, s, out) == DecodeOn(Decode(state, s), out)

\* The places in the encoding of f where the decoder can take a pause: after
\* the header of a container and after each of its items, and in the data of
\* a string.
Pauses(f) ==
    LET head == Len(HeaderLine(f))
        Upto(j) == Len(FlattenSeq([i \in 1..j |-> Encode(Parts(f)[i])]))
    IN  IF f[1] = "binary" THEN head..(head + Len(f[2]) - 1)
        ELSE IF f[1] \in Containers THEN {head + Upto(j) : j \in 0..Len(Parts(f))}
        ELSE {}

\* Where the i-th frame begins
Offset(i) == Len(FlattenSeq([j \in 1..(i - 1) |-> Encode(frames[j])]))
Boundaries == {Offset(i) : i \in 1..(Len(frames) + 1)}
PausesOf(i) == {Offset(i) + p : p \in Pauses(frames[i])}

\* A read that ends at byte b after one that ended at byte a
Resumable(a, b) ==
    \/ b \in Boundaries
    \/ \E i \in DOMAIN frames : b \in PausesOf(i) /\ ~(frames[i][1] = "binary" /\ a \in PausesOf(i))

ZspInit ==
    /\ frames \in {fs \in Streams : \A i \in DOMAIN fs : Encodable(fs[i], 0)}
    /\ wire = FlattenSeq([i \in DOMAIN frames |-> Encode(frames[i])])
    /\ left = <<>> /\ received = <<>> /\ fed = 0 /\ decoder = Initial /\ lost = FALSE

Take(d) == received' = d.frame /\ decoder' = d.state /\ left' = d.rest

Receive(n) ==
    /\ n <= Len(wire)
    /\ Take(DecodeAll(decoder, left \o SubSeq(wire, 1, n), received))
    /\ wire' = SubSeq(wire, n + 1, Len(wire))
    /\ fed' = fed + n
    /\ lost' = ~Resumable(fed, fed + n)
    /\ UNCHANGED frames

\* What follows a lost frame may be read as frames that nobody sent: a stream is
\* followed up to there.
ZspNext == ~lost /\ \E n \in 1..Len(wire) : Receive(n)

(***************************************************************************)
(* Properties                                                              *)
(***************************************************************************)
\* What the receiver of f gets: floats have lost their last decimal.
RECURSIVE Rounded(_)
Rounded(f) ==
    CASE f[1] = "float" /\ f[2] # Inf -> Frame("float", 10 * ((f[2] + 5) \div 10))
      [] f[1] \in {"array", "push"} -> Frame(f[1], [i \in DOMAIN f[2] |-> Rounded(f[2][i])])
      [] f[1] = "set" -> Frame("set", {Rounded(x) : x \in f[2]})
      [] f[1] = "dict" -> Frame("dict", {<<p[1], Rounded(p[2])>> : p \in f[2]})
      [] OTHER -> f

\* Up to the first piece that ends where the decoder cannot resume, and after
\* that piece as well, exactly the frames whose last byte has arrived have been
\* decoded, with floats rounded and nothing else changed.  The decoder resumes
\* between frames, between the items of a container and once in the data of a
\* string; a frame cut in a header, in a nested container or twice in a string
\* is lost, and nothing is said of the frames after it.
Resumed ==
    received = LET done == {i \in DOMAIN frames : Offset(i + 1) <= fed}
               IN  [i \in 1..Cardinality(done) |-> Rounded(frames[i])]

-----------------------------------------------------------------------------
(***************************************************************************)
(* What is said in frames: commands (src/src/network/zsp/protocol/         *)
(* parser.rs), answers (serializer.rs, zsp_types.rs), and the messages and *)
(* commands of publish/subscribe (src/src/pubsub/zsp_integration.rs,       *)
(* message.rs).  One side writes a sequence of them, the other reads.      *)
(*                                                                         *)
(* The words of the protocol are single bytes, and their case is left out. *)
(* The formats of serde are external: a value has one text in each.        *)
(***************************************************************************)

CONSTANTS
    JsonTexts,       \* the byte sequences that are JSON
    Posts            \* what may be written: <<link, sequence>>

VARIABLES
    link,            \* "messages", "commands" or "answers"
    posted,          \* what was written
    data,            \* the bytes that the reader holds
    read             \* what it has read

messageVars == <<link, posted, data, read>>

Inline(word) == Frame("inline", <<word>>)
Array(items) == Frame("array", items)
Is(f, word) == f = Inline(word)
IsBytes(f) == f[1] \in {"inline", "binary"}
Failed == <<"failed">>

(***************************************************************************)
(* parse_command.  A command is its name and its arguments.                *)
(***************************************************************************)
IsValue(f) == f[1] \in {"inline", "binary", "int", "float", "bool", "null"}
ValueOf(f) == IF IsBytes(f) THEN <<"str", f[2]>> ELSE f

\* PubSubMessage of the items from the payload on
ParsePayload(items) ==
    LET word == items[1][2]
    IN  CASE Len(items) = 1 ->
               (CASE items[1][1] = "binary" -> <<"bytes", items[1][2]>>
                  [] items[1][1] = "inline" -> <<"string", items[1][2]>>
                  [] OTHER -> Failed)
          [] Len(items) > 1 /\ ~IsText(items[1]) -> Failed
          [] word = <<"BYTES">> /\ IsBytes(items[2]) -> <<"bytes", items[2][2]>>
          [] word = <<"STRING">> /\ IsText(items[2]) -> <<"string", items[2][2]>>
          [] word = <<"JSON">> /\ IsText(items[2]) /\ items[2][2] \in JsonTexts -> <<"json", items[2][2]>>
          [] word = <<"SERIALIZED">> /\ Len(items) >= 3 /\ IsText(items[2]) /\ IsBytes(items[3]) ->
                <<"serialized", items[2][2], items[3][2]>>
          [] OTHER -> Failed

ParseFrom(word, args) ==
    LET n == Len(args)
        keys == \A i \in 1..n : IsText(args[i])
        texts == [i \in 1..n |-> args[i][2]]
    IN  CASE word = "PING" -> <<"PING">>
          [] word \in {"SET", "SETNX"} /\ n = 2 /\ IsText(args[1]) /\ IsValue(args[2]) ->
                <<word, texts[1], ValueOf(args[2])>>
          [] word \in {"GET", "DEL"} /\ n = 1 /\ keys -> <<word, texts[1]>>
          [] word = "MSET" /\ n >= 2 /\ n % 2 = 0
             /\ (\A i \in 1..n : IF i % 2 = 1 THEN IsText(args[i]) ELSE IsValue(args[i])) ->
                <<"MSET", [i \in 1..(n \div 2) |-> <<texts[2 * i - 1], ValueOf(args[2 * i])>>]>>
          [] word \in {"MGET", "SUBSCRIBE", "UNSUBSCRIBE"} /\ n >= 1 /\ keys -> <<word, texts>>
          [] word \in {"RENAME", "RENAMENX"} /\ n = 2 /\ keys -> <<word, texts[1], texts[2]>>
          [] word = "AUTH" /\ n \in {1, 2} /\ keys -> <<"AUTH", texts>>
          [] word = "PUBLISH" /\ n >= 2 /\ IsText(args[1]) ->
                LET m == ParsePayload(Tail(args)) IN IF m = Failed THEN Failed ELSE <<"PUBLISH", texts[1], m>>
          [] OTHER -> Failed

ParseRaw(f) ==
    IF f[1] # "array" \/ f[2] = <<>> THEN Failed
    ELSE IF ~IsText(f[2][1]) \/ Len(f[2][1][2]) # 1 THEN Failed
    ELSE ParseFrom(f[2][1][2][1], Tail(f[2]))

\* into_executable: AUTH without a user panics
ParseCommand(f) ==
    LET c == ParseRaw(f)
    IN  IF c[1] \in {"PING", "PUBLISH", "SUBSCRIBE", "UNSUBSCRIBE"} THEN Failed
        ELSE IF c[1] = "AUTH" /\ Len(c[2]) = 1 THEN <<"panic">>
        ELSE c

(***************************************************************************)
(* Values as answers: value_to_frame of the serializer, and TryFrom<Value> *)
(***************************************************************************)
RepairKey(k) == IF Utf8(k) THEN k ELSE <<"?">>
InlineIfLine(s) == IF Utf8(s) /\ OneLine(s) THEN Frame("inline", s) ELSE Binary(s)

RECURSIVE ValueToFrame(_)
ValueToFrame(v) ==
    CASE v[1] \in {"str", "bitmap"} -> Binary(v[2])
      [] v[1] \in {"int", "float", "bool", "null"} -> v
      [] v[1] = "list" -> Array([i \in DOMAIN v[2] |-> Binary(v[2][i])])
      [] v[1] = "array" -> Array([i \in DOMAIN v[2] |-> ValueToFrame(v[2][i])])
      [] v[1] = "hash" -> Frame("dict", {<<RepairKey(p[1]), Binary(p[2])>> : p \in v[2]})
      [] v[1] = "zset" -> Frame("zset", [i \in DOMAIN v[2] |-> <<RepairKey(v[2][i][1]), v[2][i][2]>>])
      [] v[1] = "set" -> Frame("set", {InlineIfLine(m) : m \in v[2]})
      [] v[1] \in {"hll", "stream"} -> Inline("NotImplemented")

RECURSIVE TryFromValue(_)
TryFromValue(v) ==
    CASE v[1] = "str" -> InlineIfLine(v[2])
      [] v[1] = "array" -> LET items == [i \in DOMAIN v[2] |-> TryFromValue(v[2][i])]
                           IN  IF Failed \in Range(items) THEN Failed ELSE Array(items)
      [] v[1] = "hash" -> IF \A p \in v[2] : Utf8(p[1]) THEN ValueToFrame(v) ELSE Failed
      [] v[1] = "zset" -> IF \A i \in DOMAIN v[2] : Utf8(v[2][i][1]) THEN ValueToFrame(v) ELSE Failed
      [] v[1] \in {"hll", "stream"} -> Failed
      [] OTHER -> ValueToFrame(v)

(***************************************************************************)
(* Messages of publish/subscribe                                           *)
(***************************************************************************)
\* MessagePayload::from_serializable and deserialize: <<"as", format, value>> is
\* the text of the value in the format.
ContentType == [json |-> <<"application/json">>, bincode |-> <<"application/bincode">>,
                msgpack |-> <<"application/msgpack">>]
FormatText(format, value) == <<"as", format, value>>
FromSerializable(value, format) == <<"serialized", ContentType[format], FormatText(format, value)>>

Deserialize(p) ==
    LET text == p[Len(p)]
        Reads(format) == Len(text) = 3 /\ text[1] = "as" /\ text[2] = format
    IN  IF p[1] # "serialized" THEN IF Reads("json") THEN text[3] ELSE "failed"
        ELSE LET fs == {f \in DOMAIN ContentType : ContentType[f] = p[2] /\ Reads(f)}
             IN  IF fs = {} THEN "failed" ELSE text[3]

\* The part of a frame that carries the payload
PayloadItems(p) ==
    CASE p[1] = "bytes" -> <<Inline("BYTES"), Binary(p[2])>>
      [] p[1] = "string" -> <<Inline("STRING"), Binary(p[2])>>
      [] p[1] = "json" -> <<Inline("JSON"), Binary(p[2])>>
      [] p[1] = "serialized" -> <<Inline("SERIALIZED"), Binary(p[2]), Binary(p[3])>>

\* A message is <<channel, payload, metadata>>; the metadata is a sequence with
\* at most one text.
MessageFrame(m) ==
    Array(<<Inline("MESSAGE"), Binary(m[1])>> \o PayloadItems(m[2])
          \o IF m[3] = <<>> THEN <<>> ELSE <<Inline("METADATA"), Binary(m[3][1])>>)

\* The text of the metadata, if the items have it
MetadataOf(items) ==
    LET start == IF Is(items[3], "SERIALIZED") THEN 6 ELSE 5
    IN  IF Len(items) > start /\ Is(items[start], "METADATA") THEN <<items[start + 1]>> ELSE <<>>

FrameToMessage(f) ==
    LET items == f[2]
        payload == ParsePayload(SubSeq(items, 3, Len(items)))
        metadata == MetadataOf(items)
    IN  IF f[1] # "array" \/ Len(items) < 4 THEN Failed
        ELSE IF /\ Is(items[1], "MESSAGE") /\ IsText(items[2])
                /\ items[3][1] = "inline" /\ payload # Failed
                /\ \A i \in DOMAIN metadata : IsText(metadata[i])
        THEN <<items[2][2], payload, [i \in DOMAIN metadata |-> metadata[i][2]]>>
        ELSE Failed

CommandFrame(c) ==
    IF c[1] = "PUBLISH" THEN Array(<<Inline("PUBLISH"), Binary(c[2])>> \o PayloadItems(c[3]))
    ELSE Array(<<Inline(c[1])>> \o [i \in DOMAIN c[2] |-> Binary(c[2][i])])

\* String::from_utf8_lossy
Lossy(s) == [i \in DOMAIN s |-> IF s[i] = "bad" THEN "?" ELSE s[i]]

\* decode_command: a payload without a type is taken for bytes; bytes of a
\* channel or of a content type that are not UTF-8 are replaced
FrameToCommand(f) ==
    LET items == f[2]
        args == Tail(items)
        rest == SubSeq(items, 3, Len(items))
        payload == CASE Len(rest) = 1 -> IF IsBytes(rest[1]) THEN <<"bytes", rest[1][2]>> ELSE Failed
                     [] Len(rest) > 1 /\ rest[1][1] # "inline" -> Failed
                     [] Len(rest) > 2 /\ Is(rest[1], "SERIALIZED") /\ IsBytes(rest[2]) /\ IsBytes(rest[3]) ->
                           <<"serialized", Lossy(rest[2][2]), rest[3][2]>>
                     [] OTHER -> ParsePayload(rest)
    IN  IF f[1] # "array" \/ items = <<>> \/ ~IsBytes(items[1]) THEN Failed
        ELSE CASE items[1][2] \in {<<"SUBSCRIBE">>, <<"UNSUBSCRIBE">>} /\ (\A i \in DOMAIN args : IsBytes(args[i])) ->
                     <<items[1][2][1], [i \in DOMAIN args |-> Lossy(args[i][2])]>>
               [] items[1][2] = <<"PUBLISH">> /\ Len(items) >= 3 /\ IsBytes(items[2]) /\ payload # Failed ->
                     <<"PUBLISH", Lossy(items[2][2]), payload>>
               [] OTHER -> Failed

(***************************************************************************)
(* Writing and reading                                                     *)
(***************************************************************************)
\* serialize_response, serialize_pubsub_message
SerializeResponse(r) ==
    CASE r[1] = "ok" -> Inline("OK")
      [] r[1] = "value" -> ValueToFrame(r[2])
      [] r[1] = "notfound" -> Null
      [] r[1] = "string" -> Frame("inline", r[2])
      [] r[1] = "message" -> Array(<<Inline("message"), Binary(r[2])>> \o PayloadItems(r[3]))
      [] r[1] \in {"subscribe", "unsubscribe"} -> Array(<<Inline(r[1]), Binary(r[2]), Frame("int", r[3])>>)
      [] OTHER -> r

FrameOf(x) ==
    CASE link = "messages" -> MessageFrame(x)
      [] link = "commands" -> CommandFrame(x)
      [] link = "answers" -> SerializeResponse(x)

\* What the n items after the ones that were read are on the wire
Written(n) == FlattenSeq([i \in 1..n |-> Encode(FrameOf(posted[Len(read) + i]))])
Unread == Len(posted) - Len(read)

MessagesInit ==
    /\ \E p \in Posts : link = p[1] /\ posted = p[2]
    /\ \A i \in DOMAIN posted : Encodable(FrameOf(posted[i]), 0)
    /\ read = <<>>
    /\ data = Written(Len(posted))

\* decode_message computes how much was consumed from a copy that the decoder
\* did not advance: the message stays in the data.
ReadMessage ==
    /\ link = "messages" /\ Unread > 0
    /\ LET d == InitialDecode(data)
       IN  read' = Append(read, IF d.res = "frame" THEN FrameToMessage(d.frame) ELSE Failed)
    /\ UNCHANGED <<link, posted, data>>

ReadCommand ==
    /\ link = "commands" /\ Unread > 0
    /\ LET d == InitialDecode(data)
           c == IF d.res = "frame" THEN FrameToCommand(d.frame) ELSE Failed
       IN  read' = Append(read, c) /\ data' = IF c = Failed THEN data ELSE d.rest
    /\ UNCHANGED <<link, posted>>

\* receive_response, when n answers have come: it returns the first, and the
\* others are dropped with its buffer.
Dropped == <<"dropped">>
ReadAnswer(n) ==
    /\ link = "answers" /\ n <= Unread
    /\ LET d == InitialDecode(Written(n))
       IN  read' = Append(read, IF d.res = "frame" THEN d.frame ELSE Failed) \o [i \in 1..(n - 1) |-> Dropped]
    /\ data' = SubSeq(data, Len(Written(n)) + 1, Len(data))
    /\ UNCHANGED <<link, posted>>

MessagesNext == ReadMessage \/ ReadCommand \/ \E n \in 1..Unread : ReadAnswer(n)

(***************************************************************************)
(* Properties                                                              *)
(***************************************************************************)
\* A message that was written is read with the channel, the payload and the
\* metadata that it was published with, and a typed payload deserialises to its
\* value.  It is said of the first message of the data: decode_message leaves
\* it there, so no call gets to the second.
MessageExact ==
    (link = "messages" /\ read # <<>>) =>
        /\ read[1] = posted[1]
        /\ LET p == posted[1][2]
           IN  (p[1] = "serialized" /\ Len(p[3]) = 3)
                  => /\ Deserialize(read[1][2]) = p[3][3]
                     /\ p = FromSerializable(p[3][3], p[3][2])

\* The messages of the data are read one after the other, as *data = data.slice
\* (zsp_integration.rs:54) means to.
MessagesInOrder == link = "messages" => read = SubSeq(posted, 1, Len(read))

\* A command as decode_command understands it
Repaired(c) ==
    IF c[1] # "PUBLISH" THEN <<c[1], [i \in DOMAIN c[2] |-> Lossy(c[2][i])]>>
    ELSE <<c[1], Lossy(c[2]), IF c[3][1] = "serialized" THEN [c[3] EXCEPT ![2] = Lossy(@)] ELSE c[3]>>

\* The commands of a client are read in the order in which they were written and
\* as they were written, but for bytes that are not UTF-8, which are replaced;
\* the server's own parser understands each in the same way, and refuses those.
CommandsRead ==
    link = "commands" =>
        \A i \in DOMAIN read :
           LET c == posted[i]
           IN  /\ read[i] = Repaired(c)
               /\ c[2] # <<>> => ParseRaw(CommandFrame(c)) = IF read[i] = c THEN c ELSE Failed

\* The content of a frame, whether its strings are inline or binary
RECURSIVE Content(_)
Content(f) ==
    CASE IsBytes(f) -> Binary(f[2])
      [] f[1] = "array" -> Array([i \in DOMAIN f[2] |-> Content(f[2][i])])
      [] f[1] = "set" -> Frame("set", {Content(x) : x \in f[2]})
      [] OTHER -> f

\* Whatever bytes a value or a message holds, its answer can be encoded and the
\* client decodes the frame that the serializer made, with floats rounded, unless
\* the answer came together with the one before it; the two conversions of a
\* value to a frame agree where both are defined.
AnswersExact ==
    link = "answers" =>
        /\ \A i \in DOMAIN posted : posted[i][1] = "value" =>
              LET t == TryFromValue(posted[i][2])
              IN  t # Failed => Encodable(t, 0) /\ Content(t) = Content(FrameOf(posted[i]))
        /\ \A i \in DOMAIN read :
              read[i] = Rounded(FrameOf(posted[i])) \/ (read[i] = Dropped /\ i > 1)

\* What a decoder can resume, and the first message, the commands and the answers
\* that are written, arrive as they were sent (zsp/frame, zsp/protocol,
\* zsp_integration.rs).
WireExact == Resumed /\ MessageExact /\ CommandsRead /\ AnswersExact
=============================================================================
