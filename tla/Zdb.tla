-------------------------------- MODULE Zdb --------------------------------
(***************************************************************************)
(* The dump format of src/src/engine/zdb: the encoding of values and       *)
(* lengths, the three writers (write_stream, write_dump and                *)
(* write_dump_streaming), the readers of streams (StreamingParser, used by *)
(* load_from_zdb, and StreamReader) and of dumps (read_dump), and a file   *)
(* that can be cut short between writing and reading.                      *)
(*                                                                         *)
(* A byte is a number below 2*Radix whose upper half marks a continued     *)
(* varint; Radix is 128 in the code.  The tags are the code's, the end     *)
(* marker is the largest byte.  A fixed-size number takes one byte, a      *)
(* 64-bit score two, a fixed-size length two.                              *)
(***************************************************************************)
EXTENDS Integers, Sequences, SequencesExt

CONSTANTS
    Radix,         \* values of the payload of a varint byte
    MaxVarintLen,  \* MAX_VARINT_LEN
    MaxStringSize,      \* MAX_STRING_SIZE, 512 MB, of keys and strings
    MaxCollectionSize,  \* MAX_COLLECTION_SIZE, ten million elements
    MaxCompressedSize,  \* MAX_COMPRESSED_SIZE, 100 MB
    MaxBitmapSize,      \* MAX_BITMAP_SIZE, 100 MB
    LegacyBitmapSize,   \* 1 MB, the limit of a bitmap in a Legacy dump
    DenseSize,     \* DENSE_SIZE, what the reader pads it to
    CompressFrom,  \* MIN_COMPRESSION_SIZE
    ReadAhead,     \* bytes that a BufReader takes from the reader below it
    ItemLists      \* bound: the lists of <<key, value>> that are saved

VARIABLES
    saved,   \* the entries that were written
    format,  \* the writer and the version they were written by
    file,    \* the bytes
    loaded   \* what the last reader returned

zdbVars == <<saved, format, file, loaded>>

Magic == 10
EofTag == 2 * Radix - 1
Versions == 0..3            \* Legacy, V1, V2, V3
UsesVarint(ver) == ver = 3

-----------------------------------------------------------------------------
(* Writing                                                                 *)

RECURSIVE WriteVarint(_)
WriteVarint(n) == IF n < Radix THEN <<n>>
                  ELSE <<(n % Radix) + Radix>> \o WriteVarint(n \div Radix)

WriteLength(n, ver) == IF UsesVarint(ver) THEN WriteVarint(n)
                       ELSE <<n \div (2 * Radix), n % (2 * Radix)>>

WriteBytes(b, ver) == WriteLength(Len(b), ver) \o b

(* A list of parts, each written by W, after their number                  *)
WriteAll(parts, W(_), ver) ==
    WriteLength(Len(parts), ver) \o FlattenSeq([i \in DOMAIN parts |-> W(parts[i])])

WriteStr(b, ver) == <<1>> \o WriteBytes(b, ver)
WriteNumber(x) == <<x>>
WriteScore(x) == <<x, 0>>

RECURSIVE WriteInner(_, _)
WriteInner(v, ver) ==
    CASE v[1] = "str" -> WriteStr(v[2], ver)
      [] v[1] = "int" -> <<2>> \o WriteNumber(v[2])
      [] v[1] = "float" -> <<3>> \o WriteNumber(v[2])
      [] v[1] = "null" -> <<4>>
      [] v[1] = "list" -> <<5>> \o WriteAll(v[2], LAMBDA b : WriteStr(b, ver), ver)
      [] v[1] = "hash" -> <<6>> \o WriteAll(v[2], LAMBDA e : WriteBytes(e[1], ver)
                                                               \o WriteStr(e[2], ver), ver)
      [] v[1] = "zset" -> <<7>> \o WriteAll(v[2], LAMBDA e : WriteBytes(e[1], ver)
                                                               \o WriteScore(e[2]), ver)
      [] v[1] = "set" -> <<8>> \o WriteAll(v[2], LAMBDA b : WriteBytes(b, ver), ver)
      [] v[1] = "hll" -> <<9>> \o WriteBytes(v[2], ver)
      [] v[1] = "stream" -> <<10>> \o WriteAll(v[2], LAMBDA e : WriteNumber(e[1])
                                                  \o WriteInner(e[2], ver), ver)
      [] v[1] = "bool" -> <<11>> \o WriteNumber(v[2])
      [] v[1] = "array" -> <<13>> \o WriteAll(v[2], LAMBDA w : WriteInner(w, ver), ver)
      [] v[1] = "bitmap" -> <<14>> \o WriteBytes(v[2], ver)

(* zstd, of which only its being a bijection matters here                  *)
Compress(b) == Reverse(b)
Decompress(b) == Reverse(b)

WriteValue(v, ver) ==
    LET buf == WriteInner(v, ver) IN
    IF Len(buf) >= CompressFrom THEN <<12>> \o WriteBytes(Compress(buf), ver) ELSE buf

Header(ver) == <<Magic, ver>>

Entry(e, ver, W(_, _)) == WriteBytes(e[1], ver) \o W(e[2], ver)

WriteStream(items, ver) ==
    Header(ver) \o FlattenSeq([i \in DOMAIN items |-> Entry(items[i], ver, WriteValue)])
        \o <<EofTag>>

(* The checksum: every byte counts, by its place.                          *)
RECURSIVE Weigh(_, _, _)
Weigh(b, first, last) ==
    LET mid == (first + last) \div 2 IN
    IF first > last THEN 0
    ELSE IF first = last THEN (2 * first + 1) * (b[first] + 1)
    ELSE Weigh(b, first, mid) + Weigh(b, mid + 1, last)
Crc(b) == Weigh(b, 1, Len(b)) % (2 * Radix)
WithCrc(b) == b \o <<Crc(b)>>

WriteDumpStreaming(items, ver) ==
    WithCrc(Header(ver) \o WriteAll(items, LAMBDA e : Entry(e, ver, WriteInner), ver))

(* The lengths and the values go to the buffer, the keys past it.          *)
WriteDump(items, ver) ==
    FlattenSeq([i \in DOMAIN items |-> items[i][1]])
        \o WithCrc(Header(ver)
             \o WriteAll(items, LAMBDA e : WriteLength(Len(e[1]), ver) \o WriteInner(e[2], ver), ver))

-----------------------------------------------------------------------------
(* Reading.  A read of the bytes s is [ok, val, rest].                     *)

Fail == [ok |-> FALSE, val |-> <<>>, rest |-> <<>>]
Ok(v, rest) == [ok |-> TRUE, val |-> v, rest |-> rest]
Then(r, F(_, _)) == IF r.ok THEN F(r.val, r.rest) ELSE Fail

ReadExact(n, s) == IF n <= Len(s) THEN Ok(SubSeq(s, 1, n), SubSeq(s, n + 1, Len(s))) ELSE Fail
ReadByte(s) == Then(ReadExact(1, s), LAMBDA b, rest : Ok(b[1], rest))

RECURSIVE ReadVarint(_, _)
ReadVarint(k, s) ==             \* k bytes may follow
    Then(ReadByte(s), LAMBDA b, rest :
        IF b < Radix THEN Ok(b, rest)
        ELSE IF k = 1 THEN Fail
        ELSE Then(ReadVarint(k - 1, rest), LAMBDA n, more :
                Ok((b - Radix) + Radix * n, more)))

ReadReversed(s) ==
    Then(ReadExact(2, s), LAMBDA b, rest : Ok(b[2] * 2 * Radix + b[1], rest))
ReadFixed(s) ==
    Then(ReadExact(2, s), LAMBDA b, rest : Ok(b[1] * 2 * Radix + b[2], rest))

ReadLength(s, ver) == IF UsesVarint(ver) THEN ReadVarint(MaxVarintLen, s) ELSE ReadFixed(s)

ReadSize(s, ver, limit) ==
    Then(ReadLength(s, ver), LAMBDA n, rest : IF n <= limit THEN Ok(n, rest) ELSE Fail)

ReadBlock(s, ver, limit) == Then(ReadSize(s, ver, limit), LAMBDA n, rest : ReadExact(n, rest))

ReadBytes(s, ver) == ReadBlock(s, ver, MaxStringSize)

ScoreBytes(ver) == IF ver = 0 THEN 1 ELSE 2

ReadScore(s, ver) == Then(ReadExact(ScoreBytes(ver), s), LAMBDA b, rest : Ok(b[1], rest))

ReadMany(n, s, R(_)) ==
    FoldLeft(LAMBDA r, i : Then(r, LAMBDA vs, rest :
                 Then(R(rest), LAMBDA v, more : Ok(Append(vs, v), more))),
             Ok(<<>>, s), [i \in 1..n |-> i])

ReadAll(s, R(_), ver) ==
    Then(ReadSize(s, ver, MaxCollectionSize), LAMBDA n, rest : ReadMany(n, rest, R))

ReadPair(s, A(_), B(_)) ==
    Then(A(s), LAMBDA a, rest : Then(B(rest), LAMBDA b, more : Ok(<<a, b>>, more)))

PadHll(b) == [i \in 1..DenseSize |-> IF i <= Len(b) THEN b[i] ELSE 0]

As(kind, r) == Then(r, LAMBDA v, rest : Ok(<<kind, v>>, rest))

RECURSIVE ReadValue(_, _)

(* The entries of a hash have a string as value.                           *)
ReadHashValue(s, ver) ==
    LET string(t) == Then(ReadValue(t, ver), LAMBDA v, rest :
                        IF v[1] = "str" THEN Ok(v[2], rest) ELSE Fail)
    IN  ReadAll(s, LAMBDA t : ReadPair(t, LAMBDA u : ReadBytes(u, ver), string), ver)

ReadZSetValue(s, ver) ==
    ReadAll(s, LAMBDA t : ReadPair(t, LAMBDA u : ReadBytes(u, ver), LAMBDA u : ReadScore(u, ver)), ver)

ReadSetValue(s, ver) == ReadAll(s, LAMBDA t : ReadBytes(t, ver), ver)

ReadHllValue(s, ver) ==
    Then(ReadBlock(s, ver, IF ver = 0 THEN DenseSize ELSE 2 * DenseSize), LAMBDA b, rest :
        Ok(PadHll(b), rest))

BitmapLimit(ver) == IF ver = 0 THEN LegacyBitmapSize ELSE MaxBitmapSize

ReadBitmapValue(s, ver) == ReadBlock(s, ver, BitmapLimit(ver))

ReadCompressedValue(s, ver) ==
    Then(ReadBlock(s, ver, MaxCompressedSize), LAMBDA b, rest :
        IF b = <<>> THEN Fail
        ELSE Then(ReadValue(Decompress(b), ver), LAMBDA v, drained : Ok(v, rest)))

ReadArrayValue(s, ver) == ReadAll(s, LAMBDA t : ReadValue(t, ver), ver)

ReadBoolValue(s) == Then(ReadByte(s), LAMBDA b, rest : Ok(IF b = 0 THEN 0 ELSE 1, rest))

ReadValue(s, ver) ==
    Then(ReadByte(s), LAMBDA tag, rest :
         CASE tag = 1 -> As("str", ReadBytes(rest, ver))
           [] tag = 2 -> As("int", ReadByte(rest))
           [] tag = 3 -> As("float", ReadByte(rest))
           [] tag = 4 -> Ok(<<"null">>, rest)
           [] tag = 6 -> As("hash", ReadHashValue(rest, ver))
           [] tag = 7 -> As("zset", ReadZSetValue(rest, ver))
           [] tag = 8 -> As("set", ReadSetValue(rest, ver))
           [] tag = 9 -> As("hll", ReadHllValue(rest, ver))
           [] tag = 11 -> As("bool", ReadBoolValue(rest))
           [] tag = 12 -> ReadCompressedValue(rest, ver)
           [] tag = 13 -> As("array", ReadArrayValue(rest, ver))
           [] tag = 14 -> As("bitmap", ReadBitmapValue(rest, ver))
           [] OTHER -> Fail)

SkipScore(s, ver) == ReadExact(ScoreBytes(ver), s)

(* skip_value: the same bytes, nothing kept                                *)
RECURSIVE SkipValue(_, _)
SkipValue(s, ver) ==
    LET nothing(t) == Ok(0, t)
        bytes(t) == Then(ReadLength(t, ver), LAMBDA n, rest : ReadExact(n, rest))
        value(t) == SkipValue(t, ver)
        scored(t) == ReadPair(t, bytes, LAMBDA u : SkipScore(u, ver))
        all(t, R(_)) == Then(ReadLength(t, ver), LAMBDA n, rest : ReadMany(n, rest, R))
    IN Then(ReadByte(s), LAMBDA tag, rest :
         CASE tag = 4 -> nothing(rest)
           [] tag \in {2, 3, 11} -> ReadByte(rest)
           [] tag \in {1, 9, 12, 14} -> bytes(rest)
           [] tag = 13 -> all(rest, value)
           [] tag = 6 -> all(rest, LAMBDA t : ReadPair(t, bytes, value))
           [] tag = 8 -> all(rest, bytes)
           [] tag = 7 -> all(rest, scored)
           [] OTHER -> Fail)

(* What a reader of a whole file returns: the entries it delivered, and    *)
(* whether it ended well.                                                  *)
Result(ok, items) == [ok |-> ok, items |-> items]
Refused == Result(FALSE, <<>>)

CanRead(reader, ver) == ver <= reader

ReadHeader(s, reader, Rest(_, _)) ==
    IF Len(s) >= 2 /\ s[1] = Magic /\ s[2] \in Versions /\ CanRead(reader, s[2])
    THEN Rest(SubSeq(s, 3, Len(s)), s[2]) ELSE Refused

ReadEntry(s, ver) ==
    ReadPair(s, LAMBDA t : ReadBytes(t, ver), LAMBDA t : ReadValue(t, ver))

(* StreamingParser::parse                                                  *)
RECURSIVE ParseEntries(_, _, _)
ParseEntries(s, ver, got) ==
    IF s = <<>> THEN Result(got = <<>>, got)
    ELSE IF s[1] = EofTag THEN Result(TRUE, got)
    ELSE LET r == ReadEntry(s, ver) IN
         IF r.ok THEN ParseEntries(r.rest, ver, Append(got, r.val)) ELSE Result(FALSE, got)

StreamingParse(s, reader) ==
    ReadHeader(s, reader, LAMBDA t, ver : ParseEntries(t, ver, <<>>))

(* StreamReader.  A key length of several bytes is read through a          *)
(* BufReader, and what that read ahead is lost.                            *)
SkipAhead(s, ver) ==
    IF UsesVarint(ver) /\ s[1] >= Radix
    THEN Then(ReadVarint(MaxVarintLen, s), LAMBDA n, rest :
            IF n <= MaxStringSize
            THEN Then(ReadExact(n, SubSeq(s, ReadAhead + 2, Len(s))), LAMBDA k, more : Ok(k, more))
            ELSE Fail)
    ELSE ReadBytes(s, ver)

RECURSIVE NextEntries(_, _, _)
NextEntries(s, ver, got) ==
    IF s = <<>> THEN Result(FALSE, got)
    ELSE IF s[1] = EofTag THEN Result(TRUE, got)
    ELSE LET r == ReadPair(s, LAMBDA t : SkipAhead(t, ver), LAMBDA t : ReadValue(t, ver)) IN
         IF r.ok THEN NextEntries(r.rest, ver, Append(got, r.val)) ELSE Result(FALSE, got)

StreamRead(s, reader) == ReadHeader(s, reader, LAMBDA t, ver : NextEntries(t, ver, <<>>))

(* read_dump: the checksum, then the body read as a stream, then, if that  *)
(* fails, as a dump                                                        *)
Counted(s, ver) ==
    LET r == ReadAll(s, LAMBDA t : ReadEntry(t, ver), ver) IN
    IF r.ok THEN Result(TRUE, r.val) ELSE Refused

ReadBody(body, reader) ==
    LET asStream == StreamingParse(body, reader) IN
    IF asStream.ok THEN asStream ELSE ReadHeader(body, reader, Counted)

ReadDump(s, reader) ==
    LET body == Front(s) IN
    IF Len(s) >= 3 /\ Crc(body) = Last(s) THEN ReadBody(body, reader) ELSE Refused

-----------------------------------------------------------------------------
(* Save a list of entries, lose the end of the file, load it.              *)

NothingLoaded == [by |-> "none", reader |-> 0, ok |-> FALSE, items |-> <<>>]

ZdbInit ==
    /\ saved = <<>> /\ file = <<>>
    /\ format = <<"none", 0>>
    /\ loaded = NothingLoaded

SaveStream(items, ver) ==
    /\ saved' = items /\ format' = <<"stream", ver>>
    /\ file' = WriteStream(items, ver)
    /\ loaded' = NothingLoaded

SaveDumpStreaming(items, ver) ==
    /\ saved' = items /\ format' = <<"dump", ver>>
    /\ file' = WriteDumpStreaming(items, ver)
    /\ loaded' = NothingLoaded

SaveDump(items, ver) ==
    /\ saved' = items /\ format' = <<"buffered", ver>>
    /\ file' = WriteDump(items, ver)
    /\ loaded' = NothingLoaded

Lose(n) ==
    /\ format[1] = "stream"
    /\ file' = SubSeq(file, 1, n)
    /\ UNCHANGED <<saved, format, loaded>>

Loaded(by, reader, r) ==
    /\ loaded' = [by |-> by, reader |-> reader, ok |-> r.ok, items |-> r.items]
    /\ UNCHANGED <<saved, format, file>>

Load(reader) ==
    \/ format[1] = "stream" /\ Loaded("parser", reader, StreamingParse(file, reader))
    \/ format[1] = "stream" /\ Loaded("reader", reader, StreamRead(file, reader))
    \/ format[1] \in {"dump", "buffered"} /\ Loaded("dump", reader, ReadDump(file, reader))

ZdbNext ==
    \/ format[1] = "none" /\ \E items \in ItemLists, ver \in Versions :
          SaveStream(items, ver) \/ SaveDumpStreaming(items, ver) \/ SaveDump(items, ver)
    \/ loaded = NothingLoaded /\ \E n \in 0..(Len(file) - 1) : Lose(n)
    \/ loaded = NothingLoaded /\ \E reader \in {2, 3} : Load(reader)

ZdbSpec == ZdbInit /\ [][ZdbNext]_zdbVars

-----------------------------------------------------------------------------

(* A value comes back as itself, a HyperLogLog padded with zeros.          *)
Same(v, w) == w = (IF v[1] = "hll" THEN <<"hll", PadHll(v[2])>> ELSE v)
SameItems(a, b) ==
    Len(a) = Len(b) /\ \A i \in DOMAIN a : a[i][1] = b[i][1] /\ Same(a[i][2], b[i][2])

(* The sizes that the reader accepts; the writers have no limits.          *)
RECURSIVE SizesFit(_)
SizesFit(v) ==
    CASE v[1] = "str" -> Len(v[2]) <= MaxStringSize
      [] v[1] = "bitmap" -> Len(v[2]) <= BitmapLimit(format[2])
      [] v[1] = "array" -> Len(v[2]) <= MaxCollectionSize /\ \A i \in DOMAIN v[2] : SizesFit(v[2][i])
      [] v[1] \in {"hash", "zset", "set"} -> Len(v[2]) <= MaxCollectionSize
      [] OTHER -> TRUE

(* Of a stream the compressed value has to fit too, of a dump the number   *)
(* of entries.                                                             *)
AllFit ==
    /\ \A i \in DOMAIN saved : SizesFit(saved[i][2])
    /\ IF format[1] = "stream"
       THEN \A i \in DOMAIN saved : Len(WriteInner(saved[i][2], format[2])) <= MaxCompressedSize
       ELSE Len(saved) <= MaxCollectionSize

(* The values written can be read: lists and streams have no reader, and   *)
(* the scores of a Legacy dump are written in eight bytes and read in four. *)
ScoresFit == format[2] = 0 => \A i \in DOMAIN saved : saved[i][2][1] # "zset"
Readable == ScoresFit /\ \A i \in DOMAIN saved : saved[i][2][1] \notin {"list", "stream"}

(* The length of a key begins with the byte of the end marker.             *)
LikeEof(key) == WriteLength(Len(key), format[2])[1] = EofTag
LongKey(key) == UsesVarint(format[2]) /\ Len(key) >= Radix
NoKey(P(_)) == \A i \in DOMAIN saved : ~P(saved[i][1])

Whole == file = WriteStream(saved, format[2])

(* What write_stream wrote, in any version, load_from_zdb reads back       *)
(* entry for entry, compressed values included, if its version can read it *)
(* at all and nothing exceeds a limit of the reader; else it refuses.      *)
(* Excepted are values without a reader and keys whose length looks like   *)
(* the end marker.                                                         *)
StreamRoundTrip ==
    loaded.by = "parser" /\ Whole /\ Readable /\ NoKey(LikeEof) =>
        /\ loaded.ok = (CanRead(loaded.reader, format[2]) /\ AllFit)
        /\ loaded.ok => SameItems(saved, loaded.items)

(* A stream that lost its end is refused by both readers; only             *)
(* StreamingParser takes a header alone for an empty stream.               *)
TruncatedRefused ==
    loaded.by \in {"parser", "reader"} /\ ~Whole /\ ScoresFit /\ NoKey(LikeEof) =>
        ~loaded.ok \/ (loaded.by = "parser" /\ Len(file) = 2)

(* Whatever was lost, the entries delivered before the error, which        *)
(* load_from_zdb has put into the store by then, are the first of those    *)
(* that were saved.                                                        *)
DeliveredPrefix ==
    loaded.by = "parser" /\ ScoresFit =>
        /\ Len(loaded.items) <= Len(saved)
        /\ SameItems(SubSeq(saved, 1, Len(loaded.items)), loaded.items)

(* The two readers of streams return the same of a whole stream without    *)
(* long keys.                                                              *)
ReadersAgree ==
    loaded.by = "reader" /\ NoKey(LongKey) /\ Len(file) # 2 =>
        LET other == StreamingParse(file, loaded.reader) IN
        loaded.ok = other.ok /\ loaded.items = other.items

(* skip_value passes over exactly the bytes that reading the value takes.  *)
SkipAgrees ==
    format[1] # "none" =>
    \A i \in DOMAIN saved :
        LET ver == format[2]
            bytes == WriteValue(saved[i][2], ver) \o <<EofTag>>
            read == ReadValue(bytes, ver)
        IN read.ok => SkipValue(bytes, ver).ok /\ SkipValue(bytes, ver).rest = read.rest

(* What write_dump_streaming wrote read_dump returns, or refuses if it     *)
(* exceeds a limit, unless its first attempt, which takes the number of    *)
(* entries for the length of a key, happens on an end marker.              *)
DumpRoundTrip ==
    loaded.by = "dump" /\ format[1] = "dump" /\ Readable
        /\ ~StreamingParse(Front(file), loaded.reader).ok =>
        /\ loaded.ok = (CanRead(loaded.reader, format[2]) /\ AllFit)
        /\ loaded.ok => SameItems(saved, loaded.items)

(* A dump that was written is read back entry for entry, by every reader   *)
(* that can, or refused if it exceeds a limit of the reader (decode.rs:34);*)
(* skipping agrees with reading, and of a dump that lost its end only a    *)
(* prefix is delivered, with an error.                                     *)
DumpsReadBack ==
    StreamRoundTrip /\ DumpRoundTrip /\ TruncatedRefused /\ DeliveredPrefix /\ ReadersAgree /\ SkipAgrees

(* What write_dump wrote read_dump returns.                                *)
DumpRestored ==
    loaded.by = "dump" /\ format[1] = "buffered" /\ Readable /\ AllFit /\ CanRead(loaded.reader, format[2]) =>
        loaded.ok /\ SameItems(saved, loaded.items)
=============================================================================
