-------------------------------- MODULE Sds --------------------------------
(***************************************************************************)
(* Sds (src/src/database/sds): a byte string kept inside the value up to   *)
(* InlineCap bytes and in a Vec beyond, and its conversions from and to    *)
(* integers.  A byte is a digit of Radix, a sign or another character; the *)
(* inline buffer keeps the stale bytes past its length.                    *)
(***************************************************************************)
EXTENDS Integers, Sequences, SequencesExt, FiniteSetsExt

CONSTANTS
    InlineCap,      \* INLINE_CAP
    Radix,           \* 10 in the code
    SdsBytes,       \* the bytes pushed
    SdsPieces,      \* the slices appended
    Reserves,       \* arguments of with_capacity and reserve
    MaxI64,         \* i64::MAX; i64::MIN is -MaxI64 - 1
    NumberBuf,      \* length of write_i64's buffer: 20 in the code
    MaxText         \* bound on the length of the text

MinusSign == Radix
PlusSign == Radix + 1
Letter == Radix + 2
NoNumber == <<>>

VARIABLES
    sds,            \* the Sds
    text,           \* the bytes it stands for
    promised,       \* bytes it was asked to have room for
    number          \* <<the integer it was made from>>, while not edited

sdsVars == <<sds, text, promised, number>>

--------------------------------------------------------------------------------
(* Representation                                                          *)

Inline(bytes) ==
    [inline |-> TRUE, len |-> Len(bytes),
     buf |-> [i \in 1..InlineCap |-> IF i <= Len(bytes) THEN bytes[i] ELSE 0]]

Heap(bytes, cap) == [inline |-> FALSE, buf |-> bytes, cap |-> cap]

AsSlice(s) == IF s.inline THEN SubSeq(s.buf, 1, s.len) ELSE s.buf
SdsCapacity(s) == IF s.inline THEN InlineCap ELSE s.cap

\* from_vec, from_bytes, from_str, from_string
FromBytes(bytes) == IF Len(bytes) <= InlineCap THEN Inline(bytes) ELSE Heap(bytes, Len(bytes))

WithCapacity(cap) == IF cap <= InlineCap THEN Inline(<<>>) ELSE Heap(<<>>, cap)

\* Vec::reserve: at least doubles when it must grow
VecReserve(s, more) ==
    IF s.cap - Len(s.buf) >= more THEN s ELSE [s EXCEPT !.cap = Max({2 * @, Len(s.buf) + more})]

Reserved(s, more) ==
    IF ~ s.inline THEN VecReserve(s, more)
    ELSE IF s.len + more <= InlineCap THEN s
    ELSE Heap(AsSlice(s), s.len + more)

\* Mutant of SdsAppended: the inline bytes are written from the start.
SdsAppendedOver(s, other) ==
    IF ~ s.inline THEN [VecReserve(s, Len(other)) EXCEPT !.buf = @ \o other]
    ELSE IF s.len + Len(other) <= InlineCap
    THEN [s EXCEPT !.len = @ + Len(other),
                   !.buf = [i \in 1..InlineCap |-> IF i <= Len(other) THEN other[i] ELSE s.buf[i]]]
    ELSE Heap(AsSlice(s) \o other, s.len + Len(other))

\* append; push is append of one byte
SdsAppended(s, other) ==
    IF ~ s.inline THEN [VecReserve(s, Len(other)) EXCEPT !.buf = @ \o other]
    ELSE IF s.len + Len(other) <= InlineCap
    THEN [s EXCEPT !.len = @ + Len(other),
                   !.buf = [i \in 1..InlineCap |->
                            IF i \in (s.len + 1)..(s.len + Len(other)) THEN other[i - s.len] ELSE @[i]]]
    ELSE Heap(AsSlice(s) \o other, s.len + Len(other))

Cleared(s) == IF s.inline THEN [s EXCEPT !.len = 0] ELSE [s EXCEPT !.buf = <<>>]

InlineDowngrade(s) == IF ~ s.inline /\ Len(s.buf) <= InlineCap THEN Inline(s.buf) ELSE s

SdsTruncated(s, n) ==
    InlineDowngrade(IF s.inline THEN [s EXCEPT !.len = Min({@, n})]
                    ELSE [s EXCEPT !.buf = SubSeq(@, 1, Min({Len(@), n}))])

--------------------------------------------------------------------------------
(* Numbers                                                                 *)

\* write_u64: the digits of m, the first not zero unless it is the only one
WriteU64(m) ==
    LET width == Max({k \in 1..NumberBuf : k = 1 \/ Radix^(k - 1) <= m})
    IN  [i \in 1..width |-> (m \div Radix^(width - i)) % Radix]

\* write_i64 (unsigned_abs of i64::MIN does not overflow)
WriteI64(n) == IF n < 0 THEN <<MinusSign>> \o WriteU64(-n) ELSE WriteU64(n)

Unsigned(bytes) == IF bytes[1] \in {MinusSign, PlusSign} THEN Tail(bytes) ELSE bytes

Parsed(value) == [value |-> value, error |-> "no"]
Refused(error) == [value |-> 0, error |-> error]

\* Digit by digit, as long as `fits`; the error is that of the first that fails
Accumulate(digits, sign, fits) ==
    FoldLeft(LAMBDA acc, b:
                LET v == Radix * acc.value + sign * b
                IN  IF acc.error # "no" THEN acc
                    ELSE IF b >= Radix THEN Refused("invalid")
                    ELSE IF v \in fits THEN Parsed(v) ELSE Refused("overflow"),
             Parsed(0), digits)

\* to_i64, by str::parse, which adds up with the sign
ToI64(bytes) ==
    IF bytes = <<>> \/ Unsigned(bytes) = <<>> THEN Refused("invalid")
    ELSE Accumulate(Unsigned(bytes), IF bytes[1] = MinusSign THEN -1 ELSE 1, (-MaxI64 - 1)..MaxI64)

\* parse_i64: the magnitude as a u64, then its bound
ParseI64(bytes) ==
    IF bytes = <<>> \/ Unsigned(bytes) = <<>> THEN Refused("invalid")
    ELSE LET read == Accumulate(Unsigned(bytes), 1, 0..(2 * MaxI64 + 1))
             sign == IF bytes[1] = MinusSign THEN -1 ELSE 1
         IN  IF read.error # "no" THEN read
             ELSE IF sign * read.value \in (-MaxI64 - 1)..MaxI64 THEN Parsed(sign * read.value)
             ELSE Refused("overflow")

IsInteger(bytes) ==
    /\ bytes # <<>> /\ Unsigned(bytes) # <<>>
    /\ \A i \in DOMAIN Unsigned(bytes) : Unsigned(bytes)[i] < Radix

--------------------------------------------------------------------------------
(* Operations                                                              *)

SdsInit ==
    /\ sds = Inline(<<>>)
    /\ text = <<>>
    /\ promised = 0
    /\ number = NoNumber

\* A value of its own
SdsMake(s, bytes, room, n) ==
    /\ sds' = s
    /\ text' = bytes
    /\ promised' = room
    /\ number' = n

SdsFromBytes(bytes) == SdsMake(FromBytes(bytes), bytes, 0, NoNumber)
SdsWithCapacity(cap) == SdsMake(WithCapacity(cap), <<>>, cap, NoNumber)
SdsFromI64(n) == SdsMake(FromBytes(WriteI64(n)), WriteI64(n), 0, <<n>>)

\* repeat: as from_vec of n times the byte
SdsRepeat(byte, n) == SdsFromBytes([i \in 1..n |-> byte])

\* slice_range: start <= end <= len is asserted
SdsSlice(start, end) ==
    /\ start <= end /\ end <= Len(AsSlice(sds))
    /\ SdsMake(FromBytes(SubSeq(AsSlice(sds), start + 1, end)), SubSeq(text, start + 1, end), 0, NoNumber)

SdsReserve(more) ==
    /\ Len(text) + more <= MaxText
    /\ sds' = Reserved(sds, more)
    /\ promised' = Max({promised, Len(text) + more})
    /\ UNCHANGED <<text, number>>

SdsAppend(other) ==
    /\ Len(text) + Len(other) <= MaxText
    /\ sds' = SdsAppended(sds, other)
    /\ text' = text \o other
    /\ number' = NoNumber
    /\ UNCHANGED promised

SdsClear ==
    /\ sds' = Cleared(sds)
    /\ text' = <<>>
    /\ number' = NoNumber
    /\ UNCHANGED promised

\* truncate gives up the room asked for: the string may move back inline
SdsTruncate(n) ==
    /\ sds' = SdsTruncated(sds, n)
    /\ text' = SubSeq(text, 1, Min({Len(text), n}))
    /\ promised' = 0
    /\ number' = IF n < Len(text) THEN NoNumber ELSE number

SdsNext ==
    \/ \E p \in SdsPieces : SdsFromBytes(p)
    \/ \E c \in Reserves : SdsWithCapacity(c)
    \/ \E n \in (-MaxI64 - 1)..MaxI64 : SdsFromI64(n)
    \/ \E b \in SdsBytes, n \in 0..MaxText : SdsRepeat(b, n)
    \/ \E i, j \in 0..MaxText : SdsSlice(i, j)
    \/ \E c \in Reserves : SdsReserve(c)
    \/ \E b \in SdsBytes : SdsAppend(<<b>>)
    \/ \E p \in SdsPieces : SdsAppend(p)
    \/ SdsClear
    \/ \E n \in 0..MaxText : SdsTruncate(n)

--------------------------------------------------------------------------------
(***************************************************************************)
(* The bytes read back are the ones written, through every move between    *)
(* the inline buffer and the heap; the inline length stays within the      *)
(* buffer and a Vec within its capacity (debug_assert_invariants).         *)
(***************************************************************************)
SdsIsText ==
    /\ AsSlice(sds) = text
    /\ Len(text) <= SdsCapacity(sds)

(***************************************************************************)
(* The room asked for with with_capacity or reserve is there until the     *)
(* string is truncated, so filling it never reallocates.                   *)
(***************************************************************************)
RoomKept == SdsCapacity(sds) >= promised

(***************************************************************************)
(* A string made by from_i64 reads back by to_i64 as the same number, the  *)
(* smallest one included; for any string, to_i64 and parse_i64 accept the  *)
(* same and agree on the value, and is_integer says so before.             *)
(***************************************************************************)
NumbersExact ==
    LET read == ToI64(AsSlice(sds))
    IN  /\ number # NoNumber => read = Parsed(number[1])
        /\ read.error = "no" <=> ParseI64(AsSlice(sds)).error = "no"
        /\ read.error = "no" => ParseI64(AsSlice(sds)) = read /\ IsInteger(AsSlice(sds))
        /\ read.error = "invalid" => ~ IsInteger(AsSlice(sds))

(***************************************************************************)
(* A string keeps its bytes and the room it promised through every move    *)
(* between the inline buffer and the heap, and numbers read back as written. *)
(***************************************************************************)
SdsExact == SdsIsText /\ RoomKept /\ NumbersExact
=============================================================================
