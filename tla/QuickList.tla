----------------------------- MODULE QuickList ------------------------------
(***************************************************************************)
(* The segmented list of src/src/database/quicklist.  segment_starts is an *)
(* index of the segments for access by position: it is rebuilt when it is  *)
(* dirty, updated in place otherwise, and preceded by a cache of the       *)
(* segment that was used last.  Every OptimizeThreshold changes the list   *)
(* may be packed again.                                                    *)
(*                                                                         *)
(* Below it, the packed list of src/src/database/listpack, the other list  *)
(* over AbstractList: elements in one buffer,                              *)
(* each preceded by its length, a terminator after the last.  The content  *)
(* lies between head and tail, with room on both sides.                    *)
(*                                                                         *)
(* A byte is a number below 2 * Base (Base is 128): the upper half are the *)
(* bytes of a length that is continued in the next byte, and the largest,  *)
(* 0xFF, is the terminator, though a length can begin with it as well.     *)
(* Positions in the content count from 0.  Two calls can spoil the content *)
(* so that later ones read bytes of the buffer outside of it; the model    *)
(* ends there, and leaves those bytes out.                                 *)
(*                                                                         *)
(* Last, the sorted set of integers of src/src/database/intset.  It keeps  *)
(* its elements in 16, 32 or 64 bits, the narrowest that has held them all *)
(* since the set was created; a lookup of a number that the width cannot   *)
(* hold is decided before the number is cast to it.                        *)
(***************************************************************************)
EXTENDS Integers, FiniteSetsExt, SequencesExt, KeyValue

CONSTANTS
    QuickLen,            \* bound: elements of the list
    MaxSegment,          \* max_segment_size
    OptimizeThreshold,   \* optimize_threshold (1000)
    ManySegments,        \* more segments than this are packed (5)
    FillDivisor          \* and segments below max_segment_size / this (4)

ASSUME QuickListAssumption ==
    /\ QuickLen \in Nat /\ MaxSegment \in Nat \ {0} /\ OptimizeThreshold \in Nat
    /\ ManySegments \in Nat /\ FillDivisor \in Nat \ {0}

VARIABLES
    ql,         \* the list; its cache is a segment, or -1 for None
    quickReply  \* the last call and what it returned
quickVars == <<ql, quickReply>>

Segs(q) == Len(q.segments)
ElementsIn(segs, a, b) == Len(FlattenSeq(SubSeq(segs, a, b)))
Starts(segs) == [i \in 1..(Len(segs) + 1) |-> ElementsIn(segs, 1, i - 1)]

MarkDirty(q) == LET n == Segs(q) + 1 IN
    [q EXCEPT !.dirty = TRUE, !.cache = -1,
              !.starts = [i \in 1..n |-> IF i <= Len(@) THEN @[i] ELSE 0]]

Rebuild(q) == [q EXCEPT !.starts = Starts(q.segments), !.dirty = FALSE, !.cache = -1]

\* update_segment_starts_from(s): the starts up to s are taken as they are,
\* and there is one after each segment.
UpdateFrom(q, s) ==
    IF q.dirty THEN q
    ELSE [q EXCEPT !.cache = -1,
            !.starts = [i \in DOMAIN @ |->
                IF i <= s \/ i > Segs(q) + 1 THEN @[i]
                ELSE (IF s = 1 THEN 0 ELSE @[s]) + ElementsIn(q.segments, s, i - 1)]]

Pack(items) ==
    [i \in 1..((Len(items) + MaxSegment - 1) \div MaxSegment) |->
        SubSeq(items, (i - 1) * MaxSegment + 1, Min({i * MaxSegment, Len(items)}))]

Optimize(q) ==
    [Rebuild([q EXCEPT !.segments = Pack(FlattenSeq(@))]) EXCEPT !.ops = 0]

AutoOptimize(q) ==
    IF q.ops + 1 < OptimizeThreshold THEN [q EXCEPT !.ops = @ + 1]
    ELSE IF \/ Segs(q) > ManySegments
            \/ \E i \in 1..Segs(q) : Len(q.segments[i]) < MaxSegment \div FillDivisor
         THEN Optimize(q)
         ELSE [q EXCEPT !.ops = 0]

NewSegmentFront(q) ==
    IF Segs(q) = 0 \/ Len(q.segments[1]) >= MaxSegment
    THEN MarkDirty([q EXCEPT !.segments = <<<<>>>> \o @])
    ELSE q

NewSegmentBack(q) ==
    IF Segs(q) = 0 \/ Len(q.segments[Segs(q)]) >= MaxSegment
    THEN MarkDirty([q EXCEPT !.segments = Append(@, <<>>)])
    ELSE q

InFront(x) == LET q == NewSegmentFront(ql) IN
    UpdateFrom([q EXCEPT !.segments[1] = <<x>> \o @, !.len = @ + 1], 1)

AtBack(q0, x) == LET q == NewSegmentBack(q0) IN
    UpdateFrom([q EXCEPT !.segments[Segs(q)] = Append(@, x), !.len = @ + 1], Segs(q))

\* A pop leaves segment s as rest: an empty segment goes.
Cut(s, rest) ==
    IF rest = <<>>
    THEN MarkDirty([ql EXCEPT !.segments = RemoveAt(@, s), !.len = @ - 1])
    ELSE UpdateFrom([ql EXCEPT !.segments[s] = rest, !.len = @ - 1], s)

\* slice::binary_search on the starts: the greatest start not above the index
SearchStarts(q, i) == Max({s \in 1..Len(q.starts) : q.starts[s] <= i})

FindSegment(q0, i) ==
    LET q == IF q0.dirty \/ Len(q0.starts) # Segs(q0) + 1 THEN Rebuild(q0) ELSE q0
        hit == /\ q.cache # -1 /\ q.cache <= Segs(q)
               /\ i >= q.starts[q.cache] /\ i < q.starts[q.cache] + Len(q.segments[q.cache])
    IN  [q EXCEPT !.cache = IF hit THEN @ ELSE SearchStarts(q, i)]

\* The place of element i in the segment that find_segment chose
Offset(q, i) == i - q.starts[q.cache] + 1

NewList == [segments |-> <<>>, starts |-> <<0>>, len |-> 0,
            cache |-> -1, dirty |-> FALSE, ops |-> 0]

-----------------------------------------------------------------------------
QuickListInit == ql = NewList /\ quickReply = <<"new", None>>

QuickPush ==
    /\ ql.len < QuickLen
    /\ \E x \in Values :
          \/ ql' = AutoOptimize(InFront(x)) /\ quickReply' = <<"push_front", None>>
          \/ ql' = AutoOptimize(AtBack(ql, x)) /\ quickReply' = <<"push_back", None>>

QuickPopFront ==
    IF Segs(ql) = 0 THEN quickReply' = <<"pop_front", None>> /\ UNCHANGED ql
    ELSE /\ quickReply' = <<"pop_front", Head(ql.segments[1])>>
         /\ ql' = AutoOptimize(Cut(1, Tail(ql.segments[1])))

QuickPopBack == LET n == Segs(ql) IN
    IF n = 0 THEN quickReply' = <<"pop_back", None>> /\ UNCHANGED ql
    ELSE /\ quickReply' = <<"pop_back", Last(ql.segments[n])>>
         /\ ql' = AutoOptimize(Cut(n, Front(ql.segments[n])))

QuickGet(i) == LET q == FindSegment(ql, i) IN
    IF i >= ql.len THEN quickReply' = <<"get", None>> /\ UNCHANGED ql
    ELSE ql' = q /\ quickReply' = <<"get", q.segments[q.cache][Offset(q, i)]>>

\* get_mut, and a write through the reference it returns
QuickGetMut(i, x) == LET q == FindSegment(ql, i) IN
    /\ i < ql.len
    /\ ql' = [q EXCEPT !.segments[q.cache][Offset(q, i)] = x]
    /\ quickReply' = <<"get_mut", None>>

QuickOptimize == ql' = Optimize(ql) /\ quickReply' = <<"tidy", None>>

QuickClear == ql' = NewList /\ quickReply' = <<"clear", None>>

\* Deserialize keeps the segments, and ensure_valid_state the rest.
QuickReload ==
    /\ ql' = [Rebuild(MarkDirty(ql)) EXCEPT !.len = Len(FlattenSeq(ql.segments)), !.ops = 0]
    /\ quickReply' = <<"tidy", None>>

\* into_vecdeque, then from_vecdeque
QuickRebuild ==
    /\ ql' = FoldLeft(LAMBDA q, x : AutoOptimize(AtBack(q, x)), NewList, FlattenSeq(ql.segments))
    /\ quickReply' = <<"tidy", None>>

QuickListNext ==
    \/ QuickPush \/ QuickPopFront \/ QuickPopBack
    \/ \E i \in 0..QuickLen : QuickGet(i) \/ \E x \in Values : QuickGetMut(i, x)
    \/ QuickOptimize \/ QuickClear \/ QuickReload \/ QuickRebuild

-----------------------------------------------------------------------------
QuickAsList == INSTANCE AbstractList WITH
    Items <- Values, MaxLen <- QuickLen, list <- FlattenSeq(ql.segments), reply <- quickReply

\* A push, a pop, a read or a write by position acts on the sequence that the
\* segments make up, whatever the index and the cache hold from earlier calls
\* and wherever a packing of the segments comes in between.
QuickListIsList == QuickAsList!Spec

\* What QuickList::validate checks: the length counts the elements, there is
\* one start more than there are segments, and an index that is not dirty is
\* exact.  No segment is empty or larger than max_segment_size.
QuickListValid ==
    /\ ql.len = Len(FlattenSeq(ql.segments))
    /\ Len(ql.starts) = Segs(ql) + 1
    /\ ql.dirty \/ ql.starts = Starts(ql.segments)
    /\ \A i \in 1..Segs(ql) : Len(ql.segments[i]) \in 1..MaxSegment

-----------------------------------------------------------------------------

CONSTANTS
    Base,         \* values of the seven bits of a length byte (128)
    Bytes,        \* the bytes of each value
    PackLen,      \* bound: elements of the list
    PackCap,      \* bound: bytes of the buffer
    FirstCap      \* the buffer of a new list (1024)

ASSUME ListPackAssumption ==
    /\ Base \in Nat \ {0, 1} /\ PackLen \in Nat /\ PackCap \in Nat
    /\ FirstCap \in Nat \ {0, 1}
    /\ Bytes \in [DOMAIN Bytes -> Seq(0..(2 * Base - 1))]

VARIABLES
    lp,         \* content, head, cap and n (num_entries)
    packReply,  \* the last call and what it returned
    packList,   \* the elements of the content, the refinement mapping
    packSpoilt  \* a call has spoilt the content
packVars == <<lp, packReply, packList, packSpoilt>>

Terminator == 2 * Base - 1
Used(p) == Len(p.content)
TailOf(p) == p.head + Used(p)
ByteAt(p, i) == p.content[i + 1]
Span(p, i, j) == SubSeq(p.content, i + 1, j)   \* the bytes i..(j - 1)

RECURSIVE EncodeVarint(_)
EncodeVarint(n) ==
    IF n < Base THEN <<n>> ELSE <<(n % Base) + Base>> \o EncodeVarint(n \div Base)

RECURSIVE DecodeVarint(_, _)
\* The number that the bytes at i encode
DecodeVarint(p, i) == LET b == ByteAt(p, i) IN
    IF b < Base THEN b ELSE (b - Base) + Base * DecodeVarint(p, i + 1)

EncodedLength(n) == Len(EncodeVarint(n))

Encoded(v) == EncodeVarint(Len(Bytes[v])) \o Bytes[v]

\* The value that has these bytes
ValueOf(bytes) == IF \E v \in DOMAIN Bytes : Bytes[v] = bytes
                  THEN CHOOSE v \in DOMAIN Bytes : Bytes[v] = bytes ELSE "garbage"

\* The element at position i: where its bytes are and what they say
ElementAt(p, i) ==
    LET n == DecodeVarint(p, i)
        first == i + EncodedLength(n)
    IN  [start |-> i, end |-> first + n, value |-> ValueOf(Span(p, first, first + n))]

RECURSIVE ScanFrom(_, _)
\* The walk of iter, get, pop_back and find_element_pos, which ends at a
\* byte 0xFF in the place of a length
ScanFrom(p, i) ==
    IF i >= Used(p) \/ ByteAt(p, i) = Terminator THEN <<>>
    ELSE LET e == ElementAt(p, i) IN <<e>> \o ScanFrom(p, e.end)
Scan(p) == ScanFrom(p, 0)

RECURSIVE ElementsFrom(_, _, _)
\* n elements by their lengths alone, as pop_front goes by them
ElementsFrom(p, i, n) ==
    IF n = 0 THEN <<>> ELSE LET e == ElementAt(p, i) IN <<e>> \o ElementsFrom(p, e.end, n - 1)
Elements(p) == ElementsFrom(p, 0, p.n)

\* An element's length begins with 0xFF, which the walk takes for the end.
Hidden(p) == \E i \in 1..p.n : ByteAt(p, Elements(p)[i].start) = Terminator

Blank(cap) == [content |-> <<Terminator>>, head |-> cap \div 2, cap |-> cap, n |-> 0]

\* The content is copied to the middle of a buffer.
CenterIn(p, cap) == [p EXCEPT !.cap = cap, !.head = (cap - Used(p)) \div 2]
Recenter(p) == CenterIn(p, p.cap)

GrowAndCenter(p, extra) ==
    IF p.head >= extra /\ p.cap - TailOf(p) >= extra THEN p
    ELSE CenterIn(p, Max({(p.cap * 3) \div 2, (Used(p) + extra) * 2}))

PushedFront(v) ==
    LET bytes == Encoded(v)
        p == GrowAndCenter(lp, Len(bytes))
    IN  [p EXCEPT !.content = bytes \o @, !.head = @ - Len(bytes), !.n = @ + 1]

PushedBack(p0, v) == LET p == GrowAndCenter(p0, Len(Encoded(v))) IN
    [p EXCEPT !.content = Append(Front(@) \o Encoded(v), Terminator), !.n = @ + 1]

PoppedFront(p0) ==
    LET at == ElementAt(p0, 0).end
        p == [p0 EXCEPT !.content = Span(p0, at, Used(p0)), !.head = @ + at, !.n = @ - 1]
    IN  CASE p.n = 0 -> Blank(p.cap)
          [] p.n > 0 /\ p.head > p.cap \div 2 -> Recenter(p)
          [] OTHER -> p

\* The content is cut at a position, and ends there.
EndAt(p, start) == [p EXCEPT !.content = Append(Span(p, 0, start), Terminator), !.n = @ - 1]

\* Without an element found by the walk the list is cut at its head.
LastStart(p) == LET s == Scan(p) IN IF s = <<>> THEN 0 ELSE Last(s).start

PoppedBack(p0) == LET p == EndAt(p0, LastStart(p0)) IN
    CASE p.n = 0 -> Blank(p.cap)
      [] p.n > 0 /\ TailOf(p) > (p.cap * 3) \div 4 -> Recenter(p)
      [] OTHER -> p

\* remove of an element that is neither the first nor the last moves the
\* shorter side.  The left side is copied to where the element ends, over
\* what follows it, and head goes up by the length of the element.
MiddleRemoved(p, e) ==
    IF e.start < Used(p) - e.end
    THEN [p EXCEPT !.content = Span(p, e.end - e.start, e.end) \o Span(p, 0, e.start)
                               \o Span(p, e.end + e.start, Used(p)),
                   !.head = @ + (e.end - e.start), !.n = @ - 1]
    ELSE [p EXCEPT !.content = Span(p, 0, e.start) \o Span(p, e.end, Used(p)), !.n = @ - 1]

-----------------------------------------------------------------------------
Packed(p) == LET s == Elements(p) IN [i \in 1..Len(s) |-> s[i].value]

ListPackInit ==
    /\ lp = Blank(FirstCap) /\ packList = <<>> /\ packSpoilt = FALSE
    /\ packReply = <<"new", None>>

\* A push that the bounds of the model leave room for
ListPackPush ==
    /\ lp.n < PackLen
    /\ \E v \in DOMAIN Bytes :
          \/ lp' = PushedFront(v) /\ packReply' = <<"push_front", None>>
          \/ lp' = PushedBack(lp, v) /\ packReply' = <<"push_back", None>>
    /\ lp'.cap <= PackCap
    /\ UNCHANGED packSpoilt

ListPackPopFront ==
    /\ UNCHANGED packSpoilt
    /\ IF lp.n = 0 THEN packReply' = <<"pop_front", None>> /\ UNCHANGED lp
       ELSE packReply' = <<"pop_front", ElementAt(lp, 0).value>> /\ lp' = PoppedFront(lp)

\* The last element that the walk finds goes, with what it hides.
ListPackPopBack == LET s == Scan(lp) IN
    /\ packSpoilt' = Hidden(lp)
    /\ IF lp.n = 0 THEN packReply' = <<"pop_back", None>> /\ UNCHANGED lp
       ELSE /\ packReply' = <<"pop_back", IF s = <<>> THEN ValueOf(<<>>) ELSE Last(s).value>>
            /\ lp' = PoppedBack(lp)

ListPackGet(i) == LET s == Scan(lp) IN
    /\ packReply' = <<"get", IF i < lp.n /\ i < Len(s) THEN s[i + 1].value ELSE None>>
    /\ UNCHANGED <<lp, packSpoilt>>

\* remove copies the left side, which is shorter, to a place past where it
\* should begin.
Shifting(i) == LET s == Scan(lp) IN
    /\ 0 < i /\ i < lp.n - 1 /\ i < Len(s)
    /\ s[i + 1].start < Used(lp) - s[i + 1].end

ListPackRemove(i) == LET s == Scan(lp) IN
    /\ packSpoilt' = Shifting(i)
    /\ IF i >= lp.n \/ (i > 0 /\ i >= Len(s)) THEN packReply' = <<"remove", "false">> /\ UNCHANGED lp
       ELSE /\ packReply' = <<"remove", "true">>
            /\ lp' = CASE i = 0 -> PoppedFront(lp)
                       [] i > 0 /\ i = lp.n - 1 -> EndAt(lp, s[i + 1].start)
                       [] OTHER -> MiddleRemoved(lp, s[i + 1])

RECURSIVE Truncated(_, _)
Truncated(p, n) == IF p.n <= n THEN p ELSE Truncated(PoppedBack(p), n)

RECURSIVE Extended(_, _, _)
Extended(p, n, v) == IF p.n >= n THEN p ELSE Extended(PushedBack(p, v), n, v)

\* resize; with a smaller length it is truncate
ListPackResize(n, v) ==
    /\ lp' = IF n > lp.n THEN Extended(lp, n, v) ELSE Truncated(lp, n)
    /\ lp'.cap <= PackCap
    /\ packReply' = <<"resize", None>>
    /\ packSpoilt' = (n < lp.n /\ Hidden(lp))

ListPackClear == lp' = Blank(lp.cap) /\ packReply' = <<"clear", None>> /\ UNCHANGED packSpoilt

ListPackNext ==
    /\ ~packSpoilt
    /\ \/ ListPackPush \/ ListPackPopFront \/ ListPackPopBack \/ ListPackClear
       \/ \E i \in 0..PackLen : ListPackGet(i) \/ ListPackRemove(i)
       \/ \E n \in 0..PackLen, v \in DOMAIN Bytes : ListPackResize(n, v)
    /\ packList' = IF packSpoilt' THEN packList ELSE Packed(lp')

-----------------------------------------------------------------------------
PackAsList == INSTANCE AbstractList WITH
    Items <- DOMAIN Bytes, MaxLen <- PackLen, list <- packList, reply <- packReply

\* The calls act on the sequence of elements, also across the moves of the
\* content in the buffer and its growth: nothing is overwritten, and no byte of
\* an element is taken for a length.  There are three exceptions.  A removal
\* that shifts the left side spoils the list (listpack_base.rs:418).  While the
\* length of an element begins with 0xFF, a removal at the back spoils it, and
\* get and remove may not find what is there.
ListPackIsList ==
    /\ PackAsList!Init
    /\ [][ \/ PackAsList!Next
           \/ packSpoilt'
           \/ Hidden(lp) /\ packReply' \in {<<"get", None>>, <<"remove", "false">>} /\ UNCHANGED lp
         ]_packVars

\* Until it is spoilt the content lies inside the buffer, and its elements end
\* at its last byte, a terminator; the walk finds num_entries elements unless
\* one of them is hidden.
ListPackBounds ==
    ~packSpoilt =>
        LET s == Elements(lp)
        IN  /\ 0 <= lp.head /\ TailOf(lp) <= lp.cap
            /\ (IF s = <<>> THEN 0 ELSE Last(s).end) = Used(lp) - 1
            /\ ByteAt(lp, Used(lp) - 1) = Terminator
            /\ Scan(lp) = s \/ Hidden(lp)

-----------------------------------------------------------------------------

CONSTANTS
    Numbers,   \* the arguments of the calls
    Limit      \* <<2^15, 2^31, 2^63>>: width w holds -Limit[w]..Limit[w]-1

ASSUME IntSetAssumption ==
    /\ Numbers \subseteq -Limit[3]..(Limit[3] - 1)
    /\ Limit \in [1..3 -> Nat \ {0}] /\ Limit[1] < Limit[2] /\ Limit[2] < Limit[3]

VARIABLES
    enc,         \* 1, 2 or 3 for Int16, Int32, Int64
    data,        \* data16, data32 and data64
    intReply     \* the number of the last call, and what it returned
intVars == <<enc, data, intReply>>

Fits(v, w) == -Limit[w] <= v /\ v < Limit[w]
\* v as i16, i32 or i64 keeps the low bits
Cast(v, w) == ((v + Limit[w]) % (2 * Limit[w])) - Limit[w]

\* slice::binary_search on a sorted slice: the elements before the place of x
Below(s, x) == Cardinality({i \in DOMAIN s : s[i] < x})
Has(s, x) == Below(s, x) < Len(s) /\ s[Below(s, x) + 1] = x

Need(v) == CASE Fits(v, 1) -> 1 [] ~Fits(v, 1) /\ Fits(v, 2) -> 2 [] OTHER -> 3

\* The elements move to the vector of the wider type.
Upgrade(w) ==
    IF w > enc THEN [data EXCEPT ![w] = data[enc], ![enc] = <<>>] ELSE data

InSet(v) == Fits(v, enc) /\ Has(data[enc], Cast(v, enc))

IntSetInit == enc = 1 /\ data = <<<<>>, <<>>, <<>>>> /\ intReply = <<None, "done">>

IntSetInsert(v) ==
    LET w == Max({enc, Need(v)})
        s == Upgrade(w)[w]
        x == Cast(v, w)
    IN  /\ enc' = w
        /\ IF Has(s, x)
           THEN data' = Upgrade(w) /\ intReply' = <<v, "replaced">>
           ELSE data' = [Upgrade(w) EXCEPT ![w] = InsertAt(s, Below(s, x) + 1, x)]
                /\ intReply' = <<v, "new">>

IntSetContains(v) ==
    /\ intReply' = <<v, IF InSet(v) THEN "in" ELSE None>>
    /\ UNCHANGED <<enc, data>>

IntSetRemove(v) == LET s == data[enc] IN
    IF InSet(v)
    THEN /\ data' = [data EXCEPT ![enc] = RemoveAt(s, Below(s, Cast(v, enc)) + 1)]
         /\ intReply' = <<v, "removed">> /\ UNCHANGED enc
    ELSE intReply' = <<v, "absent">> /\ UNCHANGED <<enc, data>>

IntSetNext == \E v \in Numbers : IntSetInsert(v) \/ IntSetContains(v) \/ IntSetRemove(v)

\* find_range_start_* and find_range_end_*: positions in the vector in use,
\* the first counted and the last not.
RangeStart(a) ==
    CASE a < -Limit[enc] -> 0
      [] a >= Limit[enc] -> Len(data[enc])
      [] OTHER -> Below(data[enc], Cast(a, enc))

RangeEnd(b) ==
    CASE b < -Limit[enc] -> 0
      [] b >= Limit[enc] -> Len(data[enc])
      [] OTHER -> Below(data[enc], Cast(b, enc)) + (IF Has(data[enc], Cast(b, enc)) THEN 1 ELSE 0)

IterRange(a, b) ==
    IF a > b \/ RangeStart(a) >= RangeEnd(b) THEN <<>>
    ELSE SubSeq(data[enc], RangeStart(a) + 1, RangeEnd(b))

-----------------------------------------------------------------------------
IntSetAsMap == INSTANCE AbstractMap WITH
    Keys <- Numbers, Values <- {"in"}, reply <- intReply,
    map <- [v \in Numbers |-> IF InSet(v) THEN "in" ELSE None]

\* A number is found after it is inserted and until it is removed, also when
\* the set has changed its width since, and no lookup takes a number for
\* another that has the same low bits.
IntSetIsMap == IntSetAsMap!Spec

\* iter_range gives exactly the members between its bounds, in order, and
\* also when a bound is outside the width in use.
IterRangeExact ==
    \A a, b \in Numbers :
        LET got == IterRange(a, b) IN
        /\ ToSet(got) = {v \in Numbers : a <= v /\ v <= b /\ InSet(v)}
        /\ \A i, j \in DOMAIN got : i < j => got[i] < got[j]
=============================================================================
