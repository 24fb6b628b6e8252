------------------------------ MODULE Commands ------------------------------
(***************************************************************************)
(* The commands of src/src/command, each an object whose execute method    *)
(* has the storage engine to itself: it reads the key, works on its copy   *)
(* of the value and stores the result.  The engine is the in-memory one.   *)
(*                                                                         *)
(* A text is a sequence of bytes: 0..9 are the digits, Minus is the sign,  *)
(* Lead and Trail are the bytes of a longer character of UTF-8, and 11     *)
(* stands for every other byte.  The integers of the commands go from      *)
(* MinInt to MaxInt, a byte of a bitmap has ByteBits bits, and a float is  *)
(* a whole number, one of the two infinities or NaN.                       *)
(***************************************************************************)
EXTENDS Integers, Sequences, FiniteSets, FiniteSetsExt, SequencesExt

CONSTANTS
    CmdKeys,    \* keys
    Fields,     \* fields of hashes
    Texts,      \* texts that clients send
    MinInt,     \* i64::MIN
    MaxInt,     \* i64::MAX
    MaxFloat,   \* the largest finite float
    ByteBits,   \* bits in a byte
    Offsets,    \* bit offsets that clients send
    MaxLen      \* bound: the length of texts and lists

VARIABLES
    db,     \* key -> value: its type and its content
    last    \* the outcome of the last command, and whether it checks types

cmdVars == <<db, last>>

Minus == 10
Lead == 12
Trail == 13
NoValue == <<"none">>
EmptyHash == [f \in {} |-> <<>>]
PosInf == MaxFloat + 1
NegInf == -PosInf
NaN == 2 * PosInf
Floats == NegInf..PosInf \cup {NaN}
Ints == MinInt..MaxInt

TypeOf(k) == db[k][1]
IsA(k, type) == TypeOf(k) = type
IsAOrFree(k, type) == TypeOf(k) \in {type, "none"}
ContentOr(k, empty) == IF IsA(k, "none") THEN empty ELSE db[k][2]

(* Values are what their types say; in particular no integer is out of     *)
(* range, whatever is added to it, and a bitmap is whole bytes.            *)
CommandsTypeOK ==
    /\ last \in {"ok", "err", "panic"} \X {"checks", "replaces"}
    /\ \A k \in CmdKeys :
          \/ db[k] = NoValue
          \/ IsA(k, "int") /\ db[k][2] \in Ints
          \/ IsA(k, "float") /\ db[k][2] \in Floats
          \/ IsA(k, "str") /\ Len(db[k][2]) <= MaxLen
          \/ IsA(k, "list") /\ Len(db[k][2]) <= MaxLen
          \/ IsA(k, "set") /\ db[k][2] \subseteq Texts
          \/ IsA(k, "hash") /\ DOMAIN db[k][2] \subseteq Fields
          \/ IsA(k, "bitmap") /\ Len(db[k][2]) % ByteBits = 0

CommandsInit ==
    /\ db = [k \in CmdKeys |-> NoValue]
    /\ last = <<"ok", "checks">>

-----------------------------------------------------------------------------
(* How a command ends.                                                     *)

Rejected == last' = <<"err", "checks">> /\ UNCHANGED db
Answer == last' = <<"ok", "checks">> /\ UNCHANGED db
Panicked == last' = <<"panic", "checks">> /\ UNCHANGED db
Store(k, v) == last' = <<"ok", "checks">> /\ db' = [db EXCEPT ![k] = v]
Replace(k, v) == last' = <<"ok", "replaces">> /\ db' = [db EXCEPT ![k] = v]

(* Strings and keys.                                                       *)

Value(type, x) == <<type, x>>

SetText(k, t) == Replace(k, Value("str", t))

(* The text of a command is UTF-8; a connection's SET stores any bytes.    *)
SetRaw(k) == Replace(k, Value("str", <<Trail>>))

SetNx(k, t) == IF IsA(k, "none") THEN Store(k, Value("str", t)) ELSE Answer

MSetTexts(k, l, t, w) ==
    /\ db' = [db EXCEPT ![k] = Value("str", t), ![l] = Value("str", w)]
    /\ last' = <<"ok", "replaces">>

AppendText(k, t) ==
    LET new == ContentOr(k, <<>>) \o t IN
    IF IsAOrFree(k, "str")
    THEN Len(new) <= MaxLen /\ Store(k, Value("str", new))
    ELSE Rejected

DelKey(k) == Store(k, NoValue)

RenameKey(k, l) ==
    IF IsA(k, "none") THEN Rejected
    ELSE /\ db' = [db EXCEPT ![k] = NoValue, ![l] = db[k]]
         /\ last' = <<"ok", "replaces">>

RenameFree(k, l) == IF ~IsA(l, "none") THEN Answer ELSE RenameKey(k, l)

FlushAll == db' = [k \in CmdKeys |-> NoValue] /\ last' = <<"ok", "checks">>

-----------------------------------------------------------------------------
(* Numbers.  A text is an integer when it is an optional sign and digits,  *)
(* and in range.  The parsers return a set with the number, or no number.  *)

Digits(t) == FoldLeft(LAMBDA n, d : 10 * n + d, 0, t)
IsDigits(t) == t # <<>> /\ \A i \in DOMAIN t : t[i] \in 0..9

NumberIn(t) ==
    IF IsDigits(t) THEN {Digits(t)}
    ELSE IF t # <<>> /\ t[1] = Minus /\ IsDigits(Tail(t)) THEN {-Digits(Tail(t))}
    ELSE {}

ToText(n) == IF n < 0 THEN <<Minus, -n>> ELSE <<n>>

ToInt(k) ==
    CASE IsA(k, "none") -> {0}
      [] IsA(k, "int") -> {db[k][2]}
      [] IsA(k, "str") -> NumberIn(db[k][2]) \cap Ints
      [] OTHER -> {}

CheckedSum(n, d) == {n + d} \cap Ints

(* INCR and INCRBY add, DECR and DECRBY subtract; the result is an integer *)
(* value even where a text was.                                            *)
IncrBy(k, d) ==
    LET sums == UNION {CheckedSum(n, d) : n \in ToInt(k)} IN
    IF sums = {} THEN Rejected ELSE \E n \in sums : Store(k, Value("int", n))

DecrBy(k, d) ==
    LET sums == UNION {CheckedSum(n, -d) : n \in ToInt(k)} IN
    IF sums = {} THEN Rejected ELSE \E n \in sums : Store(k, Value("int", n))

FloatSum(a, b) ==
    CASE NaN \in {a, b} \/ {a, b} = {PosInf, NegInf} -> NaN
      [] NaN \notin {a, b} /\ (PosInf \in {a, b} \/ a + b > MaxFloat)
            /\ NegInf \notin {a, b} -> PosInf
      [] NaN \notin {a, b} /\ (NegInf \in {a, b} \/ a + b < -MaxFloat)
            /\ PosInf \notin {a, b} -> NegInf
      [] OTHER -> a + b

(* INCRBYFLOAT, and DECRBYFLOAT with the sign changed, take what the sum   *)
(* of floats gives; SETFLOAT stores whatever float it is given.            *)
IncrByFloat(k, x) ==
    IF IsAOrFree(k, "float") THEN Store(k, Value("float", FloatSum(ContentOr(k, 0), x)))
    ELSE Rejected

SetFloat(k, x) == Replace(k, Value("float", x))

-----------------------------------------------------------------------------
(* Hashes.                                                                 *)

(* HSET without entries makes a hash without fields.                       *)
HSet(k, entries) ==
    IF IsAOrFree(k, "hash") THEN Store(k, Value("hash", entries @@ ContentOr(k, EmptyHash)))
    ELSE Rejected

HDel(k, fs) ==
    LET left == DOMAIN db[k][2] \ fs IN
    IF IsA(k, "hash")
    THEN Store(k, IF left = {} THEN NoValue
                 ELSE Value("hash", [f \in left |-> db[k][2][f]]))
    ELSE IF IsA(k, "none") THEN Answer ELSE Rejected

(* The number in a field, 0 when it is missing; results counts the sums    *)
(* that the command accepts.                                               *)
InField(k, f) ==
    LET h == ContentOr(k, EmptyHash) IN IF f \in DOMAIN h THEN NumberIn(h[f]) ELSE {0}

HStoreFirst(k, f, sums) ==
    /\ IsAOrFree(k, "hash")
    /\ db' = [db EXCEPT ![k] = Value("hash", (f :> <<0>>) @@ ContentOr(k, EmptyHash))]
    /\ last' = <<IF sums = {} THEN "err" ELSE "ok", "checks">>

HStore(k, f, sums) ==
    IF ~IsAOrFree(k, "hash") \/ sums = {} THEN Rejected
    ELSE \E n \in sums :
            Store(k, Value("hash", (f :> ToText(n)) @@ ContentOr(k, EmptyHash)))

HIncrBy(k, f, d) ==
    HStore(k, f, IF ~IsAOrFree(k, "hash") THEN {}
                 ELSE UNION {CheckedSum(n, d) : n \in InField(k, f) \cap Ints})

HIncrByFloat(k, f, x) ==
    HStore(k, f, IF ~IsAOrFree(k, "hash") \/ x = NaN THEN {}
                 ELSE {FloatSum(n, x) : n \in InField(k, f)} \cap (-MaxFloat..MaxFloat))

-----------------------------------------------------------------------------
(* Lists: an emptied list stays.  Sets: an emptied set goes.               *)

Push(k, new) ==
    IF IsAOrFree(k, "list") THEN Len(new) <= MaxLen /\ Store(k, Value("list", new))
    ELSE Rejected

LPush(k, t) == Push(k, <<t>> \o (IF IsA(k, "list") THEN db[k][2] ELSE <<>>))
RPush(k, t) == Push(k, (IF IsA(k, "list") THEN db[k][2] ELSE <<>>) \o <<t>>)

Pop(k, Shorter(_)) ==
    IF IsA(k, "list")
    THEN IF db[k][2] = <<>> THEN Answer ELSE Store(k, Value("list", Shorter(db[k][2])))
    ELSE IF IsA(k, "none") THEN Answer ELSE Rejected

LPop(k) == Pop(k, Tail)
RPop(k) == Pop(k, Front)

SAddOne(k, t) ==
    IF IsAOrFree(k, "set") THEN Store(k, Value("set", ContentOr(k, {}) \cup {t})) ELSE Rejected

Without(k, S) ==
    LET left == db[k][2] \ S IN
    Store(k, IF left = {} THEN NoValue ELSE Value("set", left))

SRemOne(k, t) ==
    IF IsA(k, "set") THEN Without(k, {t})
    ELSE IF IsA(k, "none") THEN Answer ELSE Rejected

SPopSome(k, count) ==
    IF IsA(k, "set")
    THEN \E S \in SUBSET db[k][2] :
            /\ Cardinality(S) = Min({IF count <= 0 THEN 1 ELSE count, Cardinality(db[k][2])})
            /\ Without(k, S)
    ELSE IF IsA(k, "none") THEN Answer ELSE Rejected

-----------------------------------------------------------------------------
(* Bitmaps: sequences of bits, in whole bytes.  SETBIT and BITOP take a    *)
(* key of another type for one without a bitmap.                           *)

BitsOf(k) == IF IsA(k, "bitmap") THEN db[k][2] ELSE <<>>
BitAt(b, i) == IF i < Len(b) THEN b[i + 1] ELSE 0

SetBit(k, i, bit) ==
    LET size == Max({Len(BitsOf(k)), (i \div ByteBits + 1) * ByteBits}) IN
    Replace(k, Value("bitmap", [n \in 1..size |-> IF n = i + 1 THEN bit
                                                  ELSE BitAt(BitsOf(k), n - 1)]))

Combine(op, a, b) ==
    LET size == IF op = "AND" THEN Min({Len(a), Len(b)}) ELSE Max({Len(a), Len(b)}) IN
    [n \in 1..size |-> LET x == BitAt(a, n - 1)
                           y == BitAt(b, n - 1) IN
                       CASE op = "AND" -> x * y
                         [] op = "OR" -> IF x + y > 0 THEN 1 ELSE 0
                         [] op = "XOR" -> (x + y) % 2]

BitOp(op, dest, ks) ==
    LET maps == [i \in DOMAIN SelectSeq(ks, LAMBDA k : IsA(k, "bitmap")) |->
                    db[SelectSeq(ks, LAMBDA k : IsA(k, "bitmap"))[i]][2]]
        first == IF maps = <<>> THEN <<>> ELSE maps[1]
    IN CASE op = "NOT" -> Replace(dest, Value("bitmap", [n \in DOMAIN first |-> 1 - first[n]]))
         [] op \in {"AND", "OR", "XOR"} ->
               Replace(dest, Value("bitmap",
                  IF Len(maps) < 2 THEN first
                  ELSE FoldLeft(LAMBDA a, b : Combine(op, a, b), first, Tail(maps))))
         [] OTHER -> Rejected

-----------------------------------------------------------------------------
(* Commands about the server: SHUTDOWN answers with the error that stops   *)
(* it, and this engine cannot SAVE.                                        *)

Ping == Answer
Echo == Answer
Info(section) == IF section \in {"server", "memory", "stats"} THEN Answer ELSE Rejected
Time == Answer \/ Rejected
Select(n) == IF n = 0 THEN Answer ELSE Rejected
Save == Rejected
BgSave == Save
Shutdown == Rejected

(* The commands that are not written yet panic.                            *)
Unimplemented == Panicked

-----------------------------------------------------------------------------
(* CommandRegistry: handlers by name over an array of arguments, the key   *)
(* first.  What an argument is not decoded from panics, as an unknown name *)
(* does, before the engine is called; an error of the engine is answered   *)
(* with no elements.                                                       *)

Undecodable == << <<-1>> >>

ArityOK(name, n) ==
    CASE name \in {"SADD", "SREM"} -> n >= 2
      [] name \in {"SMEMBERS", "SCARD"} -> n = 1
      [] name = "SISMEMBER" -> n = 2
      [] name \in {"SRANDMEMBER", "SPOP"} -> n >= 1

RegistryAdd(k, S) ==
    IF IsAOrFree(k, "set") THEN Store(k, Value("set", ContentOr(k, {}) \cup S)) ELSE Answer
RegistryRemove(k, S) == IF IsA(k, "set") THEN Without(k, S) ELSE Answer
\* One element without a count
RegistryPop(k) == IF IsA(k, "set") THEN \E count \in 1..2 : SPopSome(k, count) ELSE Answer

CallRegistry(name, k, args) ==
    CASE name = "PING" -> Answer
      [] name = "unknown" -> Panicked
      [] name \notin {"PING", "unknown"} /\ args = Undecodable -> Panicked
      [] name \notin {"PING", "unknown"} /\ args # Undecodable ->
            IF ~ArityOK(name, 1 + Len(args)) THEN Rejected
            ELSE CASE name = "SADD" -> RegistryAdd(k, Range(args))
                   [] name = "SREM" -> RegistryRemove(k, Range(args))
                   [] name = "SPOP" -> RegistryPop(k)
                   [] OTHER -> Answer

-----------------------------------------------------------------------------

Commands(k) ==
    \/ DelKey(k) \/ FlushAll \/ LPop(k) \/ RPop(k)
    \/ Unimplemented \/ SetRaw(k) \/ HSet(k, EmptyHash)
    \/ Ping \/ Echo \/ Time \/ Save \/ BgSave \/ Shutdown \/ Select(0) \/ Select(1)
    \/ \E section \in {"server", "memory", "stats", "other"} : Info(section)
    \/ \E name \in {"PING", "SADD", "SREM", "SMEMBERS", "SCARD", "SISMEMBER", "SRANDMEMBER",
                 "SPOP", "unknown"},
          args \in {<<>>, Undecodable} \cup {<<t>> : t \in Texts} : CallRegistry(name, k, args)
    \/ \E t \in Texts :
          \/ SetText(k, t) \/ SetNx(k, t) \/ AppendText(k, t)
          \/ LPush(k, t) \/ RPush(k, t) \/ SAddOne(k, t) \/ SRemOne(k, t)
    \/ \E l \in CmdKeys :
          \/ RenameKey(k, l) \/ RenameFree(k, l)
          \/ \E t, w \in Texts : MSetTexts(k, l, t, w)
          \/ BitOp("NOT", k, <<l>>)
          \/ \E op \in {"AND", "OR", "XOR", "NAND"} : BitOp(op, l, <<k, l>>)
    \/ \E d \in Ints : IncrBy(k, d) \/ DecrBy(k, d)
    \/ \E x \in Floats : IncrByFloat(k, x) \/ SetFloat(k, x)
    \/ \E f \in Fields :
          \/ \E t \in Texts : HSet(k, f :> t)
          \/ \E d \in Ints : HIncrBy(k, f, d)
          \/ \E x \in Floats : HIncrByFloat(k, f, x)
    \/ \E fs \in SUBSET Fields \ {{}} : HDel(k, fs)
    \/ \E t \in Texts : HSet(k, [f \in Fields |-> t])
    \/ \E count \in 0..2 : SPopSome(k, count)
    \/ \E i \in Offsets, bit \in 0..1 : SetBit(k, i, bit)

CommandsNext == \E k \in CmdKeys : Commands(k)

CommandsSpec == CommandsInit /\ [][CommandsNext]_cmdVars

-----------------------------------------------------------------------------
(* The commands that only read: <<"ok", answer>> or Wrong, and NoAnswer    *)
(* where the code answers with the null value.                             *)

Wrong == <<"err">>
Answered(x) == <<"ok", x>>
Panics == <<"panic">>
NoAnswer == <<"null">>

ReadHash(k, Found(_), missing) ==
    CASE IsA(k, "hash") -> Found(db[k][2])
      [] IsA(k, "none") -> missing
      [] OTHER -> Wrong

HGet(k, f) == ReadHash(k, LAMBDA h : IF f \in DOMAIN h THEN Answered(h[f]) ELSE NoAnswer, NoAnswer)
HMGet(k, fs) == ReadHash(k, LAMBDA h : Answered([i \in DOMAIN fs |-> IF fs[i] \in DOMAIN h
                                                           THEN <<h[fs[i]]>> ELSE <<>>]),
                         Answered([i \in DOMAIN fs |-> <<>>]))
HExists(k, f) == ReadHash(k, LAMBDA h : Answered(f \in DOMAIN h), Answered(FALSE))
HLen(k) == ReadHash(k, LAMBDA h : Answered(Cardinality(DOMAIN h)), Answered(0))
HKeys(k) == ReadHash(k, LAMBDA h : Answered(DOMAIN h), Answered({}))
HVals(k) == ReadHash(k, LAMBDA h : Answered([f \in DOMAIN h |-> h[f]]), Answered(EmptyHash))
HGetAll(k) == ReadHash(k, LAMBDA h : Answered(h), NoAnswer)

(* HRANDFIELD: a negative count repeats fields, a positive one does not.   *)
HRandFields(k, count) ==
    LET fs == IF IsA(k, "hash") THEN DOMAIN db[k][2] ELSE {} IN
    IF count < 0 THEN IF fs = {} THEN {<<>>} ELSE [1..(-count) -> fs]
    ELSE {s \in UNION {[1..n -> fs] : n \in 0..MaxLen} :
            IsInjective(s) /\ Len(s) = Min({count, Cardinality(fs)})}

StrLen(k) ==
    IF IsAOrFree(k, "str") THEN Answered(Len(ContentOr(k, <<>>))) ELSE Wrong

Clamp(n, lo, hi) == Min({Max({n, lo}), hi})

IsUtf8(t) ==
    \A i \in DOMAIN t : /\ t[i] = Lead => i < Len(t) /\ t[i + 1] = Trail
                        /\ t[i] = Trail => i > 1 /\ t[i - 1] = Lead

IsCharBoundary(t, i) == i = Len(t) \/ t[i + 1] # Trail

(* The range counts bytes; to cut a character panics.                      *)
GetRange(k, start, end) ==
    IF ~IsAOrFree(k, "str") THEN Wrong ELSE IF IsA(k, "none") THEN NoAnswer
    ELSE LET s == db[k][2]
             from == Clamp(IF start < 0 THEN Len(s) + start ELSE start, 0, Len(s))
             to == Clamp(IF end < 0 THEN Len(s) + end ELSE end, from, Len(s))
         IN CASE ~IsUtf8(s) -> Wrong
              [] IsUtf8(s) /\ ~(IsCharBoundary(s, from) /\ IsCharBoundary(s, to)) -> Panics
              [] OTHER -> Answered(SubSeq(s, from + 1, to))

MGet(ks) ==
    IF \E i \in DOMAIN ks : ~IsAOrFree(ks[i], "str") THEN Wrong
    ELSE Answered([i \in DOMAIN ks |-> ContentOr(ks[i], <<>>)])

DbSize == Cardinality({k \in CmdKeys : ~IsA(k, "none")})

Exists(ks) == Cardinality({i \in DOMAIN ks : ~IsA(ks[i], "none")})

LLen(k) == IF IsAOrFree(k, "list") THEN Answered(Len(ContentOr(k, <<>>))) ELSE Wrong

(* A stop that a cast of -1 would make huge is cut to the last index.      *)
LRange(k, start, stop) ==
    IF ~IsAOrFree(k, "list") THEN Wrong ELSE IF IsA(k, "none") THEN NoAnswer
    ELSE LET s == db[k][2]
             from == IF start < 0 THEN Max({Len(s) + start, 0}) ELSE Min({start, Len(s)})
             cut == IF stop < 0 THEN Max({Len(s) + stop, 0}) ELSE Min({stop, Len(s) - 1})
             last_index == Max({Len(s) - 1, 0})
             to == IF cut < 0 THEN last_index ELSE Min({cut, last_index})
         IN Answered(SubSeq(s, from + 1, Min({to + 1, Len(s)})))

SMembers(k) ==
    IF IsA(k, "set") THEN Answered(db[k][2]) ELSE IF IsA(k, "none") THEN NoAnswer ELSE Wrong
SCard(k) == IF IsAOrFree(k, "set") THEN Answered(Cardinality(ContentOr(k, {}))) ELSE Wrong
SIsMember(k, t) == IF IsAOrFree(k, "set") THEN Answered(t \in ContentOr(k, {})) ELSE Wrong

GetBit(k, i) == BitAt(BitsOf(k), i)

Ones(b, from, to) == Cardinality({i \in from..(to - 1) : BitAt(b, i) = 1})

(* BITCOUNT adds up the first byte, the whole bytes and the last byte.     *)
BitCount(k, start, end) ==
    LET b == BitsOf(k)
        to == Min({end, Len(b)})
        from == Min({start, to})
        first == from \div ByteBits
        final == (to - 1) \div ByteBits
    IN IF from >= to THEN 0
       ELSE IF first = final THEN Ones(b, from, to)
       ELSE Ones(b, from, (first + 1) * ByteBits)
              + Ones(b, (first + 1) * ByteBits, final * ByteBits)
              + Ones(b, final * ByteBits, to)

-----------------------------------------------------------------------------

(* A command that answers with an error or panics has left every key as it *)
(* was: no half of its work is stored.                                     *)
FailureChangesNothing == [][last'[1] # "ok" => UNCHANGED db]_cmdVars

(* No command of one type destroys a value of another: a key changes its   *)
(* type only by a command that replaces values without looking at them     *)
(* (SET, MSET, SETFLOAT, RENAME, RENAMENX, SETBIT, BITOP), or when INCR    *)
(* and its relatives turn a numeric text into an integer.                  *)
TypesKept ==
    [][\A k \in CmdKeys :
          \/ db[k][1] = db'[k][1]
          \/ "none" \in {db[k][1], db'[k][1]}
          \/ last'[2] = "replaces"
          \/ db[k][1] = "str" /\ db'[k][1] = "int"]_cmdVars

Hollow == {k \in CmdKeys : (IsA(k, "hash") /\ DOMAIN db[k][2] = {}) \/ (IsA(k, "set") /\ db[k][2] = {})}

(* Only HSET without entries makes a hash or a set without elements: HDEL, *)
(* SREM and SPOP delete the key with the last one.                         *)
NoEmptyHashOrSet ==
    [][Hollow' # {} => Hollow # {} \/ \E k \in CmdKeys : HSet(k, EmptyHash)]_cmdVars

(* The position of a client's index in a sequence of n, and the elements   *)
(* from one position to another.                                           *)
Place(i, n) == IF i < 0 THEN n + i ELSE i
Between(s, lo, hi) ==
    LET ps == {p \in 0..(Len(s) - 1) : lo <= p /\ p <= hi} IN
    IF ps = {} THEN <<>> ELSE SubSeq(s, Min(ps) + 1, Max(ps) + 1)

(* LRANGE returns the elements from start to stop, both included, and      *)
(* GETRANGE the bytes from start to end, the last not included; a negative *)
(* index counts from the end.  GETRANGE panics exactly where that would    *)
(* break a character, and fails on bytes that are no text.  LRANGE is left *)
(* out where stop lies before the first element: there it returns the      *)
(* first element.                                                          *)
RangesExact ==
    \A k \in CmdKeys : IsA(k, "list") \/ IsA(k, "str") =>
       \A i, j \in -(MaxLen + 1)..(MaxLen + 1) :
       /\ IsA(k, "list") /\ Place(j, Len(db[k][2])) >= 0 =>
             LRange(k, i, j) = Answered(Between(db[k][2], Place(i, Len(db[k][2])),
                                          Place(j, Len(db[k][2]))))
       /\ IsA(k, "str") =>
             LET s == db[k][2]
                 cut == Between(s, Place(i, Len(s)), Place(j, Len(s)) - 1)
             IN  CASE GetRange(k, i, j) = Wrong -> ~IsUtf8(s)
                   [] GetRange(k, i, j) = Panics ->
                         ~IsUtf8(cut) \/ (cut = <<>> /\ Place(i, Len(s)) \in 1..(Len(s) - 1))
                   [] OTHER -> GetRange(k, i, j) = Answered(cut) /\ IsUtf8(cut)

(* BITCOUNT over a range is the number of offsets of the range for which   *)
(* GETBIT returns 1, wherever the range meets the bounds of bytes.         *)
BitCountExact ==
    \A k \in CmdKeys : IsA(k, "bitmap") => \A i, j \in 0..(3 * ByteBits) :
       BitCount(k, i, j) = Cardinality({p \in i..(j - 1) : GetBit(k, p) = 1})

(* Commands that read the same value agree: those for hashes with HGETALL, *)
(* those for sets with SMEMBERS, MGET and STRLEN with GETRANGE, EXISTS and *)
(* LLEN with LRANGE; and they fail on the same keys that have a value.     *)
ReadsAgree ==
    \A k \in CmdKeys : IsA(k, "none") \/
       /\ \/ /\ HLen(k) = Wrong /\ HKeys(k) = Wrong /\ HVals(k) = Wrong
             /\ HGetAll(k) = Wrong
             /\ \A f \in Fields :
                   HGet(k, f) = Wrong /\ HExists(k, f) = Wrong /\ HMGet(k, <<f>>) = Wrong
          \/ /\ HGetAll(k) # Wrong
             /\ LET h == IF HGetAll(k) = NoAnswer THEN EmptyHash ELSE HGetAll(k)[2] IN
                /\ HKeys(k) = Answered(DOMAIN h) /\ HVals(k) = Answered(h)
                /\ HLen(k) = Answered(Cardinality(DOMAIN h))
                /\ \A f \in Fields :
                      /\ HExists(k, f) = Answered(f \in DOMAIN h)
                      /\ (HGet(k, f) = NoAnswer) = (f \notin DOMAIN h)
                      /\ HMGet(k, <<f>>) = Answered(<<IF HGet(k, f) = NoAnswer THEN <<>>
                                                ELSE <<HGet(k, f)[2]>> >>)
                /\ \A n \in -2..2 : \A s \in HRandFields(k, n) :
                      \A i \in DOMAIN s : HExists(k, s[i]) = Answered(TRUE)
       /\ SMembers(k) = Wrong <=> SCard(k) = Wrong
       /\ SCard(k) # Wrong => SCard(k)[2] = Cardinality({t \in Texts : SIsMember(k, t) = Answered(TRUE)})
       /\ MGet(<<k>>) = Wrong <=> StrLen(k) = Wrong
       /\ StrLen(k) # Wrong => StrLen(k)[2] = Len(MGet(<<k>>)[2][1])
       /\ LLen(k) = Wrong <=> LRange(k, 0, -1) = Wrong
       /\ LRange(k, 0, -1) # Wrong /\ LRange(k, 0, -1) # NoAnswer => LLen(k) = Answered(Len(LRange(k, 0, -1)[2]))
       /\ Exists(<<k>>) = 0 <=> IsA(k, "none")
       /\ DbSize = Exists(SetToSeq(CmdKeys))

(***************************************************************************)
(* Commands on values, in any order: one that fails changes nothing, none  *)
(* destroys a value of another type unless it says so, no hash or set is   *)
(* left empty by a removal, and reads of one value agree with each other   *)
(* (src/command).                                                          *)
(***************************************************************************)
CommandsSound ==
    /\ FailureChangesNothing /\ TypesKept /\ NoEmptyHashOrSet
    /\ [](CommandsTypeOK /\ RangesExact /\ BitCountExact /\ ReadsAgree)
=============================================================================
