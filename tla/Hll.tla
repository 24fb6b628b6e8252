-------------------------------- MODULE Hll --------------------------------
(***************************************************************************)
(* HyperLogLog (src/src/database/hll): registers in a sparse map up to a   *)
(* threshold, then packed RegisterBits wide into an array of bytes, where  *)
(* a register may lie in two bytes.  An element is its hash, a number of   *)
(* HashBits; the estimate is left at the two numbers it is computed from,  *)
(* the zero registers and the sum of the inverse powers of two.            *)
(***************************************************************************)
EXTENDS Integers, Sequences, FiniteSets, SequencesExt, FiniteSetsExt

CONSTANTS
    Sketches,       \* the HLLs
    Hashes,         \* hashes of the elements added
    HashBits,       \* 64 in the code
    Precision,      \* P
    RegisterBits,   \* REGISTER_BITS: 6 in the code
    DenseByte,      \* bits of a byte: 8 in the code
    Thresholds      \* with_threshold

ASSUME HllAssumption ==
    /\ HashBits > Precision /\ HashBits - Precision + 1 < 2^RegisterBits
    /\ RegisterBits <= DenseByte

VARIABLES
    hll,            \* sketch -> its encoding
    added           \* sketch -> hashes added to it, or to one merged into it

hllVars == <<hll, added>>

NumRegisters == 2^Precision
Indexes == 0..(NumRegisters - 1)
DenseSize == (NumRegisters * RegisterBits) \div DenseByte

\* index_and_rho: the top bits, and the place of the first one in the others
IndexOf(h) == h \div 2^(HashBits - Precision)

Rho(h) ==
    LET w == (h * 2^Precision) % 2^HashBits
        zeros == IF w = 0 THEN HashBits ELSE HashBits - 1 - Max({b \in 0..(HashBits - 1) : 2^b <= w})
    IN  Min({zeros + 1, HashBits - Precision + 1})

--------------------------------------------------------------------------------
(* HllDense: `data`, the bytes from 0                                      *)

DenseGet(data, i) ==
    LET at == (i * RegisterBits) \div DenseByte
        offset == (i * RegisterBits) % DenseByte
        second == IF at + 1 \in DOMAIN data THEN data[at + 1] ELSE 0
    IN  ((data[at] + second * 2^DenseByte) \div 2^offset) % 2^RegisterBits

\* Mutant of DenseSet: writes the first of the two bytes only.
DenseSetOneByte(data, i, value) ==
    LET at == (i * RegisterBits) \div DenseByte
        offset == (i * RegisterBits) % DenseByte
        both == data[at] + (value - DenseGet(data, i)) * 2^offset
    IN  [data EXCEPT ![at] = both % 2^DenseByte]

DenseSet(data, i, value) ==
    LET at == (i * RegisterBits) \div DenseByte
        offset == (i * RegisterBits) % DenseByte
        second == IF at + 1 \in DOMAIN data THEN data[at + 1] ELSE 0
        both == data[at] + second * 2^DenseByte
        cleared == both - ((both \div 2^offset) % 2^RegisterBits) * 2^offset
        new == cleared + (value % 2^RegisterBits) * 2^offset
    IN  [j \in DOMAIN data |-> CASE j = at     -> new % 2^DenseByte
                                 [] j = at + 1 -> new \div 2^DenseByte
                                 [] OTHER      -> data[j]]

\* set_register of each of a map's registers, where `update` tells
DenseSetAll(data, regs, update(_, _)) ==
    FoldSet(LAMBDA i, d: IF update(DenseGet(d, i), regs[i]) THEN DenseSet(d, i, regs[i]) ELSE d,
            data, DOMAIN regs)

Always(old, new) == TRUE
Larger(old, new) == new > old

--------------------------------------------------------------------------------
(* HllSparse: `regs`, the registers that are not zero                      *)

SparseGet(regs, i) == IF i \in DOMAIN regs THEN regs[i] ELSE 0

SparseSet(regs, i, value) ==
    IF value = 0 \/ SparseGet(regs, i) >= value THEN regs
    ELSE [j \in DOMAIN regs \cup {i} |-> IF j = i THEN value ELSE regs[j]]

--------------------------------------------------------------------------------
(* Hll                                                                     *)

Dense(data) == [sparse |-> FALSE, data |-> data]

\* convert_to_dense
ToDense(s) == Dense(DenseSetAll([j \in 0..(DenseSize - 1) |-> 0], s.regs, Always))

\* A sparse encoding, converted if it should be (should_convert_to_dense)
Settled(s) == IF Cardinality(DOMAIN s.regs) > s.threshold THEN ToDense(s) ELSE s

Register(s, i) == IF s.sparse THEN SparseGet(s.regs, i) ELSE DenseGet(s.data, i)

HllInit ==
    /\ hll \in [Sketches -> {[sparse |-> TRUE, regs |-> [i \in {} |-> 0], threshold |-> t] :
                                t \in Thresholds}]
    /\ added = [n \in Sketches |-> {}]

HllAdd(n, h) ==
    LET s == hll[n]
        i == IndexOf(h)
    IN  /\ hll' = [hll EXCEPT ![n] =
                IF Rho(h) <= Register(s, i) THEN s
                ELSE IF s.sparse THEN Settled([s EXCEPT !.regs = SparseSet(@, i, Rho(h))])
                ELSE Dense(DenseSet(s.data, i, Rho(h)))]
        /\ added' = [added EXCEPT ![n] = @ \cup {h}]

\* merge of t into s
Merged(s, t) ==
    IF s.sparse /\ t.sparse
    THEN Settled([s EXCEPT !.regs = FoldSet(LAMBDA i, r: SparseSet(r, i, t.regs[i]), @, DOMAIN t.regs)])
    ELSE LET d == IF s.sparse THEN ToDense(s) ELSE s
         IN  Dense(IF t.sparse THEN DenseSetAll(d.data, t.regs, Larger)
                   ELSE DenseSetAll(d.data, [i \in Indexes |-> DenseGet(t.data, i)], Larger))

HllMerge(n, m) ==
    /\ n # m
    /\ hll' = [hll EXCEPT ![n] = Merged(@, hll[m])]
    /\ added' = [added EXCEPT ![n] = @ \cup added[m]]

\* convert_to_dense, which a caller may ask for too
HllConvert(n) ==
    /\ hll[n].sparse
    /\ hll' = [hll EXCEPT ![n] = ToDense(@)]
    /\ UNCHANGED added

HllNext ==
    \/ \E n \in Sketches : HllConvert(n)
    \/ \E n \in Sketches, h \in Hashes : HllAdd(n, h)
    \/ \E n, m \in Sketches : HllMerge(n, m)

\* estimate_cardinality: the zero registers, counted by count_zeros if sparse
Zeros(s) ==
    IF s.sparse THEN NumRegisters - Cardinality(DOMAIN s.regs)
    ELSE Cardinality({i \in Indexes : DenseGet(s.data, i) = 0})

\* ... and the sum of 1 / 2^register, times 2^(2^RegisterBits)
PowerSum(s) ==
    LET scaled(v) == 2^(2^RegisterBits - v)
    IN  IF s.sparse
        THEN FoldSet(LAMBDA i, a: a + scaled(s.regs[i]), Zeros(s) * scaled(0), DOMAIN s.regs)
        ELSE FoldSet(LAMBDA i, a: a + scaled(DenseGet(s.data, i)), 0, Indexes)

--------------------------------------------------------------------------------
(***************************************************************************)
(* In whatever order elements are added and sketches merged, and wherever  *)
(* the sketch turned dense, a register holds the largest rho of all the    *)
(* elements of its index, so a merge counts what adding all of them would. *)
(***************************************************************************)
RegistersExact ==
    \A n \in Sketches, i \in Indexes :
        Register(hll[n], i) = Max({0} \cup {Rho(h) : h \in {x \in added[n] : IndexOf(x) = i}})

(***************************************************************************)
(* The estimate starts from the same numbers in both forms: the sparse one *)
(* never holds a zero register (count_zeros takes the rest for zeros).     *)
(***************************************************************************)
EstimateExact ==
    \A n \in Sketches :
        LET used == {IndexOf(h) : h \in added[n]}
            largest(i) == Max({Rho(h) : h \in {x \in added[n] : IndexOf(x) = i}})
        IN  /\ Zeros(hll[n]) = NumRegisters - Cardinality(used)
            /\ PowerSum(hll[n]) = FoldSet(LAMBDA i, a: a + 2^(2^RegisterBits - largest(i)),
                                          (NumRegisters - Cardinality(used)) * 2^(2^RegisterBits), used)

(***************************************************************************)
(* A sparse sketch never outgrows its threshold, after a merge of two      *)
(* sparse ones either, and a dense one never turns back.                   *)
(***************************************************************************)
DenseStays ==
    [][\A n \in Sketches : hll[n]'.sparse =>
            hll[n].sparse /\ Cardinality(DOMAIN hll[n]'.regs) <= hll[n]'.threshold]_hllVars

(***************************************************************************)
(* A sketch says of the elements it was given the same in both of its forms, *)
(* and it changes from the sparse form to the dense one once.              *)
(***************************************************************************)
HllExact == [](RegistersExact /\ EstimateExact) /\ DenseStays
=============================================================================
