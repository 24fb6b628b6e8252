------------------------------ MODULE AofReplay ------------------------------
(***************************************************************************)
(* Reading an append-only file back: AofLog::replay (src/src/engine/aof.rs)*)
(* and AofValidator (src/src/engine/aof_integrity.rs), on a file that may  *)
(* have lost its tail in a crash, hold a record that was not written whole *)
(* before the next one (a failed append, or a torn tail that was appended  *)
(* to) or have one damaged cell.                                           *)
(*                                                                         *)
(* A file is its header and a sequence of cells.  A cell stands for one    *)
(* byte of data or for one four-byte field (length, checksum).  Checksums  *)
(* are ideal: the cell holds what was summed, so that no other data has    *)
(* the same checksum, and data cells are no checksums.                     *)
(***************************************************************************)
EXTENDS Naturals, Sequences, SequencesExt, FiniteSetsExt

CONSTANTS
    RecSet,      \* the records that are appended
    Bytes,       \* contents of cells
    CrcByte,     \* what a checksum looks like when read as something else
    Headers,     \* headers of the files: "AOF1", "AOF2"
    Policies,    \* CorruptionPolicy: "Strict", "Skip", "Log"
    Damages,     \* kinds of damage: "none", "cut", "tear", "flip"
    MaxOld,      \* bound: records written in the format of the header
    MaxNew       \* bound: records appended after open()

VARIABLES
    hdr,      \* header of the file
    stored,   \* what was appended, in order
    damage,   \* what happened to the file: kind, place
    cells,    \* the file after its header
    policy,   \* corruption_policy
    pos,      \* how many cells are consumed
    out,      \* records passed to the callback
    stats,    \* IntegrityStats
    status    \* "run", "ok" or "err"

fileVars == <<hdr, stored, damage, cells, policy>>
replayVars == <<fileVars, pos, out, stats, status>>

SET == 1
DEL == 2

\* The smallest record: op, checksum and key length (nine bytes).
MinRec == 3

Byte(b) == [v |-> b, sum |-> <<>>]
Contents(d) == [i \in DOMAIN d |-> d[i].v]

Payload(r) ==
    <<Len(r.key)>> \o r.key \o (IF r.op = SET THEN <<Len(r.val)>> \o r.val ELSE <<>>)

\* append_set and append_del write op, checksum and payload; AOF1 has no checksum.
Encode(format, r) ==
    LET data == [i \in DOMAIN Payload(r) |-> Byte(Payload(r)[i])]
        crc == IF format = "AOF2" THEN <<[v |-> CrcByte, sum |-> Payload(r)]>> ELSE <<>>
    IN  <<Byte(r.op)>> \o crc \o data

-----------------------------------------------------------------------------
(***************************************************************************)
(* AOF2: the extent of a record, its validation and the search for the     *)
(* next one.  Positions count the cells before a place, as in the code.    *)
(***************************************************************************)
RecordEnd(b, start) ==
    LET n == Len(b)
        keyEnd == start + MinRec + b[start + MinRec].v
        valEnd == keyEnd + 1 + b[keyEnd + 1].v
    IN  IF start + MinRec > n \/ keyEnd > n THEN n
        ELSE IF b[start + 1].v # SET THEN keyEnd
        ELSE IF keyEnd + 1 > n \/ valEnd > n THEN n ELSE valEnd

ValidateRecord(d) ==
    LET payload == SubSeq(d, MinRec, Len(d))
        afterKey == 1 + payload[1].v
        total == afterKey + 1 + payload[afterKey + 1].v
    IN  IF Len(d) < MinRec THEN "truncated"
        ELSE IF d[1].v \notin {SET, DEL} THEN "unknown_op"
        ELSE IF Len(payload) < afterKey THEN "truncated"
        ELSE IF d[1].v = SET /\ (Len(payload) < afterKey + 1 \/ Len(payload) < total)
        THEN "truncated"
        ELSE IF d[2].sum # Contents(payload) THEN "corrupted"
        ELSE "valid"

\* The record whose payload starts at place p of d.
ParseRecord(d, p) ==
    LET c == Contents(d)
        keyEnd == p + c[p]
    IN  [op |-> c[1], key |-> SubSeq(c, p + 1, keyEnd),
         val |-> IF c[1] = SET THEN SubSeq(c, keyEnd + 2, keyEnd + 1 + c[keyEnd + 1])
                 ELSE <<>>]

\* Mutant of Candidates: off by one at the end of the file.
CandidatesShort(b, start) ==
    {p \in start + 1 .. Len(b) - 1 : b[p + 1].v \in {SET, DEL} /\ p + MinRec < Len(b)}

Candidates(b, start) ==
    {p \in start + 1 .. Len(b) - 1 : b[p + 1].v \in {SET, DEL} /\ p + MinRec <= Len(b)}

(***************************************************************************)
(* AOF1: a record is parsed as it is read, and an error leaves the         *)
(* position where the reading stopped.                                     *)
(***************************************************************************)
Aof1Stop(b, start) ==
    LET n == Len(b)
        keyEnd == start + 2 + b[start + 2].v
        valEnd == keyEnd + 1 + b[keyEnd + 1].v
    IN  IF b[start + 1].v \notin {SET, DEL} THEN [ok |-> FALSE, at |-> start]
        ELSE IF start + 2 > n THEN [ok |-> FALSE, at |-> start + 1]
        ELSE IF keyEnd > n THEN [ok |-> FALSE, at |-> start + 2]
        ELSE IF b[start + 1].v = DEL THEN [ok |-> TRUE, at |-> keyEnd]
        ELSE IF keyEnd + 1 > n THEN [ok |-> FALSE, at |-> keyEnd]
        ELSE IF valEnd > n THEN [ok |-> FALSE, at |-> keyEnd + 1]
        ELSE [ok |-> TRUE, at |-> valEnd]

\* What reading the record at start gives: its end or where it failed, and
\* the validator's verdict (AOF1 is not validated).
ReadAt(b, start) ==
    IF hdr = "AOF1"
    THEN LET r == Aof1Stop(b, start)
         IN  [ok |-> r.ok, at |-> r.at, verdict |-> "none",
              rec |-> IF r.ok THEN <<ParseRecord(SubSeq(b, start + 1, r.at), 2)>> ELSE <<>>]
    ELSE LET end == RecordEnd(b, start)
             d == SubSeq(b, start + 1, end)
             verdict == ValidateRecord(d)
         IN  [ok |-> verdict = "valid", at |-> IF verdict = "valid" THEN end ELSE start,
              verdict |-> verdict,
              rec |-> IF verdict = "valid" THEN <<ParseRecord(d, MinRec)>> ELSE <<>>]

-----------------------------------------------------------------------------
NoStats == [valid |-> 0, corrupted |-> 0, truncated |-> 0, unknown_op |-> 0, skipped |-> 0]

Written(old, new) ==
    FlattenSeq([i \in DOMAIN old |-> Encode(hdr, old[i])])
        \o FlattenSeq([i \in DOMAIN new |-> Encode("AOF2", new[i])])

\* The file after the damage: a lost tail, a record that lost its own, or one
\* cell with another content.
Cut(c) == {[kind |-> "cut", at |-> i, file |-> SubSeq(c, 1, i - 1)] : i \in DOMAIN c}
Flip(c) ==
    {[kind |-> "flip", at |-> i, file |-> [c EXCEPT ![i] = Byte(b)]] :
        i \in DOMAIN c, b \in Bytes}

(***************************************************************************)
(* A record that lost its tail before the next one.  Left out is the tail  *)
(* that the beginning of the next record happens to make up for (a value   *)
(* that ends in byte 1, torn before it, and a SET after it): it reads as   *)
(* whole and costs the next record its first cells.                        *)
(***************************************************************************)
Tear(recs) ==
    UNION {LET before == Written(SubSeq(recs, 1, i - 1), <<>>)
               rec == Encode(hdr, recs[i])
               after == Written(SubSeq(recs, i + 1, Len(recs)), <<>>)
           IN  {[kind |-> "tear", at |-> Len(before) + j,
                 file |-> before \o SubSeq(rec, 1, j - 1) \o after] :
                j \in {n \in 2 .. Len(rec) :
                    ~ IsPrefix(Contents(SubSeq(rec, n, Len(rec))), Contents(after))}} :
           i \in DOMAIN recs}

Damage(c) ==
    {d \in {[kind |-> "none", at |-> 1, file |-> c]} \cup Cut(c) \cup Flip(c) \cup Tear(stored) :
        d.kind \in Damages /\ (d.kind # "none" => d.file # c)}

ReplayInit ==
    /\ hdr \in Headers
    /\ policy \in Policies
    /\ \E old \in BoundedSeq(RecSet, MaxOld), new \in BoundedSeq(RecSet, MaxNew) :
          /\ stored = old \o new
          /\ \E d \in Damage(Written(old, new)) :
                damage = [kind |-> d.kind, at |-> d.at] /\ cells = d.file
    /\ pos = 0
    /\ out = <<>>
    /\ stats = NoStats
    /\ status = "run"

\* The validator counts every record it looks at.
Counted(s, verdict) == IF verdict = "none" THEN s ELSE [s EXCEPT ![verdict] = @ + 1]

ReplayRecord ==
    /\ status = "run" /\ pos < Len(cells)
    /\ LET r == ReadAt(cells, pos)
       IN  /\ r.ok
           /\ out' = out \o r.rec
           /\ pos' = r.at
           /\ stats' = Counted(stats, r.verdict)
    /\ UNCHANGED <<fileVars, status>>

\* Mutant of SkipRecord: does not leave the loop when nothing more is found.
SkipRecordNoBreak ==
    /\ status = "run" /\ pos < Len(cells)
    /\ policy \in {"Skip", "Log"}
    /\ LET r == ReadAt(cells, pos)
           next == Candidates(cells, r.at)
       IN  /\ ~ r.ok
           /\ pos' = IF next = {} THEN pos ELSE Min(next)
           /\ stats' = [Counted(stats, r.verdict) EXCEPT !.skipped = @ + 1]
    /\ UNCHANGED <<fileVars, out, status>>

\* A bad record with Skip or Log: on to the next place that may be a record.
SkipRecord ==
    /\ status = "run" /\ pos < Len(cells)
    /\ policy \in {"Skip", "Log"}
    /\ LET r == ReadAt(cells, pos)
           next == Candidates(cells, r.at)
       IN  /\ ~ r.ok
           /\ stats' = [Counted(stats, r.verdict) EXCEPT !.skipped = @ + 1]
           /\ IF next = {} THEN status' = "ok" /\ pos' = r.at
              ELSE pos' = Min(next) /\ UNCHANGED status
    /\ UNCHANGED <<fileVars, out>>

Fail ==
    /\ status = "run" /\ pos < Len(cells)
    /\ policy = "Strict"
    /\ LET r == ReadAt(cells, pos)
       IN  ~ r.ok /\ stats' = Counted(stats, r.verdict)
    /\ status' = "err"
    /\ UNCHANGED <<fileVars, pos, out>>

EndOfFile ==
    /\ status = "run" /\ pos >= Len(cells)
    /\ status' = "ok"
    /\ UNCHANGED <<fileVars, pos, out, stats>>

ReplayNext == ReplayRecord \/ SkipRecord \/ Fail \/ EndOfFile

ReplaySpec == ReplayInit /\ [][ReplayNext]_replayVars

-----------------------------------------------------------------------------
\* The replay stays within the file, and counts no more than there is.
ReplayTypeOK ==
    /\ status \in {"run", "ok", "err"}
    /\ pos \in 0 .. Len(cells)
    /\ stats \in [DOMAIN NoStats -> 0 .. Len(cells)]
    /\ \A i \in DOMAIN out : DOMAIN out[i] = {"op", "key", "val"}

\* Where record i of stored starts in the undamaged file, and the records that
\* the damage left whole.
StartOf(i) == 1 +
    FoldSeq(LAMBDA r, n : n + Len(Encode(hdr, r)), 0, SubSeq(stored, 1, i - 1))

Whole(i) ==
    LET first == StartOf(i)
        last == StartOf(i + 1) - 1
    IN  \/ damage.kind = "none"
        \/ damage.kind = "cut" /\ last < damage.at
        \/ damage.kind \in {"flip", "tear"} /\ damage.at \notin first .. last

Intact == SelectSeq([i \in DOMAIN stored |-> i], Whole)

\* A record is torn or damaged (a file cut between two records is whole).
SomeDamaged ==
    \E i \in DOMAIN stored : ~ Whole(i) /\ (damage.kind # "cut" \/ StartOf(i) < damage.at)

BeforeDamage ==
    SubSeq(stored, 1, Max({0} \cup {n \in DOMAIN stored : \A i \in 1 .. n : Whole(i)}))

(***************************************************************************)
(* Whatever the format and the policy, damage never reaches backwards: the *)
(* records written before it are replayed first, in their order.           *)
(***************************************************************************)
EarlierIsReplayed == status # "run" => IsPrefix(BeforeDamage, out)

(***************************************************************************)
(* With Skip and Log a lost tail or a damaged cell costs the record it is  *)
(* in and no other: the search for the next record (find_next_valid_record)*)
(* finds every later one, and nothing that was never appended is replayed. *)
(***************************************************************************)
OnlyDamagedIsLost ==
    (hdr = "AOF2" /\ status = "ok" /\ policy # "Strict") =>
        out = [i \in DOMAIN Intact |-> stored[Intact[i]]]

(***************************************************************************)
(* With Strict the replay stops at the first damaged record with an error, *)
(* with exactly what precedes it replayed, and reports success only for a  *)
(* file in which no record is damaged.                                     *)
(***************************************************************************)
StrictStopsAtDamage ==
    (hdr = "AOF2" /\ policy = "Strict") =>
        /\ status = "ok" => ~ SomeDamaged
        /\ status = "err" => SomeDamaged
        /\ status # "run" => out = BeforeDamage

(***************************************************************************)
(* replay_skipped is what an operator sees of a damaged file: it is        *)
(* counted exactly when a record was lost.                                 *)
(***************************************************************************)
SkippedIffDamaged ==
    (hdr = "AOF2" /\ status = "ok") => (stats.skipped > 0 <=> SomeDamaged)

(***************************************************************************)
(* What a replay makes of a file, whole or damaged in one place: what      *)
(* precedes the damage is always replayed; with Skip and Log exactly the   *)
(* records that the damage left whole are; with Strict it stops there; and *)
(* the counters tell (aof.rs, replay_inner).                               *)
(***************************************************************************)
ReplayExact ==
    /\ ReplayTypeOK
    /\ EarlierIsReplayed /\ OnlyDamagedIsLost /\ StrictStopsAtDamage /\ SkippedIffDamaged

(***************************************************************************)
(* The replay loop ends on every file: it never waits, and each round gets *)
(* further into the file or ends the loop, the resynchronisation included. *)
(***************************************************************************)
ReplayEnds ==
    /\ [](status = "run" => ENABLED ReplayNext)
    /\ [][pos' > pos \/ status' # "run"]_replayVars

(***************************************************************************)
(* A file without damage that open() accepts is replayed in full (open's   *)
(* "backward compat AOF1").                                                *)
(***************************************************************************)
WholeFileReplayed == (status # "run" /\ damage.kind = "none") => out = stored
=============================================================================
