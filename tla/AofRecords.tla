----------------------------- MODULE AofRecords -----------------------------
(***************************************************************************)
(* The records of the append-only file (AOF) and the in-memory side of     *)
(* AofLog (src/src/engine/aof.rs): what an append does to the BufWriter    *)
(* and to the file under each SyncPolicy, and what replay computes.        *)
(*                                                                         *)
(* A record is what append_set / append_del write: a key and the value it  *)
(* is set to, or None for DEL.  Byte layout and checksums are the subject  *)
(* of module AofReplay.                                                    *)
(***************************************************************************)
EXTENDS Naturals, Sequences

CONSTANTS
    Keys,       \* the keys
    Policy,     \* SyncPolicy: "Always", "EverySec" or "No"
    BatchSize   \* batch_size: AofLog::INITIAL_BATCH, 32 in the code

ASSUME BatchSizeAssumption == BatchSize \in Nat \ {0}

ASSUME PolicyAssumption == Policy \in {"Always", "EverySec", "No"}

-----------------------------------------------------------------------------
(***************************************************************************)
(* A value is its type and its contents, so that all values are comparable *)
(* with each other and with None, the absence of a value.                  *)
(***************************************************************************)
None == [t |-> "none", s |-> {}]

SetRec(k, v) == [key |-> k, val |-> v]

DelRec(k) == [key |-> k, val |-> None]

(***************************************************************************)
(* Replaying a sequence of records: every key ends up with what the last   *)
(* record about it says.                                                   *)
(***************************************************************************)
About(recs, k) == {i \in DOMAIN recs : recs[i].key = k}

Latest(I) == CHOOSE i \in I : \A j \in I : j <= i

Replay(recs) ==
    [k \in Keys |-> IF About(recs, k) = {} THEN None
                    ELSE recs[Latest(About(recs, k))].val]

-----------------------------------------------------------------------------
(***************************************************************************)
(* The log in a running process: the records the operating system has      *)
(* (file), those still in the BufWriter (buf), and pending_ops.            *)
(***************************************************************************)
NewLog(recs) == [file |-> recs, buf |-> <<>>, pending |-> 0]

Logged(l) == l.file \o l.buf

\* BufWriter::flush.  It does not touch pending_ops.
Flushed(l) == [file |-> Logged(l), buf |-> <<>>, pending |-> l.pending]

\* Putting a record into the BufWriter; a full one is written out first.
\* p is what pending_ops becomes.
Buffered(l, r, p) ==
    {[file |-> x.file, buf |-> Append(x.buf, r), pending |-> p] : x \in {l, Flushed(l)}}

\* Mutant of Appended: flushes one record too late.
AppendedLate(l, r) ==
    IF Policy # "Always" THEN Buffered(l, r, l.pending)
    ELSE IF l.pending + 1 <= BatchSize THEN Buffered(l, r, l.pending + 1)
    ELSE {Flushed(x) : x \in Buffered(l, r, 0)}

(***************************************************************************)
(* append_set / append_del that succeed: the results the log may have.     *)
(* With Always the buffer is flushed when BatchSize operations are pending.*)
(* adjust_batch_size never changes the threshold: last_activity has just   *)
(* been set when it looks whether five seconds have passed since.          *)
(***************************************************************************)
Appended(l, r) ==
    IF Policy # "Always" THEN Buffered(l, r, l.pending)
    ELSE IF l.pending + 1 < BatchSize THEN Buffered(l, r, l.pending + 1)
    ELSE {Flushed(x) : x \in Buffered(l, r, 0)}

(***************************************************************************)
(* Writing the BufWriter out, up to where it fails: what has reached the   *)
(* file is no longer in the buffer.                                        *)
(***************************************************************************)
PartFlushed(l) ==
    {[file |-> l.file \o SubSeq(l.buf, 1, n), buf |-> SubSeq(l.buf, n + 1, Len(l.buf)),
      pending |-> l.pending] : n \in 0 .. Len(l.buf)}

(***************************************************************************)
(* append_set / append_del that fail: either the record was not written,   *)
(* for a full buffer could not be written out, or it was and the flush     *)
(* failed.  Of a record that was not written its first fields may be in    *)
(* the buffer, before the next record: no record, and what replay makes of *)
(* it is the damage "tear" of module AofReplay.                            *)
(***************************************************************************)
AppendFailed(l, r) ==
    PartFlushed(l) \cup
    IF Policy = "Always" /\ l.pending + 1 >= BatchSize
    THEN UNION {PartFlushed(x) : x \in Buffered(l, r, l.pending + 1)}
    ELSE {}
=============================================================================
