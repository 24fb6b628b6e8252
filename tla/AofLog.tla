------------------------------- MODULE AofLog -------------------------------
(***************************************************************************)
(* The life of an append-only file: AofLog (src/src/engine/aof.rs) opened, *)
(* appended to, crashed, replayed, verified, rewritten and repaired, with  *)
(* torn tails and decayed records.                                         *)
(*                                                                         *)
(* The file is a sequence of records; bad says which of them are damaged   *)
(* and how: "torn" (cut in a crash), "sum" (checksum or payload changed)   *)
(* or "op" (operation byte changed).  That a replay passes over damaged    *)
(* records and finds all the others is the subject of module AofReplay.    *)
(***************************************************************************)
EXTENDS AofRecords, SequencesExt, FiniteSetsExt

CONSTANTS
    LogValues,  \* values a key is set to
    MaxLogRecs, \* bound: records in the file and the buffer
    MaxBad,     \* bound: damaged records
    Decays      \* kinds of decay of a stored record: subset of {"sum", "op"}

ASSUME LogAssumption == IsFiniteSet(Keys) /\ Decays \subseteq {"sum", "op"}

VARIABLES
    opened,   \* the log is open
    writer,   \* file, buffer and pending_ops, as in AofRecords
    bad,      \* damaged records of the file: place -> kind
    flagged,  \* the open log's validator has counted corrupted or truncated records
    kept,     \* history: the state given by the records that reached the file whole
    lost,     \* history: keys whose last record reached only a file that a repair replaced
    report    \* the call that has just ended, if a repair: its mode, its report, what it did

aofVars == <<opened, writer, bad, flagged, kept, lost, report>>

NoReport == [mode |-> "none", modified |-> FALSE, changed |-> FALSE, failed |-> FALSE]

(***************************************************************************)
(* What replay computes from a file some of whose places are damaged: its  *)
(* callback sees the other records, in order.                              *)
(***************************************************************************)
ReadBack(recs, damaged) ==
    [k \in Keys |-> LET seen == About(recs, k) \ damaged
                    IN  IF seen = {} THEN None ELSE recs[Latest(seen)].val]

(***************************************************************************)
(* What reading the file does to flagged: damaged payloads and cut records *)
(* are counted.  A changed operation byte is counted as unknown_op; the    *)
(* search for the next record may or may not stumble over its payload.     *)
(***************************************************************************)
Scanned(mode, before) ==
    LET first == IF DOMAIN bad = {} THEN {} ELSE {Min(DOMAIN bad)}
        seen == {bad[i] : i \in IF mode = "Strict" THEN first ELSE DOMAIN bad}
    IN  IF seen \subseteq {"op"}
        THEN {before} \cup {TRUE : x \in IF mode = "Strict" THEN {} ELSE seen}
        ELSE {TRUE}

LogInit ==
    /\ opened = FALSE
    /\ writer = NewLog(<<>>)
    /\ bad = <<>>
    /\ flagged = FALSE
    /\ kept = Replay(<<>>)
    /\ lost = {}
    /\ report = NoReport

OpenLog ==
    /\ ~ opened
    /\ opened' = TRUE
    /\ report' = NoReport
    /\ UNCHANGED <<writer, bad, flagged, kept, lost>>

\* The state m after more records.
Then(m, recs) == [k \in Keys |-> IF About(recs, k) = {} THEN m[k] ELSE Replay(recs)[k]]

\* The records that a step moved from the buffer to the file.
Reached(l) == SubSeq(l.file, Len(writer.file) + 1, Len(l.file))

\* The keys that records are about.
Named(recs) == {k \in Keys : About(recs, k) # {}}

\* History: recs reach the end of the file.
Reach(recs) == kept' = Then(kept, recs) /\ lost' = lost \ Named(recs)

AppendOne(r) ==
    /\ opened
    /\ Len(Logged(writer)) < MaxLogRecs
    /\ writer' \in Appended(writer, r)
    /\ Reach(Reached(writer'))
    /\ report' = NoReport
    /\ UNCHANGED <<opened, bad, flagged>>

AppendSet == \E k \in Keys, v \in LogValues : AppendOne(SetRec(k, v))
AppendDel == \E k \in Keys : AppendOne(DelRec(k))

\* The flusher thread of EverySec.
FlusherTick ==
    /\ opened /\ Policy = "EverySec"
    /\ writer' = Flushed(writer)
    /\ Reach(writer.buf)
    /\ report' = NoReport
    /\ UNCHANGED <<opened, bad, flagged>>

\* Dropping the log drops its BufWriter, which writes itself out.
Close ==
    /\ opened
    /\ opened' = FALSE
    /\ writer' = NewLog(Logged(writer))
    /\ Reach(writer.buf)
    /\ flagged' = FALSE
    /\ report' = NoReport
    /\ UNCHANGED bad

(***************************************************************************)
(* A crash: part of the buffer may just have been written, its last record *)
(* perhaps not completely.  open() does not cut a torn tail off.           *)
(***************************************************************************)
LogCrash ==
    /\ opened
    /\ opened' = FALSE
    /\ \E n \in 0 .. Len(writer.buf) : \E torn \in BOOLEAN :
          LET recs == writer.file \o SubSeq(writer.buf, 1, n)
          IN  /\ torn => n > 0 /\ Cardinality(DOMAIN bad) < MaxBad
              /\ writer' = NewLog(recs)
              /\ bad' = [i \in DOMAIN bad \cup (IF torn THEN {Len(recs)} ELSE {}) |->
                            IF i \in DOMAIN bad THEN bad[i] ELSE "torn"]
              /\ Reach(SubSeq(writer.buf, 1, IF torn THEN n - 1 ELSE n))
    /\ flagged' = FALSE
    /\ report' = NoReport

\* A record on the medium is damaged: its key, and no other, is taken back to
\* what the records about it that are still readable say.
Decay ==
    /\ Cardinality(DOMAIN bad) < MaxBad
    /\ \E i \in DOMAIN writer.file \ DOMAIN bad, kind \in Decays :
          /\ bad' = [j \in DOMAIN bad \cup {i} |-> IF j = i THEN kind ELSE bad[j]]
          /\ kept' = [kept EXCEPT ![writer.file[i].key] = ReadBack(writer.file, DOMAIN bad')[writer.file[i].key]]
    /\ report' = NoReport
    /\ UNCHANGED <<opened, writer, flagged, lost>>

\* replay() under the log's own policy; verify_integrity() resets first.
ReplayLog(mode) ==
    /\ opened
    /\ flagged' \in Scanned(mode, flagged)
    /\ report' = NoReport
    /\ UNCHANGED <<opened, writer, bad, kept, lost>>

VerifyIntegrity(mode) ==
    /\ opened
    /\ flagged' \in Scanned(mode, FALSE)
    /\ report' = NoReport
    /\ UNCHANGED <<opened, writer, bad, kept, lost>>

(***************************************************************************)
(* rewrite(live): a new file with one SET per live key takes the place of  *)
(* the old one.  What was buffered is flushed before that, into the old    *)
(* file.  pending_ops stays.                                               *)
(***************************************************************************)
LiveRecords(live) ==
    LET present == SetToSeq({k \in Keys : live[k] # None})
    IN  [i \in DOMAIN present |-> SetRec(present[i], live[present[i]])]

Rewritten(live) == [file |-> LiveRecords(live), buf |-> <<>>, pending |-> writer.pending]

(***************************************************************************)
(* A rewrite that fails leaves the file in place: the temporary file could *)
(* not be written, or it could not take the file's place, which is after   *)
(* the flush.  (Not modelled: a failure to open the new file, after which  *)
(* the writer goes on appending to the file that was replaced.)            *)
(***************************************************************************)
RewriteFails ==
    \/ UNCHANGED <<writer, bad, kept, lost>>
    \/ writer' = Flushed(writer) /\ Reach(writer.buf) /\ UNCHANGED bad

\* A caller of rewrite hands over everything that is logged.
Rewrite ==
    /\ opened
    /\ \/ /\ writer' = Rewritten(Then(ReadBack(writer.file, DOMAIN bad), writer.buf))
          /\ Reach(writer.buf)
          /\ bad' = <<>>
       \/ RewriteFails
    /\ report' = NoReport
    /\ UNCHANGED <<opened, flagged>>

\* Mutant of Recovered: the callback ignores DEL.
RecoveredSetsOnly(recs, damaged) ==
    ReadBack(recs, damaged \cup {i \in DOMAIN recs : recs[i].val = None})

\* The map that repair's callback builds.
Recovered(recs, damaged) == ReadBack(recs, damaged)

\* Mutant of NeedsRewrite: only checksum errors count, a torn tail does not.
NeedsRewriteSum(counted) == counted /\ \E i \in DOMAIN bad : bad[i] = "sum"

\* was_modified
NeedsRewrite(counted) == counted

\* The recovered map was read from the file: what is buffered is not in it, and
\* is flushed into the file that the rewrite replaces.
RepairRewrites ==
    /\ writer' = Rewritten(Recovered(writer.file, DOMAIN bad))
    /\ bad' = <<>>
    /\ kept' = Then(kept, writer.buf)
    /\ lost' = lost \cup Named(writer.buf)

Repair(mode) ==
    /\ opened
    /\ flagged' \in Scanned(mode, flagged)
    /\ LET rewrites == NeedsRewrite(flagged') /\ mode # "Strict"
           Reported(changed, failed) ==
               report' = [mode |-> mode, modified |-> NeedsRewrite(flagged'),
                          changed |-> changed, failed |-> failed]
       IN  \/ ~ rewrites /\ Reported(FALSE, FALSE) /\ UNCHANGED <<writer, bad, kept, lost>>
           \/ rewrites /\ Reported(TRUE, FALSE) /\ RepairRewrites
           \/ rewrites /\ Reported(FALSE, TRUE) /\ RewriteFails
    /\ UNCHANGED opened

Modes == {"Skip", "Strict", "Recover"}

LogNext ==
    \/ OpenLog \/ AppendSet \/ AppendDel \/ FlusherTick \/ Close \/ LogCrash \/ Decay
    \/ \E mode \in {"Skip", "Strict"} : ReplayLog(mode) \/ VerifyIntegrity(mode)
    \/ Rewrite
    \/ \E mode \in Modes : Repair(mode)

LogSpec == LogInit /\ [][LogNext]_aofVars

-----------------------------------------------------------------------------
\* Damaged records are records of the file, and a closed log has an empty buffer.
LogTypeOK ==
    /\ opened \in BOOLEAN /\ flagged \in BOOLEAN
    /\ writer.pending \in 0 .. BatchSize
    /\ ~ opened => writer.buf = <<>>
    /\ DOMAIN bad \subseteq DOMAIN writer.file
    /\ \A i \in DOMAIN bad : bad[i] \in {"torn", "sum", "op"}

(***************************************************************************)
(* Whatever sequence of crashes, torn tails, rewrites and repairs in every *)
(* mode the file has been through, its readable records describe exactly   *)
(* the state that the records that ever reached it describe.  Only two     *)
(* things take a key back: a record of its own that decays, and a repair   *)
(* while a record about it is buffered, which flushes that record into the *)
(* file it replaces (until the next record about the key reaches the file).*)
(***************************************************************************)
FileRemembers == \A k \in Keys \ lost : ReadBack(writer.file, DOMAIN bad)[k] = kept[k]

(***************************************************************************)
(* A repair that may rewrite, and whose rewrite does not fail, removes torn*)
(* tails and checksum errors: a replay with Strict, which fails on any     *)
(* damage, works afterwards.                                               *)
(***************************************************************************)
RepairHealsTorn ==
    [][(/\ report' # report /\ report'.mode \in {"Skip", "Recover"} /\ ~ report'.failed
        /\ \E i \in DOMAIN bad : bad[i] # "op")
        => bad' = <<>>]_aofVars

-----------------------------------------------------------------------------
(***************************************************************************)
(* "При необходимости перезаписывает файл" (repair): a repair that may     *)
(* rewrite leaves no damaged record behind.                                *)
(***************************************************************************)
RepairHeals ==
    [][(report' # report /\ report'.mode \in {"Skip", "Recover"}) => bad' = <<>>]_aofVars

(***************************************************************************)
(* RepairResult.modified: "Был ли файл изменён".                           *)
(***************************************************************************)
ModifiedTells == report.modified = report.changed

(***************************************************************************)
(* rewrite flushes the writer "чтобы избежать состояния, когда старый      *)
(* writer держит данные в буфере": records appended before a repair are    *)
(* still logged after it.                                                  *)
(***************************************************************************)
RepairKeepsAppended ==
    [][report'.mode # "none" =>
        Then(ReadBack(writer.file, DOMAIN bad), writer.buf)
            = Then(ReadBack(writer'.file, DOMAIN bad'), writer'.buf)]_aofVars
=============================================================================
