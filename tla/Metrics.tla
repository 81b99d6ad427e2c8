------------------------------- MODULE Metrics -------------------------------
(***************************************************************************)
(* The metrics recorder (metrics.rs): a sample of the counters once per    *)
(* interval, appended to a file that is rotated to a single backup.  Any   *)
(* file operation may fail, and the process may be restarted between any   *)
(* two of them.                                                            *)
(*                                                                         *)
(* One counter stands for all.  A file is the rows below its header.  A    *)
(* row is the sample's total and delta, its length in bytes and, to tell   *)
(* the rows apart, which run of the process wrote it.                      *)
(***************************************************************************)
EXTENDS Integers, Sequences

LOCAL INSTANCE Functions

CONSTANTS MaxFileBytes, \* max_file_bytes; 0: no rotation
          HeaderBytes,  \* length of the header
          RowBytes,     \* lengths that a row may have
          MaxTotal,     \* bound on what one run counts
          MaxRuns       \* bound on the runs of the process

ASSUME MetricsAssumption ==
  /\ MaxFileBytes \in Nat /\ HeaderBytes \in Nat \ {0} /\ RowBytes \subseteq Nat \ {0}
  /\ MaxTotal \in Nat /\ MaxRuns \in Nat \ {0}

VARIABLES total,     \* the counter
          run,       \* which run of the process this is
          writer,    \* is there a MetricsWriter?
          previous,  \* the total of the previous snapshot, if any
          due,       \* has the sample interval passed?
          emitting, \* where maybe_emit is
          file,      \* the rows of the metrics file, if it exists
          backup,    \* the rows of the rotated file, if it exists
          history    \* the newest rows that were written, about a file of them

disk == <<file, backup, history>>
metricsVars == <<total, run, writer, previous, due, emitting, file, backup, history>>

Row == [run : 1..MaxRuns, total : 0..MaxTotal, delta : 0..MaxTotal, size : RowBytes]

(* The length of a file of these rows. *)
Bytes(rows) == HeaderBytes + FoldFunction(LAMBDA row, n : row.size + n, 0, rows)

(* ensure_single_header: the file is created if it is not there. *)
Ensured(f) == IF f = {} THEN {<<>>} ELSE f

MetricsInit ==
  /\ total = 0 /\ run = 1 /\ previous = {} /\ due = FALSE /\ emitting = "idle"
  /\ writer \in BOOLEAN
  /\ file = IF writer THEN {<<>>} ELSE {}
  /\ backup = {} /\ history = <<>>
-----------------------------------------------------------------------------
(* The daemon counts. *)
Count ==
  /\ emitting = "idle" /\ total < MaxTotal
  /\ total' = total + 1
  /\ UNCHANGED <<run, writer, previous, due, emitting, disk>>

IntervalPasses ==
  /\ ~due
  /\ due' = TRUE
  /\ UNCHANGED <<total, run, writer, previous, emitting, disk>>

(* maybe_emit: the first snapshot is only kept. *)
FirstSnapshot ==
  /\ emitting = "idle" /\ writer /\ previous = {}
  /\ previous' = {total} /\ due' = FALSE
  /\ UNCHANGED <<total, run, writer, emitting, disk>>

(* The file has reached its limit, before the row that is to be appended. *)
NeedsRotation == MaxFileBytes # 0 /\ \E rows \in file : Bytes(rows) >= MaxFileBytes

Sample ==
  /\ emitting = "idle" /\ writer /\ previous # {} /\ due
  /\ emitting' = IF NeedsRotation THEN "remove" ELSE "append"
  /\ UNCHANGED <<total, run, writer, previous, due, disk>>

(* rotate_metrics_if_needed, one file operation at a time. *)
RemoveBackup ==
  /\ emitting = "remove"
  /\ backup' = {} /\ emitting' = "rename"
  /\ UNCHANGED <<total, run, writer, previous, due, file, history>>

Rename ==
  /\ emitting = "rename"
  /\ backup' = file /\ file' = {} /\ emitting' = "header"
  /\ UNCHANGED <<total, run, writer, previous, due, history>>

WriteHeader ==
  /\ emitting = "header"
  /\ file' = Ensured(file) /\ emitting' = "append"
  /\ UNCHANGED <<total, run, writer, previous, due, backup, history>>

(* The fewest newest rows that make a file reach its limit. *)
Newest(rows) ==
  LET Last(n) == SubSeq(rows, Len(rows) - n + 1, Len(rows))
      enough == {n \in 0..Len(rows) : Bytes(Last(n)) >= MaxFileBytes}
  IN  IF MaxFileBytes = 0 \/ enough = {} THEN rows
      ELSE Last(CHOOSE n \in enough : \A m \in enough : n <= m)

(* Mutant: the snapshot is not kept. *)
SnapshotKeptOnce == previous' = previous /\ due' = FALSE

(* The end of maybe_emit, whether the sample could be written or not. *)
SnapshotKept == previous' = {total} /\ due' = FALSE

(* delta_since, which subtracts no more than there is. *)
Delta(now, before) == IF now >= before THEN now - before ELSE 0

AppendRow ==
  /\ emitting = "append"
  /\ \E before \in previous, size \in RowBytes :
       LET row == [run |-> run, total |-> total, delta |-> Delta(total, before), size |-> size]
       IN  /\ file' = {Append(rows, row) : rows \in Ensured(file)}
           /\ history' = Newest(Append(history, row))
  /\ SnapshotKept /\ emitting' = "idle"
  /\ UNCHANGED <<total, run, writer, backup>>

(* An operation fails: metrics are disabled. *)
Fail ==
  /\ emitting # "idle"
  /\ writer' = FALSE /\ SnapshotKept /\ emitting' = "idle"
  /\ UNCHANGED <<total, run, disk>>

(* The process ends, wherever it is, and starts again: MetricsRecorder::new.  *)
Restart ==
  /\ run < MaxRuns
  /\ run' = run + 1
  /\ total' = 0 /\ previous' = {} /\ due' = FALSE /\ emitting' = "idle"
  /\ \/ writer' = TRUE /\ file' = Ensured(file)
     \/ writer' = FALSE /\ UNCHANGED file
  /\ UNCHANGED <<backup, history>>

Emit == FirstSnapshot \/ Sample \/ RemoveBackup \/ Rename \/ WriteHeader \/ AppendRow

(* Without a writer maybe_emit does nothing. *)
Disabled == emitting = "idle" /\ ~writer /\ UNCHANGED metricsVars

MetricsNext == Count \/ IntervalPasses \/ Emit \/ Fail \/ Disabled \/ Restart

MetricsSpec == MetricsInit /\ [][MetricsNext]_metricsVars
-----------------------------------------------------------------------------
(* Properties.                                                             *)

Front(rows) == SubSeq(rows, 1, Len(rows) - 1)

MetricsTypeOK ==
  /\ total \in 0..MaxTotal /\ run \in 1..MaxRuns
  /\ writer \in BOOLEAN /\ due \in BOOLEAN
  /\ previous \in {{}} \cup {{n} : n \in 0..MaxTotal}
  /\ emitting \in {"idle", "remove", "rename", "header", "append"}
  /\ \A rows \in file \cup backup \cup {history} : rows \in Seq(Row)

(* The rows on disk, oldest first. *)
Log ==
  LET Rows(f) == IF f = {} THEN <<>> ELSE CHOOSE rows \in f : TRUE
  IN  Rows(backup) \o Rows(file)

(* The deltas of a run add up to its totals: each row starts where the one    *)
(* before it ended, across rotations, and none is written twice.              *)
DeltasChain ==
  \A n \in 1..Len(Log) - 1 :
    LET row == Log[n + 1]
    IN  Log[n].run = row.run => row.total - row.delta = Log[n].total

(* Either file passes its limit by no more than its last row.                *)
FilesBounded ==
  MaxFileBytes # 0 =>
    \A rows \in file \cup backup : Len(rows) > 1 => Bytes(Front(rows)) < MaxFileBytes

(* The newest rows are on disk at any time, as many as it takes with a header *)
(* to reach the limit, also when the process ends in the middle of a rotation *)
(* and when one of its steps fails (rotate_metrics_if_needed removes the      *)
(* backup first).  If the header alone reaches the limit, that is no row: a   *)
(* process that ends between a rotation and its row then rotates twice.       *)
RecentKept ==
  /\ Len(Log) >= Len(history)
  /\ \A n \in 0..Len(history) - 1 : Log[Len(Log) - n] = history[Len(history) - n]

(* What was counted is written in the end, unless metrics are disabled or     *)
(* the process restarts.                                                      *)
CountedIsWritten ==
  \A n \in 1..MaxTotal, r \in 1..MaxRuns :
    (run = r /\ total >= n /\ writer) ~>
      (run # r \/ ~writer \/ \E i \in 1..Len(Log) : Log[i].run = r /\ Log[i].total >= n)

(* What was counted is written in the end, the newest rows, whose deltas add  *)
(* up to the totals, survive a rotation that is cut short, and a file passes  *)
(* its limit by at most its last row (maybe_emit, rotate_metrics_if_needed).  *)
MetricsKept == [](DeltasChain /\ RecentKept /\ FilesBounded) /\ CountedIsWritten
=============================================================================
