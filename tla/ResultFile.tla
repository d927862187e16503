----------------------------- MODULE ResultFile -----------------------------
(***************************************************************************)
(* The two resumable command lines that append one JSON line per row to a  *)
(* result file: the annotator (src/annotation/label) and the evaluation    *)
(* against a vLLM server (src/eval, the global scheduler).  They share the *)
(* shape, a thread pool drained as its calls complete, and differ in what  *)
(* they take for done when they start again, in how many rows they keep    *)
(* pending and in when they read their own file back.                      *)
(*                                                                         *)
(* A life is one process.  A kill while a record is being written leaves   *)
(* a last line without its end; what the next life appends is glued to it. *)
(***************************************************************************)
EXTENDS Integers, FiniteSets, Sequences, FiniteSetsExt, SequencesExt

CONSTANTS
    NRows,       \* rows of the dataset
    Workers,     \* threads of the pool
    BatchSize,   \* eval_batch_size
    MaxLives     \* bound: processes started

Rows == 1 .. NRows

VARIABLES
    tool,       \* "label" or "eval"
    life,       \* processes started so far
    pc,         \* "off", "submit", "drain", "write", "summary", "done",
                \* "raised" or "killed"
    file,       \* its lines: <<row, ok>>, or Torn when no longer JSON
    open,       \* the last line has no newline
    completed,  \* rows this life skips
    next,       \* the first row the iterator has not passed
    pending,    \* submitted rows: "running", "ok" or "failed"
    batch,      \* completed rows drain has still to write
    unread,     \* written_since_summary
    parquet     \* per row: its lines in train.parquet

fileVars == <<file, open, parquet>>
lifeVars == <<completed, next, pending, batch, unread>>
vars == <<tool, life, pc, fileVars, lifeVars>>

Torn  == <<>>
Ended == {"off", "done", "raised", "killed"}

Readable == \A i \in DOMAIN file : file[i] # Torn
Records(r) == {i \in DOMAIN file : file[i] # Torn /\ file[i][1] = r}
OkAt(i) == file[i][2]
Exported(r) == Cardinality({i \in Records(r) : OkAt(i)})

Init ==
    /\ tool \in {"label", "eval"} /\ life = 0 /\ pc = "off"
    /\ file = <<>> /\ open = FALSE /\ parquet = [r \in Rows |-> 0]
    /\ completed = {} /\ next = 1 /\ pending = <<>> /\ batch = {} /\ unread = 0

-----------------------------------------------------------------------------
\* load_completed_indices: every index that can be read.
MutRetriesFailed == {r \in Rows : \E i \in Records(r) : OkAt(i)}
Recorded == {r \in Rows : Records(r) # {}}

\* completed_indices: rows whose latest record is ok.
LatestOk == {r \in Rows : Records(r) # {} /\ OkAt(Max(Records(r)))}

\* With --no-resume the file is opened with "w"; with --resume an evaluation
\* reads all of it first.
Start(resume) ==
    /\ pc \in Ended /\ life < MaxLives
    /\ life' = life + 1
    /\ IF resume THEN UNCHANGED <<file, open>> ELSE file' = <<>> /\ open' = FALSE
    /\ completed' = IF ~resume THEN {}
                    ELSE IF tool = "label" THEN Recorded ELSE LatestOk
    /\ pc' = IF resume /\ tool = "eval" /\ ~Readable THEN "raised" ELSE "submit"
    /\ next' = 1 /\ pending' = <<>> /\ batch' = {} /\ unread' = 0
    /\ UNCHANGED <<tool, parquet>>

Left == {r \in next .. NRows : r \notin completed}
MaxPending == IF tool = "label" \/ Workers >= BatchSize THEN Workers ELSE BatchSize

Submit ==
    /\ pc = "submit" /\ Left # {}
    /\ LET r == Min(Left) IN
         /\ pending' = [q \in DOMAIN pending \cup {r} |->
                          IF q = r THEN "running" ELSE pending[q]]
         /\ next' = r + 1
    /\ pc' = IF Cardinality(DOMAIN pending) + 1 >= MaxPending THEN "drain" ELSE pc
    /\ UNCHANGED <<tool, life, fileVars, completed, batch, unread>>

\* A thread of the pool answers; rows beyond the pool's size wait for one.
Answer(r, outcome) ==
    /\ r \in DOMAIN pending /\ pending[r] = "running"
    /\ Cardinality({q \in DOMAIN pending : q < r /\ pending[q] = "running"}) < Workers
    /\ pending' = [pending EXCEPT ![r] = outcome]
    /\ UNCHANGED <<tool, life, pc, fileVars, completed, next, batch, unread>>

TailDrained  == pc = "submit" /\ Left = {} /\ pending # <<>>

\* wait(FIRST_COMPLETED): all that is complete when it returns.
Drain ==
    /\ pc = "drain" \/ TailDrained
    /\ batch' = {r \in DOMAIN pending : pending[r] # "running"}
    /\ batch' # {}
    /\ pc' = "write"
    /\ UNCHANGED <<tool, life, fileVars, completed, next, pending, unread>>

Without(r) == [q \in DOMAIN pending \ {r} |-> pending[q]]

\* What a line becomes when it is written after one that has no end.
Appended(line) == IF open THEN Append(Front(file), Torn) ELSE Append(file, line)

Write(r) ==
    /\ pc = "write" /\ r \in batch
    /\ file' = Appended(<<r, pending[r] = "ok">>) /\ open' = FALSE
    /\ batch' = batch \ {r} /\ pending' = Without(r)
    /\ unread' = IF tool = "eval" THEN unread + 1 ELSE 0
    /\ pc' = IF batch = {r} THEN "summary" ELSE "write"
    /\ UNCHANGED <<tool, life, parquet, completed, next>>

\* Label reads the file back after every drain, eval once in a batch.
Summarize ==
    /\ pc = "summary"
    /\ IF tool = "eval" /\ unread < BatchSize
         THEN pc' = "submit" /\ UNCHANGED unread
         ELSE pc' = (IF Readable THEN "submit" ELSE "raised") /\ unread' = 0
    /\ UNCHANGED <<tool, life, fileVars, completed, next, pending, batch>>

\* The last write_summary, write_train_parquet and the printed report.
Finish ==
    /\ pc = "submit" /\ Left = {} /\ pending = <<>>
    /\ pc' = IF Readable THEN "done" ELSE "raised"
    /\ parquet' = IF Readable /\ tool = "label"
                    THEN [r \in Rows |-> Exported(r)] ELSE parquet
    /\ UNCHANGED <<tool, life, file, open, lifeVars>>

Kill ==
    /\ pc \notin Ended /\ life < MaxLives
    /\ pc' = "killed"
    /\ UNCHANGED <<tool, life, fileVars, lifeVars>>

\* Killed inside a write: part of the line, or all of it but its newline.
KillWriting(r, whole) ==
    /\ pc = "write" /\ r \in batch /\ life < MaxLives
    /\ file' = Appended(IF whole THEN <<r, pending[r] = "ok">> ELSE Torn)
    /\ open' = TRUE
    /\ pc' = "killed"
    /\ UNCHANGED <<tool, life, parquet, lifeVars>>

-----------------------------------------------------------------------------
Work ==
    \/ Submit \/ Drain \/ Summarize \/ Finish
    \/ \E r \in Rows : Write(r) \/ \E outcome \in {"ok", "failed"} : Answer(r, outcome)

Next ==
    \/ \E resume \in BOOLEAN : Start(resume)
    \/ Work \/ Kill
    \/ \E r \in Rows, whole \in BOOLEAN : KillWriting(r, whole)

TypeOK ==
    /\ tool \in {"label", "eval"} /\ life \in 0 .. MaxLives
    /\ pc \in Ended \cup {"submit", "drain", "write", "summary"}
    /\ file \in Seq((Rows \X BOOLEAN) \cup {Torn}) /\ open \in BOOLEAN
    /\ completed \subseteq Rows /\ next \in 1 .. NRows + 1
    /\ DOMAIN pending \subseteq Rows
    /\ \A r \in DOMAIN pending : pending[r] \in {"running", "ok", "failed"}
    /\ Cardinality(DOMAIN pending) <= MaxPending
    /\ batch \subseteq DOMAIN pending /\ unread \in 0 .. NRows
    /\ parquet \in [Rows -> 0 .. NRows]

\* A life that ends without an error leaves the record of every row, whatever
\* earlier lives were killed in: the annotator exactly one, exported if and
\* only if it is ok; the evaluation at most one that is ok, and that one last.
EndsWhole ==
    pc = "done" =>
        /\ Readable
        /\ \A r \in Rows :
             /\ Records(r) # {}
             /\ tool = "label" => Cardinality(Records(r)) = 1 /\ parquet[r] = Exported(r)
             /\ tool = "eval" =>
                  \A i \in Records(r) : OkAt(i) => i = Max(Records(r))

\* A file a life can read to its end.
Sound == Readable /\ ~open
=============================================================================
