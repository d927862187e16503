----------------------------- MODULE Validation -----------------------------
(***************************************************************************)
(* _validate in ppo/ray_trainer.py: batches of rows, padded to a multiple  *)
(* of the agent-loop workers, generated, cut back, and scored by streams   *)
(* of rewards that run on while the next batches are generated.            *)
(*                                                                         *)
(* A row is <<batch, place>>, and so are its answer and its score.         *)
(***************************************************************************)
EXTENDS Integers, FiniteSets, Sequences, SequencesExt

CONSTANTS
    LoopWorkers,   \* agent.num_workers
    ValSizes,      \* rows a batch may have, val_kwargs.n times its samples
    ValBatches,    \* len(val_dataloader)
    MaxRaises      \* bound: rewards that raise

LoopIds  == 1 .. LoopWorkers
Unscored == <<0, 0>>

VARIABLES
    validator,  \* "off", "generate", "redeem", "done" or "raised"
    rows,       \* the rows of every batch
    streaming,  \* "blocking" or "nonblocking"
    answering,  \* workers that have not answered for the last of sent batches
    sent,       \* batches sent to the workers
    rewards,    \* _pending_validation_reward_streams and what a worker has in
                \* hand: per batch and worker the scores so far
    raised,     \* batches and workers with a reward that raised
    records,    \* validation_batch_records
    report      \* rows with their answers and scores, as they are dumped

vars == <<validator, rows, streaming, answering, sent, rewards, raised, records, report>>

Init ==
    /\ validator = "off" /\ rows = <<>> /\ streaming = "blocking" /\ answering = {}
    /\ sent = 0 /\ rewards = <<>> /\ raised = {} /\ records = <<>> /\ report = <<>>

\* pad_dataproto_to_divisor: the first rows again, as often as it takes
PadSize(batch) == (-Len(batch)) % LoopWorkers
Padded(batch)  == [i \in 1 .. Len(batch) + PadSize(batch) |-> batch[((i - 1) % Len(batch)) + 1]]

Unpad(s, n) == SubSeq(s, 1, Len(s) - n)

\* DataProto.chunk: equal parts, one per worker
ChunkOf(batch, w) == LET n == Len(batch) \div LoopWorkers
                     IN  SubSeq(batch, (w - 1) * n + 1, w * n)
Concat(parts) == FlattenSeq([w \in LoopIds |-> parts[w]])

Sent(b, w) == ChunkOf(Padded(rows[b]), w)

\* generate_sequences is called with batch b: a stream per worker.
Dispatch(b, batch) ==
    /\ sent' = b /\ answering' = LoopIds
    /\ rewards' = [c \in DOMAIN rewards \cup {b} |->
         IF c \in DOMAIN rewards THEN rewards[c]
         ELSE [w \in LoopIds |-> [i \in DOMAIN ChunkOf(Padded(batch), w) |-> Unscored]]]

Begin ==
    /\ validator = "off" /\ validator' = "generate"
    /\ \E sizes \in [1 .. ValBatches -> ValSizes] :
         rows' = [b \in 1 .. ValBatches |-> [i \in 1 .. sizes[b] |-> <<b, i>>]]
    /\ streaming' \in {"blocking", "nonblocking"}
    /\ Dispatch(1, rows'[1])
    /\ UNCHANGED <<raised, records, report>>

Unscoreds(b, w) == {i \in DOMAIN rewards[b][w] : rewards[b][w][i] = Unscored}

MutScoresInOrder(b, w, i) ==
    LET scored == DOMAIN rewards[b][w] \ Unscoreds(b, w)
    IN  [rewards EXCEPT ![b][w][Cardinality(scored) + 1] = Sent(b, w)[i]]
ScoredAt(b, w, i) == [rewards EXCEPT ![b][w][i] = Sent(b, w)[i]]

\* A consumer has the score of sample i, in any order, now or later.
Score(b, w) ==
    /\ \E i \in Unscoreds(b, w) : rewards' = ScoredAt(b, w, i)
    /\ <<b, w>> \notin raised
    /\ UNCHANGED <<validator, rows, streaming, answering, sent, raised, records, report>>

ScoreRaises(b, w) ==
    /\ Unscoreds(b, w) # {} /\ <<b, w>> \notin raised /\ Cardinality(raised) < MaxRaises
    /\ raised' = raised \cup {<<b, w>>}
    /\ UNCHANGED <<validator, rows, streaming, answering, sent, rewards, records, report>>

\* A worker's samples are done.  In "blocking" mode it waits for the scores.
Answer(w) ==
    /\ validator = "generate" /\ w \in answering
    /\ streaming = "nonblocking" \/ (Unscoreds(sent, w) = {} /\ <<sent, w>> \notin raised)
    /\ answering' = answering \ {w}
    /\ UNCHANGED <<validator, rows, streaming, sent, rewards, raised, records, report>>

GenerateRaises ==
    /\ validator = "generate" /\ streaming = "blocking"
    /\ \E w \in answering : <<sent, w>> \in raised
    /\ validator' = "raised"
    /\ UNCHANGED <<rows, streaming, answering, sent, rewards, raised, records, report>>

Without(b) == [c \in DOMAIN rewards \ {b} |-> rewards[c]]

\* All workers have answered: concatenate, number the rows, cut them back,
\* keep a record, and on to the next batch.
Collect ==
    /\ validator = "generate" /\ answering = {}
    /\ LET padded == Padded(rows[sent])
           answers == Concat([w \in LoopIds |-> Sent(sent, w)])
           scores  == Concat(rewards[sent])
           n       == PadSize(rows[sent])
       IN  records' = Append(records,
             [batch   |-> sent,
              answers |-> Unpad(answers, n),
              indices |-> Unpad([i \in DOMAIN padded |-> i], n),
              scores  |-> IF streaming = "blocking" THEN Unpad(scores, n) ELSE <<>>])
    /\ IF sent < ValBatches
       THEN Dispatch(sent + 1, rows[sent + 1]) /\ UNCHANGED validator
       ELSE validator' = "redeem" /\ UNCHANGED <<sent, answering, rewards>>
    /\ UNCHANGED <<rows, streaming, raised, report>>

\* resolve_validation_reward_streams, for the first record left, and what is
\* made of the record and the scores
Reordered(scores, indices) == [i \in DOMAIN indices |-> scores[indices[i]]]
Redeemed(record) ==
    IF streaming = "blocking" THEN record.scores
    ELSE Reordered(Concat(rewards[record.batch]), record.indices)

Redeem ==
    /\ validator = "redeem" /\ records # <<>>
    /\ LET record == Head(records)
           scores == Redeemed(record)
       IN  /\ \A w \in LoopIds : /\ Unscoreds(record.batch, w) = {}
                                 /\ <<record.batch, w>> \notin raised
           /\ report' = report \o [i \in DOMAIN scores |->
                <<rows[record.batch][i], record.answers[i], scores[i]>>]
           /\ rewards' = Without(record.batch)
           /\ records' = Tail(records)
    /\ UNCHANGED <<validator, rows, streaming, answering, sent, raised>>

RedeemRaises ==
    /\ validator = "redeem" /\ records # <<>>
    /\ \E w \in LoopIds : <<Head(records).batch, w>> \in raised
    /\ validator' = "raised"
    /\ UNCHANGED <<rows, streaming, answering, sent, rewards, raised, records, report>>

Finish ==
    /\ validator = "redeem" /\ records = <<>> /\ validator' = "done"
    /\ UNCHANGED <<rows, streaming, answering, sent, rewards, raised, records, report>>

Scores == \E b \in DOMAIN rewards, w \in LoopIds : Score(b, w)
Drives == \/ GenerateRaises \/ Collect \/ Redeem \/ RedeemRaises \/ Finish
          \/ \E w \in LoopIds : Answer(w)
Next   == \/ Begin \/ Drives \/ Scores
          \/ \E b \in DOMAIN rewards, w \in LoopIds : ScoreRaises(b, w)

-----------------------------------------------------------------------------
TypeOK ==
    /\ validator \in {"off", "generate", "redeem", "done", "raised"}
    /\ streaming \in {"blocking", "nonblocking"}
    /\ answering \subseteq LoopIds /\ sent \in 0 .. ValBatches
    /\ DOMAIN rewards \subseteq 1 .. sent /\ raised \subseteq (1 .. sent) \X LoopIds
    /\ Len(records) <= ValBatches

\* Every row is reported once, in order, with its own answer and score and
\* none of the padding; and no stream of rewards is left behind.
RowsInPlace ==
    validator = "done" =>
        /\ report = FlattenSeq([b \in 1 .. ValBatches |->
                       [i \in DOMAIN rows[b] |-> <<rows[b][i], rows[b][i], rows[b][i]>>]])
        /\ rewards = <<>>
=============================================================================
