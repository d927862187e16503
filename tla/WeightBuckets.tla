--------------------------- MODULE WeightBuckets ---------------------------
(***************************************************************************)
(* bucketed_weight_transfer.py: the sender packs weights into one buffer   *)
(* that the receiver reads in place, over a REQ/REP socket, bucket after   *)
(* bucket.  Copies into the buffer are asynchronous; a weight larger than  *)
(* the buffer is handed over by its own handle, except with shared memory. *)
(***************************************************************************)
EXTENDS Integers

CONSTANTS
    NWeights,     \* weights the generator yields, in this order
    BucketSize,   \* bytes of the buffer
    Sizes,        \* nbytes a weight may have
    Items         \* dtype.itemsize it may have

ASSUME Assumption ==
    /\ NWeights \in Nat /\ BucketSize \in Nat
    /\ Sizes \subseteq Nat /\ Items \subseteq Nat \ {0}

Weights == 1 .. NWeights
Nowhere == -1     \* not in the bucket
ByHandle == -2    \* in the message, by its own IPC handle
Garbage == <<>>   \* what a byte nobody has written holds

VARIABLES
    nbytes, itemsize,   \* of each weight
    useShm,
    pos,                \* the weight the sender is at
    offset,
    at,          \* bucket_meta: the offset of each weight in it
    copying,     \* weights whose copy into the buffer has not ended
    buffer,      \* per byte: the weight and the byte of it that it holds
    link,        \* "idle", "init", "bucket" (sent, unanswered) or "ack"
    isLast,
    loaded,      \* per weight: the bytes given to the callback, or Garbage
    sender,      \* "off", "init", "fill", "flush", "direct", "end", "done", "failed"
    receiver     \* "recv", "done" or "raised"

inputs == <<nbytes, itemsize, useShm>>
senderVars == <<pos, offset, at, isLast, sender>>
vars == <<inputs, senderVars, copying, buffer, link, loaded, receiver>>

Bytes(w) == 0 .. nbytes[w] - 1
Whole(w) == [k \in Bytes(w) |-> <<w, k>>]

Init ==
    /\ nbytes = [w \in Weights |-> 0] /\ itemsize = [w \in Weights |-> 1]
    /\ useShm = FALSE
    /\ pos = 1 /\ offset = 0 /\ at = [w \in Weights |-> Nowhere]
    /\ copying = {} /\ buffer = [b \in 0 .. BucketSize - 1 |-> Garbage]
    /\ link = "idle" /\ isLast = FALSE
    /\ loaded = [w \in Weights |-> Garbage]
    /\ sender = "off" /\ receiver = "recv"

\* The weights of a model, and _init_buffer: the handle of the buffer is sent.
Begin ==
    /\ sender = "off"
    /\ nbytes' \in [Weights -> Sizes] /\ itemsize' \in [Weights -> Items]
    /\ \A w \in Weights : nbytes'[w] % itemsize'[w] = 0
    /\ useShm' \in BOOLEAN
    /\ sender' = "init" /\ link' = "init"
    /\ UNCHANGED <<pos, offset, at, isLast, copying, buffer, loaded, receiver>>

-----------------------------------------------------------------------------
\* async_send_weights

MutForgetsOffset(w) == nbytes[w] <= BucketSize
Fits(w)   == offset + nbytes[w] <= BucketSize
InBucket  == {w \in Weights : at[w] # Nowhere}
Filling   == sender = "fill" /\ pos <= NWeights

Place ==
    /\ Filling /\ Fits(pos)
    /\ at' = [at EXCEPT ![pos] = offset]
    /\ copying' = copying \cup {pos}
    /\ offset' = offset + nbytes[pos] /\ pos' = pos + 1
    /\ UNCHANGED <<inputs, isLast, sender, buffer, link, loaded, receiver>>

\* A non-blocking copy ends at any time before the device is synchronized.
CopyEnds(w) ==
    /\ w \in copying
    /\ copying' = copying \ {w}
    /\ buffer' = [b \in 0 .. BucketSize - 1 |->
                    IF b - at[w] \in Bytes(w) THEN <<w, b - at[w]>> ELSE buffer[b]]
    /\ UNCHANGED <<inputs, senderVars, link, loaded, receiver>>

MutNoSynchronize == TRUE
Synchronized     == copying = {}

Send(last, next) ==
    /\ Synchronized
    /\ link' = "bucket" /\ isLast' = last /\ sender' = next
    /\ UNCHANGED <<inputs, pos, offset, at, copying, buffer, loaded, receiver>>

Flush    == Filling /\ ~Fits(pos) /\ InBucket # {} /\ Send(FALSE, "flush")
SendLast == sender = "fill" /\ pos > NWeights /\ Send(TRUE, "end")

\* _direct_send_large_weight
DirectSend ==
    /\ Filling /\ ~Fits(pos) /\ InBucket = {} /\ ~useShm
    /\ at' = [at EXCEPT ![pos] = ByHandle]
    /\ link' = "bucket" /\ isLast' = FALSE /\ sender' = "direct"
    /\ UNCHANGED <<inputs, pos, offset, copying, buffer, loaded, receiver>>

\* The assertion on shared memory; the receiver is left waiting.
TooLarge ==
    /\ Filling /\ ~Fits(pos) /\ InBucket = {} /\ useShm
    /\ sender' = "failed"
    /\ UNCHANGED <<inputs, pos, offset, at, isLast, copying, buffer, link,
                   loaded, receiver>>

\* recv() returns.
Acknowledged ==
    /\ link = "ack" /\ link' = "idle"
    /\ at' = [w \in Weights |-> Nowhere] /\ offset' = 0
    /\ pos' = IF sender = "direct" THEN pos + 1 ELSE pos
    /\ sender' = IF sender = "end" THEN "done" ELSE "fill"
    /\ UNCHANGED <<inputs, isLast, copying, buffer, loaded, receiver>>

-----------------------------------------------------------------------------
\* receive_weights

AttachBuffer ==
    /\ receiver = "recv" /\ link = "init"
    /\ link' = "ack"
    /\ UNCHANGED <<inputs, senderVars, copying, buffer, loaded, receiver>>

\* view(dtype) of a slice wants an offset its item size divides.
Viewable(w) == at[w] = ByHandle \/ at[w] % itemsize[w] = 0

Content(w) ==
    IF at[w] = ByHandle THEN Whole(w)
    ELSE [k \in Bytes(w) |-> buffer[at[w] + k]]

LoadBucket ==
    /\ receiver = "recv" /\ link = "bucket" /\ \A w \in InBucket : Viewable(w)
    /\ loaded' = [w \in Weights |-> IF w \in InBucket THEN Content(w) ELSE loaded[w]]
    /\ link' = "ack"
    /\ receiver' = IF isLast THEN "done" ELSE "recv"
    /\ UNCHANGED <<inputs, senderVars, copying, buffer>>

\* The view raises; the socket is closed and the sender's recv has no timeout.
ViewRaises ==
    /\ receiver = "recv" /\ link = "bucket" /\ \E w \in InBucket : ~Viewable(w)
    /\ receiver' = "raised"
    /\ UNCHANGED <<inputs, senderVars, copying, buffer, link, loaded>>

-----------------------------------------------------------------------------
Transfer ==
    \/ Place \/ Flush \/ SendLast \/ DirectSend \/ TooLarge \/ Acknowledged
    \/ AttachBuffer \/ LoadBucket \/ ViewRaises
    \/ \E w \in Weights : CopyEnds(w)

Next == Begin \/ Transfer
Spec == Init /\ [][Next]_vars

BucketTypeOK ==
    /\ nbytes \in [Weights -> Nat] /\ itemsize \in [Weights -> Nat \ {0}]
    /\ useShm \in BOOLEAN
    /\ pos \in 1 .. NWeights + 1 /\ offset \in 0 .. BucketSize
    /\ at \in [Weights -> Int] /\ copying \subseteq InBucket
    /\ buffer \in [0 .. BucketSize - 1 -> {Garbage} \cup (Weights \X Nat)]
    /\ link \in {"idle", "init", "bucket", "ack"} /\ isLast \in BOOLEAN
    /\ sender \in {"off", "init", "fill", "flush", "direct", "end", "done", "failed"}
    /\ receiver \in {"recv", "done", "raised"}
    /\ DOMAIN loaded = Weights

\* What the model has loaded of a weight is all of it and nothing else, however
\* the copies, the flushes and the reuse of the buffer interleave; and when the
\* sender returns every weight has been loaded.
Intact ==
    /\ \A w \in Weights : loaded[w] \in {Garbage, Whole(w)}
    /\ sender = "done" => \A w \in Weights : loaded[w] = Whole(w)

\* The inductive invariant behind Intact.  Weights lie in the buffer one behind
\* the other ...
Placed == {w \in Weights : at[w] >= 0}

Packed ==
    /\ \A w \in Weights : at[w] \in Nat \cup {Nowhere, ByHandle}
    /\ \A w \in Placed : at[w] + nbytes[w] <= offset
    /\ \A v, w \in Placed : v # w =>
         at[v] + nbytes[v] <= at[w] \/ at[w] + nbytes[w] <= at[v]

\* ... and are there once copied; nothing is being copied while the receiver
\* may read ...
Copied == \A w \in Placed \ copying : \A k \in Bytes(w) : buffer[at[w] + k] = <<w, k>>

Sent == sender \in {"flush", "direct", "end"}

Turns ==
    /\ copying \subseteq Placed
    /\ sender # "fill" => copying = {}
    /\ sender \in {"off", "init"} =>
         /\ InBucket = {} /\ pos = 1
         /\ \A w \in Weights : loaded[w] = Garbage
    /\ sender \in {"off", "fill", "done", "failed"} => link = "idle"
    /\ sender = "init" => link \in {"init", "ack"}
    /\ Sent => link \in {"bucket", "ack"}
    /\ sender = "direct" => pos \in Weights /\ at[pos] = ByHandle
    /\ sender \in {"end", "done"} => pos = NWeights + 1

\* ... and what the sender has passed is in the bucket or loaded.
Progress ==
    /\ \A w \in Weights : loaded[w] \in {Garbage, Whole(w)}
    /\ \A w \in Weights : w < pos => w \in InBucket \/ loaded[w] = Whole(w)
    /\ Sent /\ link = "ack" => \A w \in InBucket : loaded[w] = Whole(w)
    /\ sender = "done" => InBucket = {}

BucketIInv == BucketTypeOK /\ Packed /\ Copied /\ Turns /\ Progress
=============================================================================
