------------------------------- MODULE EsSink --------------------------------
(***************************************************************************)
(* The sink of documents: requests put them into a NATS stream, and one    *)
(* process takes them from there to OpenSearch, through a channel, a loop, *)
(* a bulk indexer with its workers and a channel of documents to be tried  *)
(* again.  Each action is one call, or one receive from or send to a       *)
(* channel.                                                                *)
(***************************************************************************)
EXTENDS Naturals, Sequences, FiniteSets

Seqs == INSTANCE SequencesExt

CONSTANTS NDocs,       \* documents, numbered in the order of the stream
          Ids, Id,     \* Id[d]: index and document id of d; a later d replaces an earlier one
          Pools,       \* the workers the bulk indexer may have; 4 in NewEsSinkModule
          InCap,       \* 1000 in NewEsSinkModule, of inputChan
          RetryCap,    \* 1000 in NewEsSinkModule, of retryChan
          BulkSize,    \* documents that fill a bulk request
          MaxBusy,     \* bound on documents answered by 429
          MaxFaults,   \* bound on failed calls, restarts and messages that expire
          Nil          \* no document

Docs == 1..NDocs
Workers == UNION Pools

ASSUME IdAssumption == Id \in [Docs -> Ids]
ASSUME PoolsAssumption == \A P \in Pools : P # {} /\ IsFiniteSet(P)
ASSUME SinkBounds == /\ NDocs \in Nat /\ InCap \in Nat /\ RetryCap \in Nat
                     /\ BulkSize \in Nat \ {0}
                     /\ MaxBusy \in Nat /\ MaxFaults \in Nat
ASSUME NilAssumption == Nil \notin Nat

VARIABLES
    pool,             \* the workers the bulk indexer has, in a channel of as many documents
    sent,             \* documents handed to Ingest so far
    stream, hand,     \* the stream; the message the consumer handles
    input, retry,     \* inputChan and retryChan
    held,             \* the document the loop of Start is adding
    queue,            \* the bulk indexer's channel
    buffer, answers,  \* each worker's request; the positions of 429 answers still to be handled
    index,            \* index[i]: the document OpenSearch has, or 0
    busy, faults,
    told,             \* history: documents that were not reported as failed
    unreadable,       \* history: documents whose message does not unmarshal
    late,             \* history: documents delivered again, or answered by 429
    overtaken,        \* history: documents that one worker had when another sent a newer version
    indexed, refused, \* history: documents that OpenSearch took, or refused
    lost              \* history: lost[c]: documents lost for cause c

sentVars   == <<pool, sent, told, unreadable>>
streamVars == <<sentVars, stream>>
indexVars  == <<index, indexed, refused, busy, overtaken>>
vars == <<streamVars, hand, input, retry, held, queue, buffer, answers, indexVars,
          faults, late, lost>>

(* A message is discarded at the age of 48 hours; a document is given up   *)
(* when its index cannot be created; a bulk request fails as a whole; the  *)
(* process dies.                                                           *)
Causes == {"age", "index", "request", "process"}

Elems(s) == {s[k] : k \in DOMAIN s}
Has(s, cap) == Len(s) < cap
Lose(c, D) == lost' = [lost EXCEPT ![c] = @ \cup D]

TypeOK ==
    /\ pool \in Pools
    /\ sent \in 0..NDocs
    /\ stream \in Seq(Docs) /\ hand \in Docs \cup {Nil}
    /\ input \in Seq(Docs) /\ Len(input) <= InCap
    /\ retry \in Seq(Docs) /\ Len(retry) <= RetryCap
    /\ held \in Docs \cup {Nil}
    /\ queue \in Seq(Docs) /\ Len(queue) <= Cardinality(pool)
    /\ buffer \in [Workers -> Seq(Docs)]
    /\ answers \in [Workers -> SUBSET Nat]
    /\ \A w \in Workers : answers[w] \subseteq DOMAIN buffer[w]
    /\ index \in [Ids -> Docs \cup {0}]
    /\ busy \in 0..MaxBusy /\ faults \in 0..MaxFaults
    /\ told \subseteq Docs /\ unreadable \subseteq Docs
    /\ late \subseteq Docs /\ overtaken \subseteq Docs
    /\ indexed \subseteq Docs /\ refused \subseteq Docs
    /\ lost \in [Causes -> SUBSET Docs]

Init ==
    /\ pool \in Pools
    /\ sent = 0 /\ stream = <<>> /\ hand = Nil
    /\ input = <<>> /\ retry = <<>> /\ held = Nil /\ queue = <<>>
    /\ buffer = [w \in Workers |-> <<>>] /\ answers = [w \in Workers |-> {}]
    /\ index = [i \in Ids |-> 0]
    /\ busy = 0 /\ faults = 0
    /\ told = {} /\ unreadable = {} /\ late = {} /\ overtaken = {}
    /\ indexed = {} /\ refused = {} /\ lost = [c \in Causes |-> {}]

Fault == faults < MaxFaults /\ faults' = faults + 1

-----------------------------------------------------------------------------
(* Ingest: each document is a message of its own, under an id of its own.  *)
(* The reply of the HTTP API names those that could not be produced.       *)
Ingest ==
    /\ sent < NDocs
    /\ sent' = sent + 1
    /\ stream' = Append(stream, sent + 1)
    /\ told' = told \cup {sent + 1}
    /\ UNCHANGED <<pool, unreadable, hand, input, retry, held, queue, buffer, answers, indexVars,
                   faults, late, lost>>

(* The document may be in the stream all the same: produced although the   *)
(* reply says it was not, or, when it could not be marshalled, as a        *)
(* message without content.                                                *)
IngestFails ==
    /\ sent < NDocs /\ Fault
    /\ sent' = sent + 1
    /\ \/ stream' \in {stream, Append(stream, sent + 1)} /\ UNCHANGED unreadable
       \/ stream' = Append(stream, sent + 1) /\ unreadable' = unreadable \cup {sent + 1}
    /\ UNCHANGED <<pool, told, hand, input, retry, held, queue, buffer, answers, indexVars,
                   late, lost>>

(* The stream keeps no message for more than 48 hours. *)
Expire ==
    /\ Fault
    /\ \E k \in DOMAIN stream : stream' = Seqs!RemoveAt(stream, k) /\ Lose("age", {stream[k]})
    /\ UNCHANGED <<sentVars, hand, input, retry, held, queue, buffer, answers,
                   indexVars, late>>

(* ConsumeCycle: one message after the other *)
Deliver ==
    /\ hand = Nil /\ stream # <<>>
    /\ hand' = Head(stream) /\ stream' = Tail(stream)
    /\ UNCHANGED <<sentVars, input, retry, held, queue, buffer, answers, indexVars,
                   faults, late, lost>>

(* A message that does not unmarshal is not acknowledged: it is delivered  *)
(* again, until it expires.                                                *)
Unmarshal ==
    /\ hand \in unreadable
    /\ stream' = Append(stream, hand) /\ hand' = Nil
    /\ late' = late \cup {hand}
    /\ UNCHANGED <<sentVars, input, retry, held, queue, buffer, answers, indexVars,
                   faults, lost>>

(* QueueDoc blocks while the channel is full, and only then the message is *)
(* acknowledged.                                                           *)
QueueDoc ==
    /\ hand \notin unreadable \cup {Nil} /\ Has(input, InCap)
    /\ input' = Append(input, hand) /\ hand' = Nil
    /\ UNCHANGED <<streamVars, retry, held, queue, buffer, answers, indexVars,
                   faults, late, lost>>

(* The server does not wait longer: a message, in hand or fetched with     *)
(* others, is delivered again.                                             *)
AckWait ==
    /\ Fault
    /\ \E d \in Elems(stream) \cup ({hand} \ {Nil}) :
          /\ stream' = Append(stream, d) /\ late' = late \cup {d}
    /\ UNCHANGED <<sentVars, hand, input, retry, held, queue, buffer, answers,
                   indexVars, lost>>

AckFails ==
    /\ hand \notin unreadable \cup {Nil} /\ Has(input, InCap) /\ Fault
    /\ input' = Append(input, hand) /\ hand' = Nil
    /\ stream' = Append(stream, hand) /\ late' = late \cup {hand}
    /\ UNCHANGED <<sentVars, retry, held, queue, buffer, answers, indexVars, lost>>

-----------------------------------------------------------------------------
(* The loop of Start, which chooses between the two channels, and is       *)
(* blocked while the bulk indexer's channel is full.                       *)
TakeInput ==
    /\ held = Nil /\ input # <<>>
    /\ held' = Head(input) /\ input' = Tail(input)
    /\ UNCHANGED <<streamVars, hand, retry, queue, buffer, answers, indexVars,
                   faults, late, lost>>

(* The index cannot be created: the document, which is acknowledged, is    *)
(* given up.                                                               *)
TakeFails ==
    /\ held = Nil /\ input # <<>> /\ Fault
    /\ input' = Tail(input) /\ Lose("index", {Head(input)})
    /\ UNCHANGED <<streamVars, hand, retry, held, queue, buffer, answers, indexVars, late>>

TakeRetry ==
    /\ held = Nil /\ retry # <<>>
    /\ held' = Head(retry) /\ retry' = Tail(retry)
    /\ UNCHANGED <<streamVars, hand, input, queue, buffer, answers, indexVars,
                   faults, late, lost>>

(* Mutant: it does not wait for the bulk indexer *)
AddOrRetry ==
    /\ held # Nil /\ held' = Nil
    /\ IF Has(queue, Cardinality(pool))
       THEN queue' = Append(queue, held) /\ UNCHANGED retry
       ELSE Has(retry, RetryCap) /\ retry' = Append(retry, held) /\ UNCHANGED queue
    /\ UNCHANGED <<streamVars, hand, input, buffer, answers, indexVars, faults, late, lost>>

Add ==
    /\ held # Nil /\ Has(queue, Cardinality(pool))
    /\ queue' = Append(queue, held) /\ held' = Nil
    /\ UNCHANGED <<streamVars, hand, input, retry, buffer, answers, indexVars,
                   faults, late, lost>>

-----------------------------------------------------------------------------
(* The workers of the bulk indexer.  One that handles answers takes no     *)
(* documents.                                                              *)
Buffer(w) ==
    /\ w \in pool /\ answers[w] = {} /\ queue # <<>> /\ Has(buffer[w], BulkSize)
    /\ buffer' = [buffer EXCEPT ![w] = Append(@, Head(queue))]
    /\ queue' = Tail(queue)
    /\ UNCHANGED <<streamVars, hand, input, retry, held, answers, indexVars,
                   faults, late, lost>>

(* Of a request b, the documents at positions P; and what the index has    *)
(* when those at positions P are written in their order.                   *)
Chosen(b, P) == {b[k] : k \in P}
Written(b, P) ==
    [i \in Ids |->
        IF \E k \in P : Id[b[k]] = i
        THEN b[CHOOSE k \in P : Id[b[k]] = i /\ \A l \in P : Id[b[l]] = i => l <= k]
        ELSE index[i]]

(* Mutant: an unfilled request is not sent *)
Full(w) == Len(buffer[w]) = BulkSize

(* A full request, or any at the end of the flush interval *)
Ready(w) == buffer[w] # <<>>

(* A worker's documents whose fate is open *)
Pending(w) == IF answers[w] = {} THEN Elems(buffer[w]) ELSE Chosen(buffer[w], answers[w])

(* The documents that other workers than w have while it sends newer       *)
(* versions of them, in D                                                  *)
Passed(w, D) ==
    {d \in UNION {Pending(v) : v \in Workers \ {w}} : \E n \in D : Id[n] = Id[d] /\ d < n}

(* The bulk request: OpenSearch takes each document, answers 429, or       *)
(* refuses it, which is logged.                                            *)
Flush(w) ==
    /\ answers[w] = {} /\ Ready(w)
    /\ LET b == buffer[w]
       IN  \E R, T \in SUBSET (DOMAIN b) :
             LET W == DOMAIN b \ (R \cup T)
             IN
             /\ R \cap T = {}
             /\ busy + Cardinality(T) <= MaxBusy /\ busy' = busy + Cardinality(T)
             /\ \/ R = {} /\ UNCHANGED faults
                \/ R # {} /\ Fault
             /\ index' = Written(b, W)
             /\ indexed' = indexed \cup Chosen(b, W)
             /\ overtaken' = overtaken \cup Passed(w, Chosen(b, W))
             /\ refused' = refused \cup Chosen(b, R)
             /\ late' = late \cup Chosen(b, T)
             /\ answers' = [answers EXCEPT ![w] = T]
             /\ buffer' = [buffer EXCEPT ![w] = IF T = {} THEN <<>> ELSE b]
    /\ UNCHANGED <<streamVars, hand, input, retry, held, queue, lost>>

(* The request as a whole fails, and with it all its documents. *)
FlushFails(w) ==
    /\ answers[w] = {} /\ Ready(w) /\ Fault
    /\ Lose("request", Elems(buffer[w]))
    /\ buffer' = [buffer EXCEPT ![w] = <<>>]
    /\ UNCHANGED <<streamVars, hand, input, retry, held, queue, answers, indexVars, late>>

(* The answers are handled in their order; then the request is over. *)
Handled(w, k) ==
    /\ k \in answers[w] /\ \A l \in answers[w] : k <= l
    /\ answers' = [answers EXCEPT ![w] = @ \ {k}]
    /\ buffer' = [buffer EXCEPT ![w] = IF answers[w] = {k} THEN <<>> ELSE @]
    /\ UNCHANGED <<streamVars, hand, input, held, queue, indexVars, faults, late, lost>>

(* Mutants: the document is given up when the channel is full; the channel *)
(* has no bound                                                            *)
HandleFailureOrDrop(w) ==
    \E k \in answers[w] :
        /\ retry' = IF Has(retry, RetryCap) THEN Append(retry, buffer[w][k]) ELSE retry
        /\ Handled(w, k)

HandleFailureUnbounded(w) ==
    \E k \in answers[w] : retry' = Append(retry, buffer[w][k]) /\ Handled(w, k)

(* handleFailure, for 429: the worker waits, and then for a place in the   *)
(* channel.                                                                *)
HandleFailure(w) ==
    \E k \in answers[w] :
        /\ Has(retry, RetryCap)
        /\ retry' = Append(retry, buffer[w][k])
        /\ Handled(w, k)

-----------------------------------------------------------------------------
(* What is in the memory of the process and acknowledged. *)
Memory == Elems(input) \cup Elems(retry) \cup ({held} \ {Nil}) \cup Elems(queue)
            \cup UNION {Pending(w) : w \in Workers}

Crash ==
    /\ Fault
    /\ Lose("process", Memory)
    /\ stream' = IF hand = Nil THEN stream ELSE Append(stream, hand)
    /\ late' = late \cup ({hand} \ {Nil})
    /\ hand' = Nil /\ input' = <<>> /\ retry' = <<>> /\ held' = Nil /\ queue' = <<>>
    /\ buffer' = [w \in Workers |-> <<>>] /\ answers' = [w \in Workers |-> {}]
    /\ UNCHANGED <<sentVars, indexVars>>

Consumer == Deliver \/ Unmarshal \/ QueueDoc
Loop == TakeInput \/ TakeRetry \/ Add
Bulk(w) == Buffer(w) \/ Flush(w) \/ HandleFailure(w)

Next == \/ Ingest \/ IngestFails
        \/ Consumer \/ AckFails \/ AckWait \/ Expire
        \/ Loop \/ TakeFails
        \/ \E w \in Workers : Bulk(w) \/ FlushFails(w)
        \/ Crash

Spec == Init /\ [][Next]_vars

(* The goroutines run as long as no channel blocks them, and OpenSearch    *)
(* answers.  A worker sends what it has when the flush interval is over.   *)
Fairness == /\ WF_vars(Consumer) /\ WF_vars(Loop)
            /\ \A w \in Workers : WF_vars(Buffer(w)) /\ WF_vars(Flush(w)) /\ WF_vars(HandleFailure(w))

FairSpec == Spec /\ Fairness

-----------------------------------------------------------------------------
(* Properties. *)

Processed == indexed \cup refused \cup UNION {lost[c] : c \in Causes}

(* A document that was not reported as failed to its sender is under way,  *)
(* or OpenSearch has had it, or refused it, or it was lost in one of four  *)
(* ways: it was 48 hours in the stream, its index could not be created,    *)
(* its request failed as a whole, or it was acknowledged and in the memory *)
(* of a process that died.  No channel, retry or redelivery loses one.     *)
NoneLost == \A d \in told : d \in Processed \cup Memory \cup Elems(stream) \cup {hand}

(* An older version of a document replaces a newer one only when it was    *)
(* delivered again or answered by 429, or was in one worker's hands while  *)
(* another worker sent the newer version: the consumer, the channels and   *)
(* the requests keep the order of the stream.                              *)
OldVersionsOvertaken ==
    [][\A i \in Ids : index'[i] < index[i] => index'[i] \in late \cup overtaken]_vars

(* Everyone waits for everyone: each worker for a place in the channel of  *)
(* documents to be tried again, the loop that empties it for a place in    *)
(* the workers' channel.                                                   *)
Stuck == /\ held # Nil /\ ~Has(queue, Cardinality(pool))
         /\ ~Has(retry, RetryCap) /\ \A w \in pool : answers[w] # {}

(* Each document is processed, and nothing else can keep it from it: of     *)
(* the documents told, which are finitely many, none remains.              *)
OnlyFullChannelsBlock == <>[]Stuck \/ <>[](told \subseteq Processed)
=============================================================================
