---------------------------- MODULE EsSinkProofs ------------------------------
(***************************************************************************)
(* Types, no document lost between its sender and OpenSearch but in the    *)
(* named ways, which versions replace newer ones, and what may block, for  *)
(* any number of documents and workers, and channels of any capacity.      *)
(***************************************************************************)
EXTENDS EsSink, NaturalSets, SequenceTheorems, FiniteSetTheorems, TLAPS

USE SinkBounds, IdAssumption, NilAssumption

LEMMA Capacity ==
    ASSUME pool \in Pools
    PROVE  Cardinality(pool) \in Nat /\ Cardinality(pool) # 0 /\ pool \subseteq Workers
<1>1. IsFiniteSet(pool) /\ pool # {}
  BY PoolsAssumption
<1> QED  BY <1>1, FS_CardinalityType, FS_EmptySet, Zenon DEF Workers

-----------------------------------------------------------------------------
(* The channels: what is appended is in them, what is taken was. *)

LEMMA Appended ==
    ASSUME NEW s \in Seq(Docs), NEW x \in Docs
    PROVE  /\ Append(s, x) \in Seq(Docs) /\ Len(Append(s, x)) = Len(s) + 1
           /\ Elems(Append(s, x)) = Elems(s) \cup {x}
  BY AppendProperties DEF Elems

LEMMA HeadTaken ==
    ASSUME NEW s \in Seq(Docs), s # <<>>
    PROVE  /\ Head(s) \in Docs /\ Tail(s) \in Seq(Docs)
           /\ Len(Tail(s)) = Len(s) - 1 /\ Len(s) \in Nat
           /\ Elems(s) = {Head(s)} \cup Elems(Tail(s))
<1>1. /\ Head(s) \in Docs /\ Tail(s) \in Seq(Docs)
      /\ Len(Tail(s)) = Len(s) - 1 /\ Len(s) \in Nat \ {0} /\ Head(s) = s[1]
      /\ \A k \in 1..Len(Tail(s)) : Tail(s)[k] = s[k + 1]
  BY HeadTailProperties, EmptySeq, LenProperties
<1>2. DOMAIN s = 1..Len(s) /\ DOMAIN Tail(s) = 1..Len(Tail(s))
  BY <1>1, LenProperties
<1>3. ASSUME NEW k \in DOMAIN s PROVE s[k] \in {Head(s)} \cup Elems(Tail(s))
  <2>1. CASE k = 1
    BY <1>1, <2>1
  <2>2. CASE k # 1
    <3>1. k - 1 \in DOMAIN Tail(s) /\ Tail(s)[k - 1] = s[k]
      BY <1>1, <1>2, <2>2
    <3> QED  BY <3>1 DEF Elems
  <2> QED  BY <2>1, <2>2
<1>4. Head(s) \in Elems(s)
  BY <1>1, <1>2 DEF Elems
<1>5. ASSUME NEW k \in DOMAIN Tail(s) PROVE Tail(s)[k] \in Elems(s)
  <2>1. k + 1 \in DOMAIN s /\ Tail(s)[k] = s[k + 1]
    BY <1>1, <1>2
  <2> QED  BY <2>1 DEF Elems
<1> QED  BY <1>1, <1>3, <1>4, <1>5 DEF Elems

LEMMA Removed ==
    ASSUME NEW s \in Seq(Docs), NEW k \in DOMAIN s
    PROVE  LET t == Seqs!RemoveAt(s, k)
           IN  /\ t \in Seq(Docs) /\ DOMAIN s = 1..Len(s) /\ DOMAIN t = 1..(Len(s) - 1)
               /\ \A l \in DOMAIN t : t[l] = IF l < k THEN s[l] ELSE s[l + 1]
               /\ Len(s) \in Nat /\ Elems(s) = {s[k]} \cup Elems(t)
<1> DEFINE a == SubSeq(s, 1, k - 1)
           b == SubSeq(s, k + 1, Len(s))
           t == Seqs!RemoveAt(s, k)
<1>1. DOMAIN s = 1..Len(s) /\ Len(s) \in Nat /\ k \in 1..Len(s)
  BY LenProperties
<1>2. /\ a \in Seq(Docs) /\ Len(a) = k - 1 /\ \A l \in 1..(k - 1) : a[l] = s[l]
      /\ b \in Seq(Docs) /\ Len(b) = Len(s) - k /\ \A l \in 1..(Len(s) - k) : b[l] = s[k + l]
  <2>1. \A l \in 1..Len(s) : s[l] \in Docs
    BY <1>1, ElementOfSeq
  <2>2. /\ a \in Seq(Docs) /\ Len(a) = IF 1 <= k - 1 THEN k - 1 - 1 + 1 ELSE 0
        /\ \A l \in 1..(k - 1 - 1 + 1) : a[l] = s[1 + l - 1]
    <3>1. 1 \in Int /\ k - 1 \in Int /\ \A l \in 1..(k - 1) : s[l] \in Docs
      BY <1>1, <2>1
    <3> QED  BY <3>1, SubSeqProperties
  <2>3. /\ b \in Seq(Docs) /\ Len(b) = IF k + 1 <= Len(s) THEN Len(s) - (k + 1) + 1 ELSE 0
        /\ \A l \in 1..(Len(s) - (k + 1) + 1) : b[l] = s[k + 1 + l - 1]
    <3>1. k + 1 \in Int /\ Len(s) \in Int /\ \A l \in (k + 1)..Len(s) : s[l] \in Docs
      BY <1>1, <2>1
    <3> QED  BY <3>1, SubSeqProperties
  <2> HIDE DEF a, b
  <2>4. Len(a) = k - 1 /\ \A l \in 1..(k - 1) : a[l] = s[l]
    <3>1. k - 1 - 1 + 1 = k - 1 /\ \A l \in 1..(k - 1) : 1 + l - 1 = l
      BY <1>1
    <3>2. (IF 1 <= k - 1 THEN k - 1 - 1 + 1 ELSE 0) = k - 1
      BY <1>1
    <3> QED  BY <2>2, <3>1, <3>2
  <2>5. Len(b) = Len(s) - k /\ \A l \in 1..(Len(s) - k) : b[l] = s[k + l]
    <3>1. Len(s) - (k + 1) + 1 = Len(s) - k /\ \A l \in 1..(Len(s) - k) : k + 1 + l - 1 = k + l
      BY <1>1
    <3>2. (IF k + 1 <= Len(s) THEN Len(s) - (k + 1) + 1 ELSE 0) = Len(s) - k
      BY <1>1
    <3> QED  BY <2>3, <3>1, <3>2
  <2> QED  BY <2>2, <2>3, <2>4, <2>5
<1>3. t = a \o b
  BY DEF Seqs!RemoveAt
<1> HIDE DEF a, b, t
<1>4. /\ t \in Seq(Docs) /\ Len(t) = Len(s) - 1
      /\ \A l \in 1..(Len(s) - 1) : t[l] = IF l <= k - 1 THEN a[l] ELSE b[l - (k - 1)]
  <2>1. /\ a \o b \in Seq(Docs) /\ Len(a \o b) = Len(a) + Len(b)
        /\ \A l \in 1..(Len(a) + Len(b)) :
              (a \o b)[l] = IF l <= Len(a) THEN a[l] ELSE b[l - Len(a)]
    BY <1>2, ConcatProperties
  <2>2. Len(a) + Len(b) = Len(s) - 1
    BY <1>1, <1>2
  <2> QED  BY <1>2, <1>3, <2>1, <2>2
<1>5. /\ DOMAIN t = 1..(Len(s) - 1)
      /\ \A l \in DOMAIN t : t[l] = IF l < k THEN s[l] ELSE s[l + 1]
  <2>1. DOMAIN t = 1..(Len(s) - 1)
    BY <1>4, LenProperties
  <2>2. ASSUME NEW l \in 1..(Len(s) - 1), l < k PROVE t[l] = s[l]
    <3>1. l \in 1..(k - 1) /\ l <= k - 1
      BY <1>1, <2>2
    <3> QED  BY <1>2, <1>4, <3>1
  <2>3. ASSUME NEW l \in 1..(Len(s) - 1), ~(l < k) PROVE t[l] = s[l + 1]
    <3>1. ~(l <= k - 1) /\ l - (k - 1) \in 1..(Len(s) - k) /\ k + (l - (k - 1)) = l + 1
      BY <1>1, <2>3
    <3> QED  BY <1>2, <1>4, <3>1
  <2> QED  BY <2>1, <2>2, <2>3
<1>6. ASSUME NEW l \in DOMAIN s PROVE s[l] \in {s[k]} \cup Elems(t)
  <2>1. CASE l < k
    BY <1>1, <1>5, <2>1 DEF Elems
  <2>2. CASE l > k
    <3>1. l - 1 \in DOMAIN t /\ t[l - 1] = s[l]
      BY <1>1, <1>5, <2>2
    <3> QED  BY <3>1 DEF Elems
  <2> QED  BY <1>1, <2>1, <2>2
<1>7. ASSUME NEW l \in DOMAIN t PROVE t[l] \in Elems(s)
  <2>1. l \in DOMAIN s /\ l + 1 \in DOMAIN s
    BY <1>1, <1>5
  <2> QED  BY <1>5, <2>1 DEF Elems
<1>8. Elems(s) = {s[k]} \cup Elems(t)
  BY <1>6, <1>7 DEF Elems
<1> QED  BY <1>1, <1>4, <1>5, <1>8 DEF t

LEMMA EmptyChannel == Elems(<<>>) = {} /\ <<>> \in Seq(Docs) /\ Len(<<>>) = 0
  BY EmptySeq DEF Elems

LEMMA ElemsAreDocs ==
    ASSUME NEW s \in Seq(Docs)
    PROVE  /\ Elems(s) \subseteq Docs /\ DOMAIN s \subseteq Nat
           /\ \A k \in DOMAIN s : s[k] \in Elems(s)
  BY LenProperties, ElementOfSeq DEF Elems

(* What a bulk request writes: of the documents with the same id there is  *)
(* a last one.                                                             *)
LEMMA WrittenFrom ==
    ASSUME NEW b \in Seq(Docs), NEW P \in SUBSET (DOMAIN b), NEW i \in Ids
    PROVE  Written(b, P)[i] = index[i] \/ \E k \in P : Written(b, P)[i] = b[k] /\ Id[b[k]] = i
<1>1. SUFFICES ASSUME \E k \in P : Id[b[k]] = i
               PROVE  \E k \in P : /\ b[CHOOSE l \in P : Id[b[l]] = i /\ \A m \in P : Id[b[m]] = i => m <= l]
                                      = b[k]
                                   /\ Id[b[k]] = i
  BY DEF Written
<1> DEFINE S == {k \in P : Id[b[k]] = i}
<1>2. DOMAIN b = 1..Len(b) /\ Len(b) \in Nat
  BY LenProperties
<1>3. S \in SUBSET Nat /\ S # {} /\ \A k \in S : k <= Len(b)
  BY <1>1, <1>2
<1>4. \E m \in S : \A n \in S : n <= m
  <2> HIDE DEF S
  <2> QED  BY <1>2, <1>3, GreatestNatural
<1>5. \E k \in P : Id[b[k]] = i /\ \A l \in P : Id[b[l]] = i => l <= k
  BY <1>4
<1> QED  BY <1>5

(* So the index stays one of documents. *)
LEMMA WrittenType ==
    ASSUME index \in [Ids -> Docs \cup {0}], NEW b \in Seq(Docs),
           NEW P \in SUBSET (DOMAIN b)
    PROVE  Written(b, P) \in [Ids -> Docs \cup {0}]
<1>1. \A k \in P : b[k] \in Docs
  BY ElementOfSeq, LenProperties
<1>2. ASSUME NEW i \in Ids PROVE Written(b, P)[i] \in Docs \cup {0}
  <2>1. Written(b, P)[i] = index[i] \/ \E k \in P : Written(b, P)[i] = b[k]
    <3>1. \/ Written(b, P)[i] = index[i]
          \/ \E k \in P : Written(b, P)[i] = b[k] /\ Id[b[k]] = i
      BY WrittenFrom, Zenon
    <3> QED  BY <3>1, Zenon
  <2> QED  BY <1>1, <2>1
<1>3. Written(b, P) = [i \in Ids |-> Written(b, P)[i]]
  BY DEF Written
<1> QED  BY <1>2, <1>3

-----------------------------------------------------------------------------
(* Types. *)

LEMMA TypeInit == Init => TypeOK
  BY EmptyChannel, Capacity DEF Init, TypeOK, Docs, Causes

(* A worker's open documents, and what is in memory, are documents. *)
LEMMA PendingDocs ==
    ASSUME TypeOK, NEW w \in Workers
    PROVE  Pending(w) \subseteq Docs
BY ElemsAreDocs DEF Pending, Chosen, TypeOK

LEMMA TypeStep == TypeOK /\ [Next]_vars => TypeOK'
<1> SUFFICES ASSUME TypeOK, [Next]_vars PROVE TypeOK'
  OBVIOUS
<1>0. Cardinality(pool) \in Nat
  BY Capacity DEF TypeOK
<1> USE <1>0
<1>1. CASE Ingest
  <2>1. sent + 1 \in Docs
    BY <1>1 DEF Ingest, TypeOK, Docs
  <2> QED  BY <1>1, <2>1, Appended DEF Ingest, TypeOK, indexVars, Docs
<1>2. CASE IngestFails
  <2>1. sent + 1 \in Docs
    BY <1>2 DEF IngestFails, TypeOK, Docs
  <2>2. sent' \in 0..NDocs /\ faults' \in 0..MaxFaults
    BY <1>2 DEF IngestFails, TypeOK, Fault
  <2>3. stream' \in Seq(Docs)
    <3>1. stream \in Seq(Docs) /\ Append(stream, sent + 1) \in Seq(Docs)
      BY <2>1, Appended DEF TypeOK
    <3> QED  BY <1>2, <3>1 DEF IngestFails
  <2> QED  BY <1>2, <2>2, <2>3 DEF IngestFails, TypeOK, indexVars
<1>3. CASE Deliver
  BY <1>3, HeadTaken DEF Deliver, TypeOK, indexVars, sentVars
<1>4. CASE QueueDoc
  BY <1>4, Appended, LenProperties DEF QueueDoc, TypeOK, indexVars, streamVars, sentVars, Has
<1>5. CASE AckFails
  BY <1>5, Appended, LenProperties DEF AckFails, TypeOK, indexVars, sentVars, Has, Fault
<1>6. CASE AckWait
  BY <1>6, Appended, ElemsAreDocs DEF AckWait, TypeOK, indexVars, sentVars, Fault
<1>7. CASE TakeInput
  BY <1>7, HeadTaken DEF TakeInput, TypeOK, indexVars, streamVars, sentVars
<1>8. CASE TakeFails
  BY <1>8, HeadTaken DEF TakeFails, TypeOK, indexVars, streamVars, sentVars, Fault, Lose, Causes
<1>9. CASE TakeRetry
  BY <1>9, HeadTaken DEF TakeRetry, TypeOK, indexVars, streamVars, sentVars
<1>10. CASE Add
  BY <1>10, Appended, LenProperties DEF Add, TypeOK, indexVars, streamVars, sentVars, Has
<1>11. ASSUME NEW w \in Workers, Buffer(w) PROVE TypeOK'
  <2>1. /\ Head(queue) \in Docs /\ Tail(queue) \in Seq(Docs)
        /\ Len(Tail(queue)) <= Cardinality(pool)
    BY <1>11, HeadTaken DEF Buffer, TypeOK
  <2>2. buffer' \in [Workers -> Seq(Docs)]
    BY <1>11, <2>1, Appended DEF Buffer, TypeOK
  <2>3. \A v \in Workers : answers'[v] \subseteq DOMAIN buffer'[v]
    BY <1>11 DEF Buffer, TypeOK
  <2> QED  BY <1>11, <2>1, <2>2, <2>3 DEF Buffer, TypeOK, indexVars, streamVars, sentVars
<1>12. ASSUME NEW w \in Workers, Flush(w) PROVE TypeOK'
  <2> DEFINE b == buffer[w]
  <2>1. b \in Seq(Docs) /\ DOMAIN b \subseteq Nat
    BY ElemsAreDocs DEF TypeOK
  <2>2. PICK RR \in SUBSET (DOMAIN b), TT \in SUBSET (DOMAIN b) :
          /\ busy + Cardinality(TT) <= MaxBusy /\ busy' = busy + Cardinality(TT)
          /\ \/ RR = {} /\ UNCHANGED faults
             \/ RR # {} /\ Fault
          /\ index' = Written(b, DOMAIN b \ (RR \cup TT))
          /\ indexed' = indexed \cup Chosen(b, DOMAIN b \ (RR \cup TT))
          /\ overtaken' = overtaken \cup Passed(w, Chosen(b, DOMAIN b \ (RR \cup TT)))
          /\ refused' = refused \cup Chosen(b, RR)
          /\ late' = late \cup Chosen(b, TT)
          /\ answers' = [answers EXCEPT ![w] = TT]
          /\ buffer' = [buffer EXCEPT ![w] = IF TT = {} THEN <<>> ELSE b]
    BY <1>12 DEF Flush
  <2>3. \A P \in SUBSET (DOMAIN b) : Chosen(b, P) \subseteq Docs
    BY <2>1, ElementOfSeq, LenProperties DEF Chosen
  <2>4. index' \in [Ids -> Docs \cup {0}]
    BY <2>1, <2>2, WrittenType DEF TypeOK
  <2>5. /\ buffer' \in [Workers -> Seq(Docs)] /\ answers' \in [Workers -> SUBSET Nat]
        /\ \A v \in Workers : answers'[v] \subseteq DOMAIN buffer'[v]
    BY <2>1, <2>2, EmptyChannel DEF TypeOK
  <2>6. busy' \in 0..MaxBusy /\ faults' \in 0..MaxFaults
    <3>1. Cardinality(TT) \in Nat
      <4>1. IsFiniteSet(DOMAIN b)
        BY <2>1, LenProperties, FS_Interval
      <4> QED  BY <4>1, FS_Subset, FS_CardinalityType
    <3>2. \/ faults' = faults
          \/ faults < MaxFaults /\ faults' = faults + 1
      BY <2>2 DEF Fault
    <3>3. /\ busy \in Nat /\ MaxBusy \in Nat /\ faults \in 0..MaxFaults
          /\ busy + Cardinality(TT) <= MaxBusy /\ busy' = busy + Cardinality(TT)
      BY <2>2 DEF TypeOK
    <3>4. busy' \in 0..MaxBusy
      BY <3>1, <3>3
    <3> QED  BY <3>2, <3>3, <3>4
  <2>7. /\ indexed' \subseteq Docs /\ refused' \subseteq Docs /\ late' \subseteq Docs
        /\ overtaken' \subseteq Docs
    <3>1. \A D : Passed(w, D) \subseteq Docs
      BY PendingDocs DEF Passed
    <3>2. /\ Chosen(b, DOMAIN b \ (RR \cup TT)) \subseteq Docs
          /\ Chosen(b, RR) \subseteq Docs /\ Chosen(b, TT) \subseteq Docs
      BY <2>3
    <3>3. /\ indexed \subseteq Docs /\ refused \subseteq Docs /\ late \subseteq Docs
          /\ overtaken \subseteq Docs
      BY DEF TypeOK
    <3> HIDE DEF b
    <3> QED  BY <2>2, <3>1, <3>2, <3>3
  <2> QED  BY <1>12, <2>4, <2>5, <2>6, <2>7 DEF Flush, TypeOK, streamVars, sentVars
<1>13. ASSUME NEW w \in Workers, FlushFails(w) PROVE TypeOK'
  BY <1>13, ElemsAreDocs, EmptyChannel DEF FlushFails, TypeOK, indexVars, streamVars, sentVars, Fault, Lose, Causes
<1>14. ASSUME NEW w \in Workers, HandleFailure(w) PROVE TypeOK'
  <2>1. PICK k \in answers[w] : /\ Has(retry, RetryCap)
                                /\ retry' = Append(retry, buffer[w][k]) /\ Handled(w, k)
    BY <1>14 DEF HandleFailure
  <2>2. buffer[w] \in Seq(Docs) /\ buffer[w][k] \in Docs
    BY ElemsAreDocs DEF TypeOK
  <2>3. retry' \in Seq(Docs) /\ Len(retry') <= RetryCap
    BY <2>1, <2>2, Appended, LenProperties DEF TypeOK, Has
  <2>4. /\ buffer' \in [Workers -> Seq(Docs)] /\ answers' \in [Workers -> SUBSET Nat]
        /\ \A v \in Workers : answers'[v] \subseteq DOMAIN buffer'[v]
    BY <2>1, EmptyChannel DEF TypeOK, Handled
  <2> QED  BY <2>1, <2>3, <2>4 DEF Handled, TypeOK, indexVars, streamVars, sentVars
<1>15. CASE Crash
  <2>1. Memory \subseteq Docs
    BY PendingDocs, ElemsAreDocs DEF Memory, TypeOK
  <2>2. stream' \in Seq(Docs) /\ late' \subseteq Docs
    BY <1>15, Appended DEF Crash, TypeOK
  <2> QED  BY <1>15, <2>1, <2>2, EmptyChannel DEF Crash, TypeOK, indexVars, sentVars, Fault, Lose, Causes
<1>16. CASE Unmarshal
  BY <1>16, Appended DEF Unmarshal, TypeOK, indexVars, sentVars, Docs
<1>17. CASE Expire
  <2>1. PICK k \in DOMAIN stream : stream' = Seqs!RemoveAt(stream, k) /\ Lose("age", {stream[k]})
    BY <1>17 DEF Expire
  <2>2. stream' \in Seq(Docs) /\ stream[k] \in Docs
    BY <2>1, Removed, ElemsAreDocs DEF TypeOK
  <2> QED  BY <1>17, <2>1, <2>2 DEF Expire, TypeOK, indexVars, sentVars, Fault, Lose, Causes
<1>18. CASE UNCHANGED vars
  BY <1>18 DEF TypeOK, vars, streamVars, sentVars, indexVars
<1> QED
  BY <1>1, <1>2, <1>3, <1>4, <1>5, <1>6, <1>7, <1>8, <1>9, <1>10, <1>11, <1>12,
     <1>13, <1>14, <1>15, <1>16, <1>17, <1>18
  DEF Next, Consumer, Loop, Bulk

(* Every variable keeps its type, and no channel holds more than it can. *)
THEOREM TypeCorrect == Spec => []TypeOK
<1> QED  BY TypeInit, TypeStep, PTL DEF Spec

-----------------------------------------------------------------------------
(* No document is lost. *)

(* Where a document may be *)
Place(d) == \/ d \in Processed \/ d \in Elems(stream) \/ d = hand
            \/ d \in Elems(input) \/ d \in Elems(retry) \/ d = held
            \/ d \in Elems(queue) \/ \E w \in Workers : d \in Pending(w)

(* What is lost is processed. *)
LEMMA Losing ==
    ASSUME TypeOK, NEW c \in Causes, NEW D, Lose(c, D), UNCHANGED <<indexed, refused>>
    PROVE  Processed' = Processed \cup D
<1>1. \A b \in Causes : lost'[b] = IF b = c THEN lost[b] \cup D ELSE lost[b]
  BY DEF Lose, TypeOK
<1>2. UNION {lost'[b] : b \in Causes} = (UNION {lost[b] : b \in Causes}) \cup D
  <2>1. \A d : (\E b \in Causes : d \in lost'[b]) <=> (\E b \in Causes : d \in lost[b]) \/ d \in D
    BY <1>1
  <2> QED  BY <2>1
<1> QED  BY <1>2 DEF Processed

LEMMA PlaceMeaning ==
    ASSUME NEW d, d # Nil
    PROVE  /\ Place(d) <=> d \in Processed \cup Memory \cup Elems(stream) \cup {hand}
           /\ d \in Memory <=> \/ d \in Elems(input) \/ d \in Elems(retry) \/ d = held
                              \/ d \in Elems(queue) \/ \E w \in Workers : d \in Pending(w)
<1>1. d \in UNION {Pending(w) : w \in Workers} <=> \E w \in Workers : d \in Pending(w)
  OBVIOUS
<1> QED  BY <1>1 DEF Place, Memory

LEMMA LostInit == Init => NoneLost
  BY DEF Init, NoneLost

LEMMA LostStep == TypeOK /\ NoneLost /\ [Next]_vars => NoneLost'
<1> SUFFICES ASSUME TypeOK, NoneLost, [Next]_vars PROVE NoneLost'
  OBVIOUS
<1>0. ASSUME NEW d \in told', Place(d)'
      PROVE  (d \in Processed \cup Memory \cup Elems(stream) \cup {hand})'
  <2>1. d # Nil
    BY TypeStep DEF TypeOK, Docs
  <2>2. ASSUME NEW w \in Workers, d \in Pending(w)' PROVE d \in Memory'
    BY <2>2 DEF Memory
  <2> QED  BY <1>0, <2>1, <2>2 DEF Place, Memory
<1> SUFFICES ASSUME NEW d \in told' PROVE Place(d)'
  BY <1>0 DEF NoneLost
<1>1. d \in told => Place(d)
  <2>1. ASSUME d \in told PROVE d # Nil
    BY <2>1 DEF TypeOK, Docs
  <2> QED  BY <2>1, PlaceMeaning DEF NoneLost
<1> DEFINE Kept == \A w \in Workers : Pending(w)' = Pending(w)
<1>2. ASSUME UNCHANGED <<buffer, answers>> PROVE Kept
  BY <1>2 DEF Pending
<1> HIDE DEF Kept
<1>3. CASE Ingest
  <2>1. sent + 1 \in Docs
    BY <1>3 DEF Ingest, TypeOK, Docs
  <2>2. Kept
    BY <1>2, <1>3 DEF Ingest
  <2>3. Elems(stream') = Elems(stream) \cup {sent + 1}
    BY <1>3, <2>1, Appended DEF Ingest, TypeOK
  <2> QED  BY <1>1, <1>3, <2>2, <2>3 DEF Ingest, Place, Processed, Kept, indexVars
<1>4. CASE IngestFails
  <2>1. sent + 1 \in Docs
    BY <1>4 DEF IngestFails, TypeOK, Docs
  <2>2. Kept
    BY <1>2, <1>4 DEF IngestFails
  <2>3. Elems(stream) \subseteq Elems(stream')
    <3>1. stream \in Seq(Docs) /\ Elems(Append(stream, sent + 1)) = Elems(stream) \cup {sent + 1}
      BY <2>1, Appended DEF TypeOK
    <3> QED  BY <1>4, <3>1 DEF IngestFails
  <2> QED  BY <1>1, <1>4, <2>2, <2>3 DEF IngestFails, Place, Processed, Kept, indexVars
<1>5. CASE Deliver
  <2>1. Kept
    BY <1>2, <1>5 DEF Deliver
  <2>2. Elems(stream) = {hand'} \cup Elems(stream')
    BY <1>5, HeadTaken DEF Deliver, TypeOK
  <2>3. d # Nil
    BY <1>5 DEF Deliver, TypeOK, Docs, sentVars
  <2> QED  BY <1>1, <1>5, <2>1, <2>2, <2>3 DEF Deliver, Place, Processed, Kept, indexVars, sentVars
<1>6. CASE QueueDoc
  <2>1. Kept
    BY <1>2, <1>6 DEF QueueDoc
  <2>2. Elems(input') = Elems(input) \cup {hand}
    BY <1>6, Appended DEF QueueDoc, TypeOK
  <2> QED  BY <1>1, <1>6, <2>1, <2>2 DEF QueueDoc, Place, Processed, Kept, indexVars, streamVars, sentVars
<1>7. CASE AckFails
  <2>1. Kept
    BY <1>2, <1>7 DEF AckFails
  <2>2. Elems(input') = Elems(input) \cup {hand} /\ Elems(stream') = Elems(stream) \cup {hand}
    BY <1>7, Appended DEF AckFails, TypeOK
  <2> QED  BY <1>1, <1>7, <2>1, <2>2 DEF AckFails, Place, Processed, Kept, indexVars, sentVars
<1>8. CASE AckWait
  <2>1. Kept
    BY <1>2, <1>8 DEF AckWait
  <2>2. Elems(stream) \subseteq Elems(stream')
    BY <1>8, Appended, ElemsAreDocs DEF AckWait, TypeOK
  <2> QED  BY <1>1, <1>8, <2>1, <2>2 DEF AckWait, Place, Processed, Kept, indexVars, sentVars
<1>9. CASE TakeInput
  <2>1. Kept
    BY <1>2, <1>9 DEF TakeInput
  <2>2. Elems(input) = {held'} \cup Elems(input') /\ d # Nil
    BY <1>9, HeadTaken DEF TakeInput, TypeOK, Docs, streamVars, sentVars
  <2> QED  BY <1>1, <1>9, <2>1, <2>2 DEF TakeInput, Place, Processed, Kept, indexVars, streamVars, sentVars
<1>10. CASE TakeFails
  <2>1. Kept
    BY <1>2, <1>10 DEF TakeFails
  <2>2. Elems(input) = {Head(input)} \cup Elems(input')
    BY <1>10, HeadTaken DEF TakeFails, TypeOK
  <2>3. Processed' = Processed \cup {Head(input)}
    BY <1>10, Losing DEF TakeFails, indexVars, Causes
  <2> QED  BY <1>1, <1>10, <2>1, <2>2, <2>3 DEF TakeFails, Place, Kept, indexVars, streamVars, sentVars
<1>11. CASE TakeRetry
  <2>1. Kept
    BY <1>2, <1>11 DEF TakeRetry
  <2>2. Elems(retry) = {held'} \cup Elems(retry') /\ d # Nil
    BY <1>11, HeadTaken DEF TakeRetry, TypeOK, Docs, streamVars, sentVars
  <2> QED  BY <1>1, <1>11, <2>1, <2>2 DEF TakeRetry, Place, Processed, Kept, indexVars, streamVars, sentVars
<1>12. CASE Add
  <2>1. Kept
    BY <1>2, <1>12 DEF Add
  <2>2. Elems(queue') = Elems(queue) \cup {held}
    BY <1>12, Appended DEF Add, TypeOK
  <2> QED  BY <1>1, <1>12, <2>1, <2>2 DEF Add, Place, Processed, Kept, indexVars, streamVars, sentVars
<1>13. ASSUME NEW w \in Workers, Buffer(w) PROVE Place(d)'
  <2>1. Elems(queue) = {Head(queue)} \cup Elems(queue') /\ Head(queue) \in Docs
    BY <1>13, HeadTaken DEF Buffer, TypeOK
  <2>2. Elems(buffer'[w]) = Elems(buffer[w]) \cup {Head(queue)}
    BY <1>13, <2>1, Appended DEF Buffer, TypeOK
  <2>3. Pending(w)' = Pending(w) \cup {Head(queue)}
    BY <1>13, <2>2 DEF Buffer, Pending
  <2>4. \A v \in Workers \ {w} : Pending(v)' = Pending(v)
    BY <1>13 DEF Buffer, Pending, TypeOK
  <2> QED  BY <1>1, <1>13, <2>1, <2>3, <2>4 DEF Buffer, Place, Processed, indexVars, streamVars, sentVars
<1>14. ASSUME NEW w \in Workers, Flush(w) PROVE Place(d)'
  <2> DEFINE b == buffer[w]
  <2>1. PICK RR \in SUBSET (DOMAIN b), TT \in SUBSET (DOMAIN b) :
          /\ indexed' = indexed \cup Chosen(b, DOMAIN b \ (RR \cup TT))
          /\ refused' = refused \cup Chosen(b, RR)
          /\ answers' = [answers EXCEPT ![w] = TT]
          /\ buffer' = [buffer EXCEPT ![w] = IF TT = {} THEN <<>> ELSE b]
    BY <1>14 DEF Flush
  <2>2. Pending(w) = Elems(b)
    BY <1>14 DEF Flush, Pending
  <2>3. Elems(b) = Chosen(b, DOMAIN b \ (RR \cup TT)) \cup Chosen(b, RR) \cup Chosen(b, TT)
    BY DEF Elems, Chosen
  <2>4. Chosen(b, TT) \subseteq Pending(w)'
    <3>1. CASE TT = {}
      BY <3>1 DEF Chosen
    <3>2. CASE TT # {}
      BY <2>1, <3>2 DEF Pending, TypeOK
    <3> QED  BY <3>1, <3>2
  <2>5. \A v \in Workers \ {w} : Pending(v)' = Pending(v)
    BY <2>1 DEF Pending, TypeOK
  <2>6. d \in told /\ UNCHANGED <<streamVars, sentVars, hand, input, retry, held, queue, lost>>
    BY <1>14 DEF Flush, streamVars, sentVars
  <2>7. ASSUME NEW v \in Workers, d \in Pending(v) PROVE Place(d)'
    <3>1. CASE v = w
      BY <2>1, <2>2, <2>3, <2>4, <2>7, <3>1 DEF Place, Processed
    <3>2. CASE v # w
      BY <2>5, <2>7, <3>2 DEF Place
    <3> QED  BY <3>1, <3>2
  <2>8. Processed \subseteq Processed'
    BY <2>1, <2>6 DEF Processed
  <2> QED  BY <1>1, <2>6, <2>7, <2>8 DEF Place, streamVars, sentVars
<1>15. ASSUME NEW w \in Workers, FlushFails(w) PROVE Place(d)'
  <2>1. Processed' = Processed \cup Pending(w)
    BY <1>15, Losing DEF FlushFails, Pending, indexVars, Causes
  <2>2. \A v \in Workers \ {w} : Pending(v)' = Pending(v)
    BY <1>15 DEF FlushFails, Pending, TypeOK
  <2> QED  BY <1>1, <1>15, <2>1, <2>2 DEF FlushFails, Place, indexVars, streamVars, sentVars
<1>16. ASSUME NEW w \in Workers, HandleFailure(w) PROVE Place(d)'
  <2>1. PICK k \in answers[w] : retry' = Append(retry, buffer[w][k]) /\ Handled(w, k)
    BY <1>16 DEF HandleFailure
  <2>2. buffer[w] \in Seq(Docs) /\ buffer[w][k] \in Docs
    BY ElemsAreDocs DEF TypeOK
  <2>3. Elems(retry') = Elems(retry) \cup {buffer[w][k]}
    BY <2>1, <2>2, Appended DEF TypeOK
  <2>4. Pending(w) \subseteq Pending(w)' \cup {buffer[w][k]}
    <3>1. Pending(w) = Chosen(buffer[w], answers[w])
      BY DEF Pending
    <3>2. answers'[w] = answers[w] \ {k}
      BY <2>1 DEF Handled, TypeOK
    <3>3. CASE answers[w] = {k}
      BY <3>1, <3>3 DEF Chosen
    <3>4. CASE answers[w] # {k}
      <4>1. answers'[w] # {} /\ buffer'[w] = buffer[w]
        BY <2>1, <3>2, <3>4 DEF Handled, TypeOK
      <4> QED  BY <3>1, <3>2, <4>1 DEF Pending, Chosen
    <3> QED  BY <3>3, <3>4
  <2>5. \A v \in Workers \ {w} : Pending(v)' = Pending(v)
    BY <2>1 DEF Handled, Pending, TypeOK
  <2> QED
    BY <1>1, <2>1, <2>3, <2>4, <2>5 DEF Handled, Place, Processed, indexVars, streamVars, sentVars
<1>17. CASE Crash
  <2>1. d # Nil /\ d \in told
    BY <1>17 DEF Crash, TypeOK, Docs, sentVars
  <2>0. Processed' = Processed \cup Memory
    BY <1>17, Losing DEF Crash, indexVars, Causes
  <2>2. CASE d \in Memory
    BY <2>0, <2>2 DEF Place
  <2>3. CASE d = hand
    BY <1>17, <2>1, <2>3, Appended DEF Crash, Place, TypeOK
  <2>4. CASE d \in Elems(stream)
    BY <1>17, <2>4, Appended DEF Crash, Place, TypeOK
  <2>5. CASE d \in Processed
    BY <2>0, <2>5 DEF Place
  <2> QED  BY <1>1, <2>1, <2>2, <2>3, <2>4, <2>5, PlaceMeaning
<1>18. CASE Unmarshal
  <2>1. Kept
    BY <1>2, <1>18 DEF Unmarshal
  <2>2. Elems(stream') = Elems(stream) \cup {hand}
    BY <1>18, Appended DEF Unmarshal, TypeOK
  <2> QED  BY <1>1, <1>18, <2>1, <2>2 DEF Unmarshal, Place, Processed, Kept, indexVars, sentVars
<1>19. CASE Expire
  <2>1. Kept
    BY <1>2, <1>19 DEF Expire
  <2>2. PICK k \in DOMAIN stream : stream' = Seqs!RemoveAt(stream, k) /\ Lose("age", {stream[k]})
    BY <1>19 DEF Expire
  <2>3. Elems(stream) = {stream[k]} \cup Elems(stream')
    BY <2>2, Removed DEF TypeOK
  <2>4. Processed' = Processed \cup {stream[k]}
    BY <1>19, <2>2, Losing DEF Expire, indexVars, Causes
  <2> QED  BY <1>1, <1>19, <2>1, <2>3, <2>4 DEF Expire, Place, Kept, sentVars
<1>20. CASE UNCHANGED vars
  <2>1. Kept
    BY <1>2, <1>20 DEF vars
  <2> QED  BY <1>1, <1>20, <2>1 DEF vars, Place, Processed, Kept, indexVars, streamVars, sentVars
<1> QED
  BY <1>3, <1>4, <1>5, <1>6, <1>7, <1>8, <1>9, <1>10, <1>11, <1>12, <1>13, <1>14,
     <1>15, <1>16, <1>17, <1>18, <1>19, <1>20
  DEF Next, Consumer, Loop, Bulk

(* A document whose sender was not told of a failure is in the stream, in  *)
(* a channel or in a request, OpenSearch took or refused it, or it was     *)
(* lost by age, with its index, with its request or with the process,      *)
(* however many faults there are, whatever is delivered twice or answered  *)
(* by 429, and whatever cannot be read.                                    *)
THEOREM NothingIsLost == Spec => []NoneLost
<1>1. TypeOK /\ NoneLost /\ [Next]_vars => (TypeOK /\ NoneLost)'
  BY TypeStep, LostStep
<1> QED  BY <1>1, TypeInit, LostInit, PTL DEF Spec
-----------------------------------------------------------------------------
(* Old versions. *)

(* d comes after everything in F, unless it was taken back or sent again. *)
After(d, F, L) == d \notin L => \A x \in F : x < d

(* So does every document of a channel, and after those before it. *)
InOrder(s, F, L) == \A k \in DOMAIN s : /\ After(s[k], F, L)
                                        /\ s[k] \notin L => \A l \in DOMAIN s : l < k => s[l] < s[k]

LEMMA OrderAppended ==
    ASSUME NEW s \in Seq(Docs), NEW x \in Docs, NEW F, NEW L,
           InOrder(s, F, L), After(x, F, L), After(x, Elems(s), L)
    PROVE  InOrder(Append(s, x), F, L)
<1> DEFINE t == Append(s, x)
<1>1. /\ Len(s) \in Nat /\ DOMAIN s = 1..Len(s) /\ DOMAIN t = 1..(Len(s) + 1)
      /\ t[Len(s) + 1] = x /\ \A k \in DOMAIN s : t[k] = s[k]
  BY AppendProperties, LenProperties
<1> HIDE DEF t
<1>2. ASSUME NEW k \in DOMAIN t
      PROVE  /\ After(t[k], F, L)
             /\ t[k] \notin L => \A l \in DOMAIN t : l < k => t[l] < t[k]
  <2>1. CASE k \in DOMAIN s
    BY <1>1, <2>1 DEF InOrder
  <2>2. CASE k = Len(s) + 1
    BY <1>1, <2>2 DEF After, Elems
  <2> QED  BY <1>1, <2>1, <2>2
<1> QED  BY <1>2 DEF InOrder, t

LEMMA OrderTaken ==
    ASSUME NEW s \in Seq(Docs), s # <<>>, NEW F, NEW L, InOrder(s, F, L)
    PROVE  After(Head(s), F, L) /\ InOrder(Tail(s), F \cup {Head(s)}, L)
<1>1. /\ Len(s) \in Nat \ {0} /\ Head(s) = s[1] /\ DOMAIN s = 1..Len(s)
      /\ DOMAIN Tail(s) = 1..(Len(s) - 1)
      /\ \A k \in DOMAIN Tail(s) : Tail(s)[k] = s[k + 1]
  BY HeadTailProperties, EmptySeq, LenProperties
<1> QED  BY <1>1 DEF InOrder, After

(* Less to come after, and more that may be late, keep the order. *)
LEMMA OrderKept ==
    ASSUME NEW s, NEW F, NEW L, InOrder(s, F, L), NEW G \in SUBSET F, NEW M, L \subseteq M
    PROVE  InOrder(s, G, M)
BY DEF InOrder, After

LEMMA AfterKept ==
    ASSUME NEW d, NEW F, NEW L, After(d, F, L), NEW G \in SUBSET F, NEW M, L \subseteq M
    PROVE  After(d, G, M)
BY DEF After

LEMMA OrderRemoved ==
    ASSUME NEW s \in Seq(Docs), NEW k \in DOMAIN s, NEW F, NEW L, InOrder(s, F, L)
    PROVE  InOrder(Seqs!RemoveAt(s, k), F, L)
<1> DEFINE t == Seqs!RemoveAt(s, k)
<1>1. /\ DOMAIN s = 1..Len(s) /\ DOMAIN t = 1..(Len(s) - 1) /\ Len(s) \in Nat
      /\ \A l \in DOMAIN t : t[l] = IF l < k THEN s[l] ELSE s[l + 1]
  BY Removed
<1> HIDE DEF t
<1>2. ASSUME NEW l \in DOMAIN t
      PROVE  /\ After(t[l], F, L)
             /\ t[l] \notin L => \A m \in DOMAIN t : m < l => t[m] < t[l]
  <2> DEFINE At(m) == IF m < k THEN m ELSE m + 1
  <2>1. \A m \in DOMAIN t : At(m) \in DOMAIN s /\ t[m] = s[At(m)]
    BY <1>1
  <2>2. \A m \in DOMAIN t : m < l => At(m) < At(l)
    BY <1>1
  <2> HIDE DEF At
  <2> QED  BY <2>1, <2>2 DEF InOrder
<1> QED  BY <1>2 DEF InOrder, t

LEMMA OrderEmpty == ASSUME NEW F, NEW L PROVE InOrder(<<>>, F, L)
BY EmptySeq DEF InOrder

(* What has got so far: to OpenSearch or back from it, into a request, to  *)
(* the indexer's channel, the loop, its channel, and the consumer.         *)
One(d)  == {d} \ {Nil}
Known   == {index[i] : i \in Ids} \cup Elems(retry)
Bulked  == Known \cup UNION {Elems(buffer[w]) : w \in Workers}
Queued  == Bulked \cup Elems(queue)
Looped  == Queued \cup One(held)
Taken   == Looped \cup Elems(input)
Handed  == Taken \cup One(hand)
Arrived == Handed \cup Elems(stream)

(* No newer version of d was written, unless d may come too late. *)
Current(d) == d \in late \cup overtaken \/ index[Id[d]] <= d

(* A request is in order, and each of its documents still current: it may  *)
(* wait while other workers send theirs.                                   *)
RequestOrdered(w) ==
    /\ \A k \in answers[w] : buffer[w][k] \in late
    /\ answers[w] = {} => InOrder(buffer[w], {}, late) /\ \A d \in Elems(buffer[w]) : Current(d)

(* From place to place the documents keep the order of the stream, except  *)
(* those that were sent back.                                              *)
Ordered ==
    /\ Elems(retry) \subseteq late
    /\ \A w \in Workers : RequestOrdered(w)
    /\ InOrder(queue, Bulked, late)
    /\ held # Nil => After(held, Queued, late)
    /\ InOrder(input, Looped, late)
    /\ hand # Nil => After(hand, Taken, late)
    /\ InOrder(stream, Handed, late)
    /\ \A x \in Arrived : x <= sent

LEMMA OrderedInit == Init => Ordered
<1> SUFFICES ASSUME Init PROVE Ordered
  OBVIOUS
<1>1. Arrived = {index[i] : i \in Ids}
  BY EmptyChannel DEF Init, Arrived, Handed, Taken, Looped, Queued, Bulked, Known, One
<1>2. \A x \in Arrived : x <= sent
  BY <1>1 DEF Init
<1>3. hand = Nil /\ held = Nil /\ retry = <<>> /\ \A w \in Workers : answers[w] = {} /\ buffer[w] = <<>>
  BY DEF Init
<1> QED  BY <1>2, <1>3, OrderEmpty, EmptyChannel DEF Init, Ordered, RequestOrdered

(* A step that changes nothing from the indexer's channel on. *)
LEMMA BulkKeeps ==
    ASSUME Ordered, Bulked' \subseteq Bulked, late \subseteq late',
           UNCHANGED <<sent, stream, hand, input, held, queue>>
    PROVE  /\ InOrder(queue', Bulked', late')
           /\ held' # Nil => After(held', Queued', late')
           /\ InOrder(input', Looped', late')
           /\ hand' # Nil => After(hand', Taken', late')
           /\ InOrder(stream', Handed', late')
           /\ \A x \in Arrived' : x <= sent'
<1>1. Queued' \subseteq Queued
  BY DEF Queued
<1>2. Looped' \subseteq Looped
  BY <1>1 DEF Looped
<1>3. Taken' \subseteq Taken
  BY <1>2 DEF Taken
<1>4. Handed' \subseteq Handed
  BY <1>3 DEF Handed
<1>5. Arrived' \subseteq Arrived
  BY <1>4 DEF Arrived
<1> QED  BY <1>1, <1>2, <1>3, <1>4, <1>5, OrderKept, AfterKept DEF Ordered

(* A worker's request that a step leaves alone, as it does the index, and  *)
(* one that is empty or answered.                                          *)
LEMMA RequestKept ==
    ASSUME NEW w \in Workers, RequestOrdered(w), UNCHANGED <<index, buffer[w], answers[w]>>,
           late \subseteq late', overtaken \subseteq overtaken'
    PROVE  RequestOrdered(w)'
<1>1. answers[w] = {} => InOrder(buffer'[w], {}, late')
  BY OrderKept DEF RequestOrdered
<1>2. \A d : Current(d) => Current(d)'
  BY DEF Current
<1> QED  BY <1>1, <1>2 DEF RequestOrdered

LEMMA RequestOver ==
    ASSUME NEW w \in Workers, \A k \in answers'[w] : buffer'[w][k] \in late',
           answers'[w] # {} \/ buffer'[w] = <<>>
    PROVE  RequestOrdered(w)'
BY OrderEmpty, EmptyChannel DEF RequestOrdered

(* A step that changes nothing up to the consumer's channel, or the loop.  *)
LEMMA RequestsKept ==
    ASSUME Ordered, UNCHANGED <<index, retry, buffer, answers, overtaken>>, late \subseteq late'
    PROVE  /\ Elems(retry') \subseteq late'
           /\ \A w \in Workers : RequestOrdered(w)'
           /\ Known' = Known /\ Bulked' = Bulked
<1>1. Known' = Known /\ Bulked' = Bulked
  BY DEF Known, Bulked
<1> QED  BY <1>1, RequestKept DEF Ordered

LEMMA IngestOrdered ==
    ASSUME TypeOK, Ordered, Ingest \/ IngestFails
    PROVE  Ordered'
<1>1. UNCHANGED <<index, retry, buffer, answers, held, queue, input, hand, late, overtaken>>
  BY DEF Ingest, IngestFails, indexVars
<1>2. UNCHANGED <<Known, Bulked, Queued, Looped, Taken, Handed>>
  BY <1>1 DEF Known, Bulked, Queued, Looped, Taken, Handed
<1>3. sent + 1 \in Docs /\ sent' = sent + 1 /\ sent \in Nat
  BY DEF Ingest, IngestFails, TypeOK, Docs
<1>4. stream' \in {stream, Append(stream, sent + 1)}
  BY DEF Ingest, IngestFails
<1>5. /\ Elems(Append(stream, sent + 1)) = Elems(stream) \cup {sent + 1}
      /\ stream \in Seq(Docs)
  BY <1>3, Appended DEF TypeOK
<1>6. \A x \in Arrived : x <= sent /\ x \in Int
  <2>1. Arrived \subseteq Docs \cup {0}
    BY ElemsAreDocs DEF TypeOK, Arrived, Handed, Taken, Looped, Queued, Bulked, Known, One
  <2> QED  BY <2>1 DEF Ordered, Docs
<1>7. After(sent + 1, Handed, late) /\ After(sent + 1, Elems(stream), late)
  BY <1>3, <1>6 DEF After, Arrived
<1>8. InOrder(stream', Handed, late)
  <2>1. InOrder(stream, Handed, late)
    BY DEF Ordered
  <2>2. InOrder(Append(stream, sent + 1), Handed, late)
    BY <1>3, <1>5, <1>7, <2>1, OrderAppended
  <2> QED  BY <1>4, <2>1, <2>2
<1>9. \A x \in Arrived' : x <= sent'
  <2>1. Arrived' \subseteq Arrived \cup {sent + 1}
    BY <1>2, <1>4, <1>5 DEF Arrived
  <2> QED  BY <1>3, <1>6, <2>1
<1> QED  BY <1>1, <1>2, <1>8, <1>9, RequestsKept DEF Ordered

LEMMA ConsumerOrdered ==
    ASSUME TypeOK, Ordered, Consumer \/ AckFails \/ AckWait \/ Expire
    PROVE  Ordered'
<1>1. /\ UNCHANGED <<index, retry, buffer, answers, held, queue, sent, overtaken>>
      /\ late \subseteq late'
  BY DEF Consumer, Deliver, Unmarshal, QueueDoc, AckFails, AckWait, Expire, indexVars, streamVars, sentVars
<1>2. UNCHANGED <<Known, Bulked, Queued, Looped>>
  BY <1>1 DEF Known, Bulked, Queued, Looped
<1>3. Elems(retry') \subseteq late' /\ \A w \in Workers : RequestOrdered(w)'
  BY <1>1, RequestsKept
<1>4. InOrder(queue', Bulked', late') /\ (held' # Nil => After(held', Queued', late'))
  BY <1>1, <1>2, OrderKept, AfterKept DEF Ordered
<1>5. ASSUME /\ InOrder(input', Looped', late')
             /\ hand' # Nil => After(hand', Taken', late')
             /\ InOrder(stream', Handed', late')
             /\ Arrived' \subseteq Arrived
      PROVE  Ordered'
  BY <1>1, <1>3, <1>4, <1>5 DEF Ordered
<1>6. CASE Deliver
  <2>1. UNCHANGED <<input, late, Taken>> /\ hand = Nil /\ hand' = Head(stream) /\ stream' = Tail(stream)
    BY <1>2, <1>6 DEF Deliver, Taken
  <2>2. Elems(stream) = {hand'} \cup Elems(stream') /\ hand' \in Docs /\ stream # <<>> /\ stream \in Seq(Docs)
    BY <1>6, HeadTaken DEF Deliver, TypeOK
  <2>3. Handed = Taken /\ Handed' = Taken \cup {hand'}
    BY <2>1, <2>2 DEF Handed, One, Docs
  <2>4. Arrived' \subseteq Arrived
    BY <2>2, <2>3 DEF Arrived
  <2>5. After(hand', Taken', late') /\ InOrder(stream', Handed', late')
    BY <2>1, <2>2, <2>3, OrderTaken DEF Ordered
  <2> QED  BY <1>2, <1>5, <2>1, <2>4, <2>5 DEF Ordered
<1>7. CASE QueueDoc \/ AckFails
  <2>1. hand # Nil /\ hand \in Docs /\ hand' = Nil /\ input' = Append(input, hand) /\ input \in Seq(Docs)
    BY <1>7 DEF QueueDoc, AckFails, TypeOK
  <2>2. Elems(input') = Elems(input) \cup {hand}
    BY <2>1, Appended
  <2>3. Handed = Taken \cup {hand} /\ Taken' = Handed /\ Handed' = Handed
    BY <1>2, <2>1, <2>2 DEF Handed, Taken, One
  <2>4. InOrder(input', Looped', late')
    <3>1. After(hand, Looped, late') /\ After(hand, Elems(input), late') /\ InOrder(input, Looped, late')
      BY <1>1, <2>1, OrderKept DEF Ordered, After, Taken
    <3> QED  BY <1>2, <2>1, <3>1, OrderAppended
  <2>5. InOrder(stream', Handed', late') /\ Arrived' \subseteq Arrived
    <3>1. CASE UNCHANGED <<stream, late>>
      BY <2>3, <3>1 DEF Ordered, Arrived
    <3>2. CASE stream' = Append(stream, hand) /\ hand \in late'
      <4>1. InOrder(stream, Handed, late') /\ After(hand, Handed, late') /\ After(hand, Elems(stream), late')
        BY <1>1, <3>2, OrderKept DEF Ordered, After
      <4>2. Elems(stream') = Elems(stream) \cup {hand} /\ stream \in Seq(Docs)
        BY <2>1, <3>2, Appended DEF TypeOK
      <4> QED  BY <2>1, <2>3, <3>2, <4>1, <4>2, OrderAppended DEF Arrived
    <3> QED  BY <1>7, <3>1, <3>2 DEF QueueDoc, AckFails, streamVars, sentVars
  <2> QED  BY <1>5, <2>1, <2>4, <2>5
<1>8. CASE AckWait
  <2>1. PICK d \in Elems(stream) \cup ({hand} \ {Nil}) :
          stream' = Append(stream, d) /\ late' = late \cup {d}
    BY <1>8 DEF AckWait
  <2>2. UNCHANGED <<input, hand, Taken, Handed>>
    BY <1>2, <1>8 DEF AckWait, Taken, Handed
  <2>3. d \in Docs /\ stream \in Seq(Docs) /\ d \in Arrived
    BY <2>1, ElemsAreDocs DEF TypeOK, Arrived, Handed, One
  <2>4. InOrder(stream', Handed', late')
    <3>1. InOrder(stream, Handed, late') /\ After(d, Handed, late') /\ After(d, Elems(stream), late')
      BY <1>1, <2>1, OrderKept DEF Ordered, After
    <3> QED  BY <2>1, <2>2, <2>3, <3>1, OrderAppended
  <2>5. Arrived' \subseteq Arrived
    BY <2>1, <2>2, <2>3, Appended DEF Arrived
  <2> QED  BY <1>1, <1>2, <1>5, <2>2, <2>4, <2>5, OrderKept, AfterKept DEF Ordered
<1>9. CASE Unmarshal
  <2>1. /\ hand' = Nil /\ stream' = Append(stream, hand) /\ hand \in late' /\ UNCHANGED input
        /\ hand \in Docs /\ stream \in Seq(Docs)
    BY <1>9 DEF Unmarshal, TypeOK
  <2>2. Taken' = Taken /\ Handed' = Taken /\ Handed = Taken \cup {hand}
    BY <1>2, <2>1 DEF Taken, Handed, One, Docs
  <2>3. InOrder(stream', Handed', late')
    <3>1. InOrder(stream, Handed', late')
      BY <1>1, <2>2, OrderKept DEF Ordered
    <3>2. After(hand, Handed', late') /\ After(hand, Elems(stream), late')
      BY <2>1 DEF After
    <3> QED  BY <2>1, <3>1, <3>2, OrderAppended
  <2>4. Arrived' \subseteq Arrived
    BY <2>1, <2>2, Appended DEF Arrived
  <2> QED  BY <1>1, <1>2, <1>5, <2>1, <2>3, <2>4, OrderKept DEF Ordered
<1>10. CASE Expire
  <2>1. PICK k \in DOMAIN stream : stream' = Seqs!RemoveAt(stream, k)
    BY <1>10 DEF Expire
  <2>2. UNCHANGED <<input, hand, late, Taken, Handed>> /\ stream \in Seq(Docs)
    BY <1>2, <1>10 DEF Expire, Taken, Handed, TypeOK
  <2>3. InOrder(stream', Handed', late')
    BY <2>1, <2>2, OrderRemoved DEF Ordered
  <2>4. Arrived' \subseteq Arrived
    BY <2>1, <2>2, Removed DEF Arrived
  <2> QED  BY <1>2, <1>5, <2>2, <2>3, <2>4 DEF Ordered
<1> QED  BY <1>6, <1>7, <1>8, <1>9, <1>10 DEF Consumer

LEMMA LoopOrdered ==
    ASSUME TypeOK, Ordered, Loop \/ TakeFails
    PROVE  Ordered'
<1>1. UNCHANGED <<index, buffer, answers, hand, stream, sent, late, overtaken>>
  BY DEF Loop, TakeInput, TakeRetry, Add, TakeFails, indexVars, streamVars, sentVars
<1>2. ASSUME Taken' \subseteq Taken
      PROVE  /\ hand' # Nil => After(hand', Taken', late')
             /\ InOrder(stream', Handed', late') /\ \A x \in Arrived' : x <= sent'
  <2>1. Handed' \subseteq Handed
    BY <1>1, <1>2 DEF Handed
  <2>2. Arrived' \subseteq Arrived
    BY <1>1, <2>1 DEF Arrived
  <2> QED  BY <1>1, <1>2, <2>1, <2>2, OrderKept, AfterKept DEF Ordered
<1>3. \A w \in Workers : RequestOrdered(w)'
  BY <1>1, RequestKept DEF Ordered
<1>4. CASE TakeInput \/ TakeFails
  <2>1. /\ UNCHANGED <<retry, queue>> /\ held = Nil /\ input # <<>> /\ input' = Tail(input)
        /\ held' \in {Nil, Head(input)} /\ input \in Seq(Docs)
    BY <1>4 DEF TakeInput, TakeFails, TypeOK
  <2>2. UNCHANGED <<Known, Bulked, Queued>>
    BY <1>1, <2>1 DEF Known, Bulked, Queued
  <2>3. Elems(input) = {Head(input)} \cup Elems(input')
    BY <2>1, HeadTaken
  <2>4. Looped = Queued /\ Looped' \subseteq Queued \cup {Head(input)}
    BY <2>1, <2>2 DEF Looped, One
  <2>5. Taken' \subseteq Taken
    BY <2>2, <2>3, <2>4 DEF Taken
  <2>6. /\ After(Head(input), Queued, late)
        /\ InOrder(input', Queued \cup {Head(input)}, late)
    BY <2>1, <2>4, OrderTaken DEF Ordered
  <2>7. InOrder(input', Looped', late)
    BY <2>4, <2>6, OrderKept
  <2> QED  BY <1>1, <1>2, <1>3, <2>1, <2>2, <2>5, <2>6, <2>7 DEF Ordered
<1>5. CASE TakeRetry
  <2>1. /\ UNCHANGED <<input, queue>> /\ held = Nil /\ held' = Head(retry) /\ retry \in Seq(Docs)
        /\ retry # <<>> /\ retry' = Tail(retry)
    BY <1>5 DEF TakeRetry, TypeOK
  <2>2. Elems(retry) = {held'} \cup Elems(retry') /\ held' \in late
    BY <2>1, HeadTaken DEF Ordered
  <2>3. Known' \subseteq Known /\ held' \in Known
    BY <1>1, <2>2 DEF Known
  <2>4. Bulked' \subseteq Bulked /\ held' \in Bulked
    BY <1>1, <2>3 DEF Bulked
  <2>5. Queued' \subseteq Queued /\ held' \in Queued
    BY <2>1, <2>4 DEF Queued
  <2>6. Looped' \subseteq Looped
    BY <2>5 DEF Looped, One
  <2>7. Taken' \subseteq Taken
    BY <2>1, <2>6 DEF Taken
  <2>8. InOrder(queue, Bulked', late) /\ InOrder(input, Looped', late) /\ After(held', Queued', late)
    BY <2>2, <2>4, <2>6, OrderKept DEF Ordered, After
  <2> QED  BY <1>1, <1>2, <1>3, <2>1, <2>2, <2>7, <2>8 DEF Ordered
<1>6. CASE Add
  <2>1. /\ UNCHANGED <<input, retry>> /\ held # Nil /\ held' = Nil /\ queue' = Append(queue, held)
        /\ held \in Docs /\ queue \in Seq(Docs)
    BY <1>6 DEF Add, TypeOK
  <2>2. UNCHANGED <<Known, Bulked>>
    BY <1>1, <2>1 DEF Known, Bulked
  <2>3. Elems(queue') = Elems(queue) \cup {held}
    BY <2>1, Appended
  <2>4. Looped' = Looped
    BY <2>1, <2>2, <2>3 DEF Looped, Queued, One
  <2>5. Taken' \subseteq Taken
    BY <2>1, <2>4 DEF Taken
  <2>6. InOrder(queue', Bulked', late)
    <3>1. After(held, Bulked, late) /\ After(held, Elems(queue), late)
      BY <2>1 DEF Ordered, Queued, After
    <3> QED  BY <2>1, <2>2, <3>1, OrderAppended DEF Ordered
  <2> QED  BY <1>1, <1>2, <1>3, <2>1, <2>2, <2>4, <2>5, <2>6 DEF Ordered
<1> QED  BY <1>4, <1>5, <1>6 DEF Loop

(* A step that brings nothing new into the workers' hands. *)
LEMMA BulkShrinks ==
    ASSUME NEW w \in Workers, Known' \subseteq Bulked, Elems(buffer'[w]) \subseteq Elems(buffer[w]),
           \A v \in Workers \ {w} : UNCHANGED buffer[v]
    PROVE  Bulked' \subseteq Bulked
<1>1. \A v \in Workers : Elems(buffer'[v]) \subseteq Elems(buffer[v])
  OBVIOUS
<1> QED  BY <1>1 DEF Bulked

(* A worker's steps. *)
LEMMA BulkOrdered ==
    ASSUME TypeOK, TypeOK', Ordered, NEW w \in Workers, Bulk(w) \/ FlushFails(w)
    PROVE  Ordered'
<1>1. Elems(buffer[w]) \subseteq Bulked /\ Known \subseteq Bulked
  BY DEF Bulked
<1>2. /\ buffer[w] \in Seq(Docs) /\ late \subseteq late' /\ overtaken \subseteq overtaken'
      /\ \A v \in Workers \ {w} : UNCHANGED <<buffer[v], answers[v]>>
  BY DEF TypeOK, Bulk, Buffer, Flush, HandleFailure, Handled, FlushFails, indexVars
<1>3. ASSUME Known' \subseteq Bulked, Elems(buffer'[w]) \subseteq Elems(buffer[w]),
             Elems(retry') \subseteq late', UNCHANGED <<sent, stream, hand, input, held, queue>>,
             \A v \in Workers : RequestOrdered(v)'
      PROVE  Ordered'
  BY <1>2, <1>3, BulkShrinks, BulkKeeps DEF Ordered
<1>4. CASE Buffer(w)
  <2>1. /\ UNCHANGED <<sent, stream, hand, input, retry, held, index, answers, late, overtaken>>
        /\ answers[w] = {} /\ queue # <<>> /\ queue \in Seq(Docs) /\ queue' = Tail(queue)
        /\ buffer'[w] = Append(buffer[w], Head(queue))
    BY <1>4 DEF Buffer, TypeOK, indexVars, streamVars, sentVars
  <2>2. Elems(queue) = {Head(queue)} \cup Elems(queue') /\ Head(queue) \in Docs
    BY <2>1, HeadTaken
  <2>3. Elems(buffer'[w]) = Elems(buffer[w]) \cup {Head(queue)}
    BY <1>2, <2>1, <2>2, Appended
  <2>4. Known' = Known /\ Bulked' = Bulked \cup {Head(queue)}
    <3>1. Known' = Known
      BY <2>1 DEF Known
    <3>2. UNION {Elems(buffer'[v]) : v \in Workers}
            = (UNION {Elems(buffer[v]) : v \in Workers}) \cup {Head(queue)}
      <4>1. \A x : (\E v \in Workers : x \in Elems(buffer'[v]))
                      <=> (\E v \in Workers : x \in Elems(buffer[v])) \/ x = Head(queue)
        BY <1>2, <2>3
      <4> QED  BY <4>1
    <3>3. Bulked' = Known' \cup UNION {Elems(buffer'[v]) : v \in Workers}
      BY DEF Bulked
    <3>4. Bulked = Known \cup UNION {Elems(buffer[v]) : v \in Workers}
      BY DEF Bulked
    <3> QED  BY <3>1, <3>2, <3>3, <3>4
  <2>5. Queued' = Queued
    BY <2>2, <2>4 DEF Queued
  <2>6. After(Head(queue), Bulked, late) /\ InOrder(queue', Bulked', late)
    BY <2>1, <2>4, OrderTaken DEF Ordered
  <2>7. RequestOrdered(w)'
    <3>1. After(Head(queue), {}, late) /\ After(Head(queue), Elems(buffer[w]), late)
      BY <1>1, <2>6 DEF After
    <3>2. InOrder(buffer[w], {}, late) /\ \A d \in Elems(buffer[w]) : Current(d)
      BY <2>1 DEF Ordered, RequestOrdered
    <3>3. InOrder(buffer'[w], {}, late)
      BY <1>2, <2>1, <2>2, <3>1, <3>2, OrderAppended
    <3>4. Current(Head(queue))
      <4>1. Id[Head(queue)] \in Ids /\ index[Id[Head(queue)]] \in Known
        BY <2>2 DEF Known
      <4>2. index[Id[Head(queue)]] \in Docs \cup {0}
        BY <4>1 DEF TypeOK
      <4> QED  BY <1>1, <2>2, <2>6, <4>1, <4>2 DEF Current, After, Docs
    <3>5. \A d \in Elems(buffer'[w]) : Current(d)'
      BY <2>1, <2>3, <3>2, <3>4 DEF Current
    <3> QED  BY <2>1, <3>3, <3>5 DEF RequestOrdered
  <2>8. \A v \in Workers : RequestOrdered(v)'
    BY <1>2, <2>1, <2>7, RequestKept DEF Ordered
  <2>9. UNCHANGED <<Looped, Taken, Handed, Arrived>>
    BY <2>1, <2>5 DEF Looped, Taken, Handed, Arrived
  <2> QED  BY <2>1, <2>5, <2>6, <2>8, <2>9 DEF Ordered
<1>5. CASE Flush(w)
  <2> DEFINE b == buffer[w]
  <2>1. PICK RR \in SUBSET (DOMAIN b), TT \in SUBSET (DOMAIN b) :
          /\ index' = Written(b, DOMAIN b \ (RR \cup TT))
          /\ overtaken' = overtaken \cup Passed(w, Chosen(b, DOMAIN b \ (RR \cup TT)))
          /\ late' = late \cup Chosen(b, TT)
          /\ answers' = [answers EXCEPT ![w] = TT]
          /\ buffer' = [buffer EXCEPT ![w] = IF TT = {} THEN <<>> ELSE b]
    BY <1>5 DEF Flush
  <2>2. UNCHANGED <<sent, stream, hand, input, retry, held, queue>>
    BY <1>5 DEF Flush, streamVars, sentVars
  <2>3. answers'[w] = TT /\ buffer'[w] = IF TT = {} THEN <<>> ELSE b
    BY <2>1 DEF TypeOK
  <2> DEFINE W == DOMAIN b \ (RR \cup TT)
  <2>4. ASSUME NEW i \in Ids
        PROVE  index'[i] = index[i] \/ \E k \in W : index'[i] = b[k] /\ Id[b[k]] = i
    <3>1. W \in SUBSET (DOMAIN b)
      OBVIOUS
    <3> HIDE DEF W
    <3>2. Written(b, W)[i] = index[i] \/ \E k \in W : Written(b, W)[i] = b[k] /\ Id[b[k]] = i
      BY <1>2, <3>1, WrittenFrom, Zenon
    <3> QED  BY <2>1, <3>2 DEF W
  <2>5. Known' \subseteq Bulked
    <3>1. \A i \in Ids : index'[i] \in Bulked
      BY <1>1, <2>4 DEF Known, Elems
    <3> QED  BY <1>1, <2>2, <3>1 DEF Known
  <2>6. Elems(buffer'[w]) \subseteq Elems(buffer[w])
    BY <2>3, EmptyChannel
  <2>7. RequestOrdered(w)'
    <3>1. \A k \in answers'[w] : buffer'[w][k] \in late'
      BY <2>1, <2>3 DEF Chosen
    <3> QED  BY <2>3, <3>1, RequestOver
  <2>8. ASSUME NEW v \in Workers \ {w} PROVE RequestOrdered(v)'
    <3>1. RequestOrdered(v) /\ UNCHANGED <<buffer[v], answers[v]>> /\ buffer[v] \in Seq(Docs)
      BY <1>2 DEF Ordered, TypeOK
    <3>2. ASSUME answers[v] = {}, NEW d \in Elems(buffer[v]), Current(d) PROVE Current(d)'
      <4>1. d \in Docs /\ Id[d] \in Ids
        BY <3>1, ElemsAreDocs
      <4>2. CASE index'[Id[d]] = index[Id[d]]
        BY <1>2, <3>2, <4>2 DEF Current
      <4>3. CASE \E k \in W : index'[Id[d]] = b[k] /\ Id[b[k]] = Id[d]
        <5>1. PICK k \in W : index'[Id[d]] = b[k] /\ Id[b[k]] = Id[d]
          BY <4>3
        <5>2. b[k] \in Docs /\ b[k] \in Chosen(b, W)
          BY <1>2, ElemsAreDocs DEF Chosen
        <5>3. d \in UNION {Pending(u) : u \in Workers \ {w}}
          BY <3>2 DEF Pending
        <5>4. d < b[k] => d \in overtaken'
          BY <2>1, <5>1, <5>2, <5>3 DEF Passed
        <5> QED  BY <4>1, <5>1, <5>2, <5>4 DEF Current, Docs
      <4> QED  BY <2>4, <4>1, <4>2, <4>3
    <3>3. answers[v] = {} => InOrder(buffer[v], {}, late')
      BY <1>2, <3>1, OrderKept DEF RequestOrdered
    <3> QED  BY <1>2, <3>1, <3>2, <3>3 DEF RequestOrdered
  <2>9. \A v \in Workers : RequestOrdered(v)'
    BY <2>7, <2>8
  <2> QED  BY <1>2, <1>3, <2>2, <2>5, <2>6, <2>9 DEF Ordered
<1>6. CASE HandleFailure(w)
  <2>1. PICK k \in answers[w] : retry' = Append(retry, buffer[w][k]) /\ Handled(w, k)
    BY <1>6 DEF HandleFailure
  <2>2. /\ UNCHANGED <<sent, stream, hand, input, held, queue, index, late, overtaken>>
        /\ answers'[w] = answers[w] \ {k}
        /\ buffer'[w] = IF answers[w] = {k} THEN <<>> ELSE buffer[w]
    BY <2>1 DEF Handled, TypeOK, indexVars, streamVars, sentVars
  <2>3. buffer[w][k] \in Docs /\ buffer[w][k] \in Elems(buffer[w])
    BY <1>2, ElemsAreDocs DEF TypeOK
  <2>4. Elems(retry') = Elems(retry) \cup {buffer[w][k]}
    BY <2>1, <2>3, Appended DEF TypeOK
  <2>5. Known' \subseteq Bulked /\ Elems(buffer'[w]) \subseteq Elems(buffer[w])
    BY <1>1, <2>2, <2>3, <2>4, EmptyChannel DEF Known
  <2>6. Elems(retry') \subseteq late' /\ \A l \in answers'[w] : buffer'[w][l] \in late'
    BY <2>2, <2>4 DEF Ordered, RequestOrdered
  <2>7. RequestOrdered(w)'
    BY <2>1, <2>2, <2>6, RequestOver
  <2>8. \A v \in Workers : RequestOrdered(v)'
    BY <1>2, <2>2, <2>7, RequestKept DEF Ordered
  <2> QED  BY <1>3, <2>2, <2>5, <2>6, <2>8
<1>7. CASE FlushFails(w)
  <2>1. /\ UNCHANGED <<sent, stream, hand, input, retry, held, queue, index, answers, late, overtaken>>
        /\ answers[w] = {} /\ buffer'[w] = <<>>
    BY <1>7 DEF FlushFails, TypeOK, indexVars, streamVars, sentVars
  <2>2. Known' \subseteq Bulked /\ Elems(buffer'[w]) \subseteq Elems(buffer[w])
    BY <1>1, <2>1, EmptyChannel DEF Known
  <2>3. \A v \in Workers : RequestOrdered(v)'
    BY <1>2, <2>1, RequestKept, RequestOver DEF Ordered
  <2> QED  BY <1>3, <2>1, <2>2, <2>3 DEF Ordered
<1> QED  BY <1>4, <1>5, <1>6, <1>7 DEF Bulk

LEMMA CrashOrdered ==
    ASSUME TypeOK, Ordered, Crash
    PROVE  Ordered'
<1>1. /\ retry' = <<>> /\ input' = <<>> /\ queue' = <<>> /\ held' = Nil /\ hand' = Nil
      /\ \A w \in Workers : buffer'[w] = <<>> /\ answers'[w] = {}
      /\ UNCHANGED <<index, sent>>
      /\ late' = late \cup ({hand} \ {Nil})
      /\ stream' = IF hand = Nil THEN stream ELSE Append(stream, hand)
  BY DEF Crash, indexVars, sentVars
<1>2. Bulked' \subseteq Known
  BY <1>1, EmptyChannel DEF Bulked, Known
<1>3. Handed' \subseteq Known
  BY <1>1, <1>2, EmptyChannel DEF Handed, Taken, Looped, Queued, One
<1>4. Known \subseteq Handed
  BY DEF Handed, Taken, Looped, Queued, Bulked
<1>5. InOrder(stream', Handed', late') /\ Elems(stream') \subseteq Elems(stream) \cup One(hand)
  <2>1. InOrder(stream, Handed', late') /\ stream \in Seq(Docs)
    BY <1>1, <1>3, <1>4, OrderKept DEF Ordered, TypeOK
  <2>2. CASE hand = Nil
    BY <1>1, <2>1, <2>2
  <2>3. CASE hand # Nil
    <3>1. hand \in Docs /\ After(hand, Handed', late') /\ After(hand, Elems(stream), late')
      BY <1>1, <2>3 DEF After, TypeOK
    <3> QED  BY <1>1, <2>1, <2>3, <3>1, OrderAppended, Appended DEF One
  <2> QED  BY <2>2, <2>3
<1>6. Arrived' \subseteq Arrived
  BY <1>3, <1>4, <1>5 DEF Arrived, Handed
<1>7. \A w \in Workers : RequestOrdered(w)'
  BY <1>1, OrderEmpty, EmptyChannel DEF RequestOrdered
<1> QED  BY <1>1, <1>5, <1>6, <1>7, OrderEmpty, EmptyChannel DEF Ordered

(* An old version of a document replaces a newer one, however many workers *)
(* there are, only if it was answered by 429 or delivered again, or one    *)
(* worker had it when another sent the newer: the consumer, the channels   *)
(* and the requests keep the order of the stream.                          *)
THEOREM OldVersionsAreOvertaken == Spec => OldVersionsOvertaken
<1>1. TypeOK /\ Ordered /\ [Next]_vars => (TypeOK /\ Ordered)'
  <2> SUFFICES ASSUME TypeOK, Ordered, [Next]_vars PROVE TypeOK' /\ Ordered'
    OBVIOUS
  <2>1. TypeOK'
    BY TypeStep
  <2>2. CASE UNCHANGED vars
    BY <2>1, <2>2 DEF vars, indexVars, streamVars, sentVars, Ordered, RequestOrdered, Current,
               Arrived, Handed, Taken, Looped, Queued, Bulked, Known
  <2>3. ASSUME NEW w \in Workers, Bulk(w) \/ FlushFails(w) PROVE Ordered'
    BY <2>1, <2>3, BulkOrdered
  <2>4. CASE Crash
    BY <2>1, <2>4, CrashOrdered
  <2>5. CASE Ingest \/ IngestFails \/ Consumer \/ AckFails \/ AckWait \/ Expire \/ Loop \/ TakeFails
    BY <2>1, <2>5, IngestOrdered, ConsumerOrdered, LoopOrdered
  <2> QED  BY <2>1, <2>2, <2>3, <2>4, <2>5 DEF Next
<1>2. TypeOK /\ Ordered /\ [Next]_vars
        => [\A i \in Ids : index'[i] < index[i] => index'[i] \in late \cup overtaken]_vars
  <2> SUFFICES ASSUME TypeOK, Ordered, Next, NEW i \in Ids, index'[i] < index[i]
               PROVE  index'[i] \in late \cup overtaken
    OBVIOUS
  <2>1. index[i] \in Nat
    BY DEF TypeOK, Docs
  <2>2. index' # index
    BY <2>1
  <2>3. PICK w \in Workers : Flush(w)
    BY <2>2 DEF Next, Ingest, IngestFails, Consumer, Deliver, Unmarshal, QueueDoc, AckFails, AckWait,
                Expire, Loop, TakeInput, TakeRetry, Add, TakeFails, Bulk, Buffer, HandleFailure,
                Handled, FlushFails, Crash, indexVars
  <2> DEFINE b == buffer[w]
  <2>4. PICK P \in SUBSET (DOMAIN b) : index' = Written(b, P)
    BY <2>3 DEF Flush
  <2>5. PICK k \in P : index'[i] = b[k] /\ Id[b[k]] = i
    <3>1. b \in Seq(Docs)
      BY DEF TypeOK
    <3>2. Written(b, P)[i] = index[i] \/ \E k \in P : Written(b, P)[i] = b[k] /\ Id[b[k]] = i
      BY <3>1, WrittenFrom, Zenon
    <3> QED  BY <2>1, <2>4, <3>2
  <2>6. Current(b[k]) /\ b[k] \in Docs
    BY <2>3, ElemsAreDocs DEF Ordered, RequestOrdered, Flush, TypeOK
  <2> QED  BY <2>1, <2>5, <2>6 DEF Current, Docs
<1> QED  BY <1>1, <1>2, TypeInit, OrderedInit, PTL DEF Spec, OldVersionsOvertaken

-----------------------------------------------------------------------------
(* What may block the sink. *)

(* Some receive, send or request can be done now, or the consumer can hand *)
(* over a message that it reaches after those that cannot be read.  A full *)
(* request leaves at the latest when a worker finds no place in it.        *)
Readable      == (Elems(stream) \cup ({hand} \ {Nil})) \ unreadable
ConsumerMoves == Readable # {} /\ Has(input, InCap)
LoopMoves     == IF held = Nil THEN input # <<>> \/ retry # <<>> ELSE Has(queue, Cardinality(pool))
BulkMoves(w)  == IF answers[w] = {} THEN buffer[w] # <<>> \/ queue # <<>> ELSE Has(retry, RetryCap)

OnlyStuck ==
    Memory \cup Readable # {} => ConsumerMoves \/ LoopMoves \/ (\E w \in pool : BulkMoves(w)) \/ Stuck

(* Only the workers of the pool have documents. *)
OthersIdle == \A w \in Workers \ pool : buffer[w] = <<>> /\ answers[w] = {}

LEMMA OthersStayIdle == TypeOK /\ OthersIdle /\ [Next]_vars => OthersIdle'
<1> SUFFICES ASSUME TypeOK, OthersIdle, Next, NEW w \in Workers \ pool, NEW v \in Workers,
                    Bulk(v) \/ FlushFails(v)
             PROVE  UNCHANGED <<buffer[w], answers[w]>>
  BY DEF OthersIdle, TypeOK, Next, Ingest, IngestFails, Consumer, Deliver, Unmarshal, QueueDoc, AckFails,
         AckWait, Expire, Loop, TakeInput, TakeRetry, Add, TakeFails, Bulk, Buffer, Flush, HandleFailure,
         Handled, FlushFails, Crash, vars, streamVars, sentVars
<1>1. v # w
  BY DEF OthersIdle, Bulk, Buffer, Flush, Ready, HandleFailure, FlushFails
<1> QED  BY <1>1 DEF TypeOK, Bulk, Buffer, Flush, HandleFailure, Handled, FlushFails

(* A document that is under way can be moved, or all are stuck behind the  *)
(* full channel of documents to be tried again: no other circle of waits   *)
(* exists between the consumer, the loop and the workers.                  *)
THEOREM OnlyStuckBlocks ==
    ASSUME InCap > 0, RetryCap > 0
    PROVE  Spec => []OnlyStuck
<1>1. ASSUME TypeOK, OthersIdle, Memory \cup Readable # {}, ~ConsumerMoves, ~LoopMoves,
             \A w \in pool : ~BulkMoves(w)
      PROVE  Stuck
  <2>1. /\ input \in Seq(Docs) /\ retry \in Seq(Docs) /\ queue \in Seq(Docs)
        /\ Cardinality(pool) \in Nat /\ Cardinality(pool) # 0 /\ pool # {} /\ pool \subseteq Workers
    BY <1>1, Capacity, PoolsAssumption DEF TypeOK
  <2>2. \A s \in Seq(Docs) : Len(s) = 0 <=> s = <<>>
    BY EmptySeq
  <2>3. held # Nil
    <3> SUFFICES ASSUME held = Nil PROVE FALSE
      OBVIOUS
    <3>1. input = <<>> /\ retry = <<>>
      BY <1>1 DEF LoopMoves
    <3>2. Readable = {}
      BY <1>1, <3>1, EmptyChannel DEF ConsumerMoves, Has
    <3>3. PICK d : d \in Memory
      BY <1>1, <3>2
    <3>4. d \in Elems(queue) \/ \E w \in Workers : d \in Pending(w)
      BY <3>1, <3>3, EmptyChannel DEF Memory
    <3>5. ASSUME NEW w \in pool PROVE answers[w] = {} /\ queue = <<>> /\ buffer[w] = <<>>
      BY <1>1, <2>2, <3>1, EmptyChannel DEF BulkMoves, Has
    <3>6. ASSUME NEW w \in Workers PROVE answers[w] = {} /\ buffer[w] = <<>>
      BY <1>1, <3>5 DEF OthersIdle
    <3>7. queue = <<>>
      BY <2>1, <3>5
    <3> QED  BY <3>4, <3>6, <3>7, EmptyChannel DEF Pending
  <2>4. ~Has(queue, Cardinality(pool)) /\ queue # <<>>
    BY <1>1, <2>1, <2>2, <2>3 DEF LoopMoves, Has
  <2>5. \A w \in pool : answers[w] # {} /\ ~Has(retry, RetryCap)
    BY <1>1, <2>4 DEF BulkMoves
  <2> QED  BY <1>1, <2>1, <2>3, <2>4, <2>5 DEF Stuck
<1>2. TypeOK /\ OthersIdle => OnlyStuck
  BY <1>1 DEF OnlyStuck
<1>3. Init => OthersIdle
  BY DEF Init, OthersIdle
<1> QED  BY <1>2, <1>3, TypeInit, TypeStep, OthersStayIdle, PTL DEF Spec

(* Once stuck the sink stays so until the process is restarted, and        *)
(* OpenSearch gets nothing any more, whatever is ingested and delivered:   *)
(* what happens to documents then is that they expire.                     *)
THEOREM StuckStays ==
    Spec => [][Stuck /\ ~Crash => /\ Stuck' /\ UNCHANGED <<index, indexed, refused>>
                                  /\ \A c \in Causes \ {"age"} : UNCHANGED lost[c]]_vars
<1>1. ASSUME TypeOK, OthersIdle, Next, Stuck, ~Crash
      PROVE  /\ Stuck' /\ UNCHANGED <<index, indexed, refused>>
             /\ \A c \in Causes \ {"age"} : UNCHANGED lost[c]
  <2>1. ~Loop /\ ~TakeFails /\ \A w \in Workers : ~Bulk(w) /\ ~FlushFails(w)
    <3>1. \A w \in Workers : \/ answers[w] # {} /\ ~Has(retry, RetryCap)
                             \/ w \notin pool /\ answers[w] = {} /\ buffer[w] = <<>>
      BY <1>1 DEF Stuck, OthersIdle
    <3>2. ~Loop /\ ~TakeFails
      BY <1>1 DEF Stuck, Loop, TakeInput, TakeRetry, Add, TakeFails
    <3> QED  BY <3>1, <3>2 DEF Bulk, Buffer, Flush, Ready, HandleFailure, FlushFails
  <2>2. Ingest \/ IngestFails \/ Consumer \/ AckFails \/ AckWait \/ Expire
    BY <1>1, <2>1 DEF Next
  <2>3. UNCHANGED <<pool, held, queue, retry, answers, index, indexed, refused>>
    BY <2>2 DEF Ingest, IngestFails, Consumer, Deliver, Unmarshal, QueueDoc, AckFails, AckWait, Expire,
                indexVars, streamVars, sentVars
  <2>4. \A c \in Causes \ {"age"} : lost'[c] = lost[c]
    BY <1>1, <2>2 DEF Ingest, IngestFails, Consumer, Deliver, Unmarshal, QueueDoc, AckFails, AckWait, Expire,
                Lose, Causes, TypeOK
  <2> QED  BY <1>1, <2>3, <2>4 DEF Stuck
<1>2. Init => OthersIdle
  BY DEF Init, OthersIdle
<1> QED  BY <1>1, <1>2, TypeInit, TypeStep, OthersStayIdle, PTL DEF Spec
=============================================================================
