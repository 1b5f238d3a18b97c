---------------------------- MODULE PullV2Proofs ----------------------------
(***************************************************************************)
(* Proofs about PullV2 for every set of files, every buffer size and every *)
(* cursor a caller may send.                                               *)
(*                                                                         *)
(* The inductive invariant IInv says which sequence numbers the buffers    *)
(* and the batches handed out hold.  OInv adds where offsets stand: but    *)
(* for lines that a critical one overtook they grow with the sequence      *)
(* number in the buffer, from a batch to the records after it and to the   *)
(* lines on their way, and none is beyond what the collector has read; so  *)
(* the checkpoint stays clear of the buffer.  SInv follows every line that *)
(* was read until it is settled.                                           *)
(***************************************************************************)
EXTENDS PullV2, CollectionProofs

BatchNumbers(b) ==
    /\ b.next \in DOMAIN b.recs /\ b.next <= nextSeq[b.source]
    /\ \A q \in DOMAIN b.recs : q <= b.next

BufferNumbers(s) == committed[s] <= released[s] /\ released[s] <= nextSeq[s]

IInv ==
    /\ TypeOK
    /\ UnacknowledgedKept
    /\ \A s \in Files : BufferNumbers(s)
    /\ \A b \in pending : BatchNumbers(b)

-----------------------------------------------------------------------------
(* The initial state satisfies the inductive invariant. *)
LEMMA InitIInv == Init => IInv
<1> SUFFICES ASSUME Init PROVE IInv
  OBVIOUS
<1> USE DEF Init, CollectionInit, AtStart, Empty, NoLines
<1>1. TypeOK
  BY DEF TypeOK, CollectionTypeOK, IsRecordMap
<1>2. UnacknowledgedKept
  BY DEF UnacknowledgedKept
<1>3. \A s \in Files : BufferNumbers(s)
  BY DEF BufferNumbers
<1> QED BY <1>1, <1>2, <1>3 DEF IInv

(* Steps that leave the service alone keep what IInv says of it. *)
LEMMA ServiceUnchangedIInv ==
    ASSUME IInv, CollectionTypeOK', UNCHANGED <<nextSeq, committed, records, released>>,
           settled' \in [Files -> SUBSET Nat],
           batches' \in Nat, pending' \subseteq pending
    PROVE  IInv'
<1>1. TypeOK'
  BY DEF IInv, TypeOK, IsBatch
<1>2. UnacknowledgedKept' /\ \A s \in Files : BufferNumbers(s)'
  BY DEF IInv, UnacknowledgedKept, BufferNumbers
<1>3. \A b \in pending' : BatchNumbers(b)'
  BY DEF IInv, BatchNumbers
<1> QED BY <1>1, <1>2, <1>3 DEF IInv

(* The buffer after a group was appended: where it is defined, what it holds. *)
LEMMA AppendedBuffer ==
    ASSUME TypeOK, UnacknowledgedKept, NEW s \in Files, BufferNumbers(s),
           NEW group \in Seq(Nat)
    PROVE  /\ DOMAIN Appended(s, group) = (released[s] + 1) .. (nextSeq[s] + Len(group))
           /\ \A q \in DOMAIN Appended(s, group) :
                 \/ q \in DOMAIN records[s] /\ Appended(s, group)[q] = records[s][q]
                 \/ /\ q \notin DOMAIN records[s] /\ q - nextSeq[s] \in 1 .. Len(group)
                    /\ Appended(s, group)[q] = group[q - nextSeq[s]]
           /\ IsRecordMap(Appended(s, group))
<1>1. /\ nextSeq[s] \in Nat /\ released[s] \in Nat /\ released[s] <= nextSeq[s]
      /\ Len(group) \in Nat /\ IsRecordMap(records[s])
      /\ DOMAIN records[s] = (released[s] + 1) .. nextSeq[s]
  BY LenProperties DEF TypeOK, BufferNumbers, UnacknowledgedKept
<1>2. DOMAIN Appended(s, group) = (released[s] + 1) .. (nextSeq[s] + Len(group))
  BY <1>1 DEF Appended
<1>3. ASSUME NEW q \in DOMAIN Appended(s, group)
      PROVE  \/ q \in DOMAIN records[s] /\ Appended(s, group)[q] = records[s][q]
             \/ /\ q \notin DOMAIN records[s] /\ q - nextSeq[s] \in 1 .. Len(group)
                /\ Appended(s, group)[q] = group[q - nextSeq[s]]
  BY <1>1, <1>2 DEF Appended
<1>4. \A q \in DOMAIN Appended(s, group) : Appended(s, group)[q] \in Nat
  BY <1>1, <1>3, ElementOfSeq DEF IsRecordMap
<1>5. Appended(s, group) = [q \in DOMAIN Appended(s, group) |-> Appended(s, group)[q]]
  BY DEF Appended
<1>6. Appended(s, group) \in [DOMAIN Appended(s, group) -> Nat]
  BY <1>4, <1>5
<1>7. DOMAIN Appended(s, group) \subseteq Nat
  BY <1>1, <1>2
<1> QED BY <1>2, <1>3, <1>6, <1>7 DEF IsRecordMap

(* Appending a group numbers its records after everything buffered; a group  *)
(* that does not fit changes nothing in the service.                         *)
LEMMA AppendIInv ==
    ASSUME IInv, NEW s \in Files, AppendGroup(s)
    PROVE  IInv'
<1> DEFINE group == Waiting(s)
<1>t. TypeOK /\ CollectionTypeOK /\ UnacknowledgedKept /\ BufferNumbers(s)
  BY DEF IInv, TypeOK
<1>1. CollectionTypeOK' /\ group \in Seq(Nat)
  BY <1>t, TakeType DEF AppendGroup
<1>2. UNCHANGED <<committed, pending, batches, released>>
  BY DEF AppendGroup
<1>3. CASE ~Fits(s, Len(group))
  <2>1. UNCHANGED <<nextSeq, records>>
    BY <1>3 DEF AppendGroup
  <2>2. settled' = [settled EXCEPT ![s] = @ \cup {group[i] : i \in DOMAIN group}]
    BY <1>3 DEF AppendGroup
  <2>3. {group[i] : i \in DOMAIN group} \subseteq Nat
    BY <1>1
  <2>4. settled' \in [Files -> SUBSET Nat]
    BY <1>t, <2>2, <2>3 DEF TypeOK
  <2> QED BY <1>t, <1>1, <1>2, <2>1, <2>4, ServiceUnchangedIInv DEF TypeOK
<1>4. CASE Fits(s, Len(group))
  <2> DEFINE buffer == Appended(s, group)
  <2>1. /\ nextSeq' = [nextSeq EXCEPT ![s] = @ + Len(group)]
        /\ records' = [records EXCEPT ![s] = buffer]
        /\ UNCHANGED settled
    BY <1>4 DEF AppendGroup
  <2>2. Len(group) \in Nat
    BY <1>1, LenProperties
  <2>3. /\ DOMAIN buffer = (released[s] + 1) .. (nextSeq[s] + Len(group))
        /\ IsRecordMap(buffer)
    BY <1>t, <1>1, AppendedBuffer
  <2> HIDE DEF buffer
  <2>4. \A x \in Files : /\ nextSeq'[x] = IF x = s THEN nextSeq[x] + Len(group) ELSE nextSeq[x]
                         /\ records'[x] = IF x = s THEN buffer ELSE records[x]
    BY <1>t, <2>1 DEF TypeOK
  <2>5. TypeOK'
    <3>1. records' = [x \in Files |-> records'[x]]
      BY <1>t, <2>1 DEF TypeOK
    <3>2. \A x \in Files : IsRecordMap(records'[x])
      BY <1>t, <2>3, <2>4 DEF TypeOK
    <3>3. nextSeq' \in [Files -> Nat]
      BY <1>t, <2>1, <2>2 DEF TypeOK
    <3> QED BY <1>t, <1>1, <1>2, <2>1, <3>1, <3>2, <3>3 DEF TypeOK, IsBatch
  <2>6. UnacknowledgedKept'
    <3> SUFFICES ASSUME NEW x \in Files
                 PROVE  DOMAIN records'[x] = (released'[x] + 1) .. nextSeq'[x]
      BY DEF UnacknowledgedKept
    <3>1. CASE x = s
      BY <1>2, <2>3, <2>4, <3>1
    <3>2. CASE x # s
      BY <1>t, <1>2, <2>4, <3>2 DEF UnacknowledgedKept
    <3> QED BY <3>1, <3>2
  <2>7. ASSUME NEW x \in Files PROVE nextSeq[x] \in Nat /\ nextSeq'[x] \in Nat /\ nextSeq[x] <= nextSeq'[x]
    BY <1>t, <2>2, <2>4 DEF TypeOK
  <2>8. \A x \in Files : BufferNumbers(x)'
    BY <1>t, <1>2, <2>7 DEF IInv, BufferNumbers, TypeOK
  <2>9. \A b \in pending' : BatchNumbers(b)'
    BY <1>t, <1>2, <2>7 DEF IInv, BatchNumbers, TypeOK, IsBatch
  <2> QED BY <2>5, <2>6, <2>8, <2>9 DEF IInv
<1> QED BY <1>3, <1>4

(* Pulling only adds a batch of buffered records that ends at its cursor. *)
LEMMA PullIInv ==
    ASSUME IInv, NEW s \in Files, NEW cursor \in Cursors, NEW max \in PullSizes,
           Pull(s, cursor, max)
    PROVE  IInv'
<1> DEFINE chosen == Selected(s, StartCursor(s, cursor), max)
<1>t. TypeOK
  BY DEF IInv
<1>u. UNCHANGED <<nextSeq, committed, records, released, settled, collectionVars>>
  BY DEF Pull
<1>c. CollectionTypeOK'
  BY <1>t, <1>u DEF TypeOK, CollectionTypeOK, collectionVars
<1>1. CASE UNCHANGED <<pending, batches>>
  BY <1>t, <1>u, <1>c, <1>1, ServiceUnchangedIInv DEF TypeOK
<1>2. ASSUME NEW last \in chosen, \A q \in chosen : q <= last, batches' = batches + 1,
             pending' = pending \cup
                {[id |-> batches', source |-> s, next |-> last,
                  recs |-> [q \in chosen |-> records[s][q]]]}
      PROVE  IInv'
  <2> DEFINE new == [id |-> batches', source |-> s, next |-> last,
                     recs |-> [q \in chosen |-> records[s][q]]]
  <2>1. IsRecordMap(records[s]) /\ chosen \subseteq DOMAIN records[s]
    BY <1>t DEF TypeOK, Selected
  <2>2. last \in Nat /\ last <= nextSeq[s]
    BY <1>t, <1>2, <2>1 DEF IInv, UnacknowledgedKept, TypeOK
  <2>3. IsRecordMap(new.recs)
    BY <2>1 DEF IsRecordMap
  <2>4. IsBatch(new) /\ BatchNumbers(new)
    BY <1>t, <1>2, <2>2, <2>3 DEF IsBatch, BatchNumbers, TypeOK
  <2>5. TypeOK'
    BY <1>t, <1>u, <1>c, <1>2, <2>4 DEF TypeOK, IsBatch
  <2>6. \A b \in pending' : BatchNumbers(b)'
    BY <1>u, <1>2, <2>4 DEF IInv, BatchNumbers
  <2>7. UnacknowledgedKept' /\ \A x \in Files : BufferNumbers(x)'
    BY <1>u DEF IInv, UnacknowledgedKept, BufferNumbers
  <2> QED BY <2>5, <2>6, <2>7 DEF IInv
<1> QED BY <1>1, <1>2 DEF Pull

(* Acknowledging a batch, however late, gives up only records at or below   *)
(* its cursor.                                                              *)
LEMMA AckIInv ==
    ASSUME IInv, NEW b \in pending, Ack(b)
    PROVE  IInv'
<1> DEFINE s == b.source
           kept == PruneCommitted(records[s], b.next)
<1>t. TypeOK /\ UnacknowledgedKept
  BY DEF IInv
<1>b. s \in Files /\ b.next \in Nat /\ IsRecordMap(b.recs) /\ BatchNumbers(b)
  BY <1>t DEF IInv, TypeOK, IsBatch
<1>n. nextSeq[s] \in Nat /\ released[s] \in Nat /\ IsRecordMap(records[s]) /\ BufferNumbers(s)
  BY <1>b, <1>t DEF TypeOK, IInv
<1>1. UNCHANGED <<read, hot, rest, disk, crashes, nextSeq, batches>>
  BY DEF Ack
<1>2. CollectionTypeOK'
  <2>1. {b.recs[q] : q \in DOMAIN b.recs} \subseteq Nat
    BY <1>b DEF IsRecordMap
  <2>2. saved' \in [Files -> Nat]
    BY <1>t, <2>1 DEF Ack, SavePosition, LatestOffset, TypeOK, CollectionTypeOK
  <2> QED BY <1>t, <1>1, <2>2 DEF TypeOK, CollectionTypeOK
<1>3. /\ committed' = [committed EXCEPT ![s] = b.next]
      /\ records' = [records EXCEPT ![s] = kept]
      /\ released' = [released EXCEPT ![s] = Larger(released[s], b.next)]
      /\ pending' = pending \ {b}
  BY DEF Ack, CommittedAfterAck
<1>4. settled' \in [Files -> SUBSET Nat]
  BY <1>t, <1>b DEF Ack, TypeOK, IsRecordMap
<1>5. Larger(released[s], b.next) \in Nat /\ b.next <= Larger(released[s], b.next)
      /\ Larger(released[s], b.next) <= nextSeq[s]
  BY <1>b, <1>n DEF Larger, BufferNumbers, BatchNumbers
<1>6. DOMAIN kept = (Larger(released[s], b.next) + 1) .. nextSeq[s]
  <2>1. DOMAIN records[s] = (released[s] + 1) .. nextSeq[s]
    BY <1>b, <1>t DEF UnacknowledgedKept
  <2> QED BY <1>b, <1>n, <2>1 DEF Larger, PruneCommitted
<1>7. IsRecordMap(kept)
  BY <1>n DEF IsRecordMap, PruneCommitted
<1> HIDE DEF kept
<1>8. \A x \in Files :
         /\ committed'[x] = IF x = s THEN b.next ELSE committed[x]
         /\ released'[x] = IF x = s THEN Larger(released[x], b.next) ELSE released[x]
         /\ records'[x] = IF x = s THEN kept ELSE records[x]
  BY <1>t, <1>3 DEF TypeOK
<1>9. TypeOK'
  <2>1. records' = [x \in Files |-> records'[x]]
    BY <1>t, <1>3 DEF TypeOK
  <2>2. \A x \in Files : IsRecordMap(records'[x])
    BY <1>t, <1>7, <1>8 DEF TypeOK
  <2>3. committed' \in [Files -> Nat] /\ released' \in [Files -> Nat]
    BY <1>t, <1>b, <1>3, <1>5 DEF TypeOK
  <2> QED BY <1>t, <1>1, <1>2, <1>3, <1>4, <2>1, <2>2, <2>3 DEF TypeOK, IsBatch
<1>10. UnacknowledgedKept'
  <2> SUFFICES ASSUME NEW x \in Files
               PROVE  DOMAIN records'[x] = (released'[x] + 1) .. nextSeq'[x]
    BY DEF UnacknowledgedKept
  <2>1. CASE x = s
    BY <1>1, <1>6, <1>8, <2>1
  <2>2. CASE x # s
    BY <1>t, <1>1, <1>8, <2>2 DEF UnacknowledgedKept
  <2> QED BY <2>1, <2>2
<1>11. \A x \in Files : BufferNumbers(x)'
  BY <1>1, <1>5, <1>8 DEF IInv, BufferNumbers
<1>12. \A c \in pending' : BatchNumbers(c)'
  BY <1>1, <1>3 DEF IInv, BatchNumbers
<1> QED BY <1>9, <1>10, <1>11, <1>12 DEF IInv

(* A restart leaves an empty service. *)
LEMMA CrashIInv == IInv /\ Crash => IInv'
<1> SUFFICES ASSUME IInv, Crash PROVE IInv'
  OBVIOUS
<1>1. CollectionTypeOK'
  BY RestartType DEF IInv, TypeOK, Crash
<1>2. TypeOK'
  BY <1>1 DEF IInv, Crash, TypeOK, IsRecordMap, AtStart, Empty
<1>3. UnacknowledgedKept' /\ \A s \in Files : BufferNumbers(s)'
  BY DEF Crash, UnacknowledgedKept, BufferNumbers, AtStart, Empty
<1>4. pending' = {}
  BY DEF Crash
<1> QED BY <1>2, <1>3, <1>4 DEF IInv

(* Every step of the service keeps the inductive invariant. *)
LEMMA NextIInv == IInv /\ [Next]_vars => IInv'
<1> SUFFICES ASSUME IInv, [Next]_vars PROVE IInv'
  OBVIOUS
<1>t. TypeOK /\ CollectionTypeOK
  BY DEF IInv, TypeOK
<1>1. ASSUME NEW s \in Files, NEW n \in ScanSizes, Collect(s, n) PROVE IInv'
  <2>1. CollectionTypeOK'
    BY <1>t, <1>1, ScanType DEF Collect
  <2> QED BY <1>t, <1>1, <2>1, ServiceUnchangedIInv DEF Collect, serviceVars, TypeOK
<1>2. ASSUME NEW b \in pending, Nack(b) PROVE IInv'
  <2>1. CollectionTypeOK'
    BY <1>t, <1>2 DEF Nack, CollectionTypeOK, collectionVars
  <2> QED BY <1>t, <1>2, <2>1, ServiceUnchangedIInv DEF Nack, TypeOK
<1>3. ASSUME Flush PROVE IInv'
  <2>1. CollectionTypeOK'
    BY <1>t, <1>3 DEF Flush, FlushPositions, CollectionTypeOK
  <2> QED BY <1>t, <1>3, <2>1, ServiceUnchangedIInv DEF Flush, serviceVars, TypeOK
<1>4. ASSUME UNCHANGED vars PROVE IInv'
  <2>1. CollectionTypeOK'
    BY <1>t, <1>4 DEF vars, collectionVars, CollectionTypeOK
  <2> QED BY <1>t, <1>4, <2>1, ServiceUnchangedIInv DEF vars, serviceVars, TypeOK
<1> QED BY <1>1, <1>2, <1>3, <1>4, AppendIInv, PullIInv, AckIInv, CrashIInv DEF Next

(* The inductive invariant holds throughout. *)
LEMMA SpecIInv == Spec => []IInv
  BY InitIInv, NextIInv, PTL DEF Spec

-----------------------------------------------------------------------------
(* Types: sequence numbers, offsets and buffers stay what the code declares. *)
THEOREM TypeCorrect == Spec => []TypeOK
<1>1. IInv => TypeOK
  BY DEF IInv
<1> QED BY <1>1, SpecIInv, PTL

(* No record leaves a buffer before a caller acknowledged a cursor at or     *)
(* above it, in any interleaving of pulls, acks, nacks and restarts.         *)
THEOREM UnacknowledgedRecordsAreKept == Spec => []UnacknowledgedKept
<1>1. IInv => UnacknowledgedKept
  BY DEF IInv
<1> QED BY <1>1, SpecIInv, PTL

(* A pull without a cursor starts below every buffered record even after     *)
(* acknowledgements arrived out of order.                                    *)
THEOREM DefaultCursorIsSafe == Spec => []DefaultCursorSkipsNothing
<1>1. IInv => DefaultCursorSkipsNothing
  BY DEF IInv, UnacknowledgedKept, BufferNumbers, DefaultCursorSkipsNothing, TypeOK
<1> QED BY <1>1, SpecIInv, PTL

-----------------------------------------------------------------------------
(* The initial buffers are an empty log. *)
LEMMA InitLog == Init => Log!Init
  BY DEF Init, AtStart, Log!Init

(* A group appended extends the log of its source, within the capacity. *)
LEMMA AppendLog ==
    ASSUME IInv, NEW s \in Files, AppendGroup(s)
    PROVE  Log!Extend(s) \/ UNCHANGED <<released, nextSeq>>
<1> DEFINE group == Waiting(s)
<1>t. TypeOK /\ CollectionTypeOK /\ BufferNumbers(s)
  BY DEF IInv, TypeOK
<1>1. group \in Seq(Nat) /\ group # <<>> /\ released' = released
  BY <1>t, TakeType DEF AppendGroup, Take
<1>2. Len(group) \in Nat /\ Len(group) > 0
  BY <1>1, LenProperties, EmptySeq
<1>3. nextSeq[s] \in Nat /\ released[s] \in Nat /\ released[s] <= nextSeq[s]
  BY <1>t DEF TypeOK, BufferNumbers
<1> HIDE DEF group
<1>4. CASE Fits(s, Len(group))
  <2>1. nextSeq' = [nextSeq EXCEPT ![s] = @ + Len(group)]
    BY <1>4 DEF AppendGroup, group
  <2>2. nextSeq'[s] = nextSeq[s] + Len(group)
    BY <1>t, <2>1 DEF TypeOK
  <2>3. nextSeq' = [nextSeq EXCEPT ![s] = nextSeq'[s]]
    BY <2>1, <2>2
  <2>4. DOMAIN records[s] = (released[s] + 1) .. nextSeq[s]
    BY DEF IInv, UnacknowledgedKept
  <2>5. released[s] + 1 \in Int /\ nextSeq[s] \in Int
    BY <1>3
  <2>6. Cardinality(DOMAIN records[s]) = nextSeq[s] - released[s]
    <3>1. Cardinality((released[s] + 1) .. nextSeq[s])
             = IF released[s] + 1 > nextSeq[s] THEN 0 ELSE nextSeq[s] - (released[s] + 1) + 1
      BY <2>5, FS_Interval
    <3>2. @ = nextSeq[s] - released[s]
      BY <1>3
    <3> QED BY <2>4, <3>1, <3>2
  <2>7. nextSeq[s] < nextSeq'[s] /\ nextSeq'[s] <= released[s] + MaxBuffered
    BY <1>2, <1>3, <1>4, <2>2, <2>6, PullV2Assumption DEF Fits
  <2> QED BY <1>1, <2>3, <2>7 DEF Log!Extend
<1>5. CASE ~Fits(s, Len(group))
  BY <1>1, <1>5 DEF AppendGroup, group
<1> QED BY <1>4, <1>5

(* An acknowledgement releases up to its cursor, or nothing when it is late. *)
LEMMA AckLog ==
    ASSUME IInv, NEW b \in pending, Ack(b)
    PROVE  Log!Release(b.source) \/ UNCHANGED <<released, nextSeq>>
<1> DEFINE s == b.source
<1>1. /\ s \in Files /\ b.next \in Nat /\ b.next <= nextSeq[s]
      /\ released \in [Files -> Nat] /\ released[s] \in Nat
  BY DEF IInv, TypeOK, IsBatch, BatchNumbers
<1>2. nextSeq' = nextSeq /\ released' = [released EXCEPT ![s] = Larger(released[s], b.next)]
  BY DEF Ack
<1>3. CASE b.next > released[s]
  <2>1. Larger(released[s], b.next) = b.next
    BY <1>1, <1>3 DEF Larger
  <2>2. released'[s] = b.next
    BY <1>1, <1>2, <2>1
  <2>3. released' = [released EXCEPT ![s] = released'[s]]
    BY <1>2, <2>1, <2>2
  <2> QED BY <1>1, <1>2, <1>3, <2>2, <2>3 DEF Log!Release
<1>4. CASE ~(b.next > released[s])
  <2>1. Larger(released[s], b.next) = released[s]
    BY <1>1, <1>4 DEF Larger
  <2> QED BY <1>1, <1>2, <2>1
<1> QED BY <1>3, <1>4

(* The service implements the bounded log: every step extends it, releases   *)
(* part of it, restarts it or leaves it alone.                               *)
THEOREM ServiceImplementsLog == Spec => ImplementsLog
<1>1. IInv /\ [Next]_vars => [Log!Next]_<<released, nextSeq>>
  <2> SUFFICES ASSUME IInv, [Next]_vars PROVE [Log!Next]_<<released, nextSeq>>
    OBVIOUS
  <2>1. ASSUME NEW s \in Files, AppendGroup(s) PROVE [Log!Next]_<<released, nextSeq>>
    BY <2>1, AppendLog DEF Log!Next
  <2>2. ASSUME NEW b \in pending, Ack(b) PROVE [Log!Next]_<<released, nextSeq>>
    <3>1. b.source \in Files
      BY <2>2 DEF IInv, TypeOK, IsBatch
    <3> QED BY <2>2, <3>1, AckLog DEF Log!Next
  <2>3. ASSUME Crash PROVE [Log!Next]_<<released, nextSeq>>
    BY <2>3 DEF Crash, AtStart, Log!Next, Log!Restart
  <2>4. ASSUME NEW s \in Files, NEW n \in ScanSizes, Collect(s, n)
        PROVE  UNCHANGED <<released, nextSeq>>
    BY <2>4 DEF Collect, serviceVars
  <2>5. ASSUME NEW s \in Files, NEW cursor \in Cursors, NEW max \in PullSizes,
               Pull(s, cursor, max)
        PROVE  UNCHANGED <<released, nextSeq>>
    BY <2>5 DEF Pull
  <2>6. ASSUME NEW b \in pending, Nack(b) PROVE UNCHANGED <<released, nextSeq>>
    BY <2>6 DEF Nack
  <2>7. Flush \/ UNCHANGED vars => UNCHANGED <<released, nextSeq>>
    BY DEF Flush, vars, serviceVars
  <2> QED BY <2>1, <2>2, <2>3, <2>4, <2>5, <2>6, <2>7 DEF Next
<1> QED BY <1>1, InitLog, SpecIInv, PTL DEF Spec, ImplementsLog, Log!Spec

-----------------------------------------------------------------------------
(***************************************************************************)
(* Where offsets stand: a file reaches the service in its own order, but   *)
(* for the critical lines.                                                 *)
(***************************************************************************)

\* A passed offset ahead of every buffered record: a crash may restart from it.
Clear(s, o) == Passed(s, o) /\ \A q \in DOMAIN records[s] : Ahead(o, records[s][q])

BufferOffsets(s) ==
    /\ \A q \in DOMAIN records[s] : Passed(s, records[s][q])
    /\ \A p, q \in DOMAIN records[s] : p < q => Ahead(records[s][p], records[s][q])

BatchOffsets(b) ==
    \A p \in DOMAIN b.recs :
       /\ Passed(b.source, b.recs[p])
       /\ \A q \in DOMAIN records[b.source] : b.next < q => Ahead(b.recs[p], records[b.source][q])

OInv ==
    /\ \A s \in Files : GroupsInOrder(s) /\ BufferOffsets(s) /\ Clear(s, saved[s]) /\ Clear(s, disk[s])
    /\ \A b \in pending : BatchOffsets(b)

\* The critical lines do not change.
LEMMA AheadConstant == \A o, n : Ahead(o, n) <=> Ahead(o, n)'
  BY DEF Ahead, Overtaken

(* Offsets are numbers. *)
LEMMA OffsetsAreNumbers ==
    ASSUME TypeOK
    PROVE  /\ \A s \in Files : saved[s] \in Nat /\ disk[s] \in Nat /\ read[s] \in Nat
           /\ \A s \in Files : \A q \in DOMAIN records[s] : q \in Nat /\ records[s][q] \in Nat
           /\ \A b \in pending : b.source \in Files /\ b.next \in Nat
           /\ \A b \in pending : \A p \in DOMAIN b.recs : p \in Nat /\ b.recs[p] \in Nat
  BY DEF TypeOK, CollectionTypeOK, IsBatch, IsRecordMap

(* Everything starts at offset 0 with empty buffers. *)
LEMMA InitOInv == Init => OInv
<1> SUFFICES ASSUME Init PROVE OInv
  OBVIOUS
<1>1. \A s \in Files : DOMAIN records[s] = {}
  BY DEF Init, Empty
<1>2. \A s \in Files : GroupsInOrder(s) /\ Passed(s, saved[s]) /\ Passed(s, disk[s])
  BY InitInOrder DEF Init
<1>3. pending = {}
  BY DEF Init
<1> QED BY <1>1, <1>2, <1>3 DEF OInv, BufferOffsets, Clear

(* A step that leaves the buffer alone and only makes lines wait further back. *)
LEMMA LaterLinesOInv ==
    ASSUME IInv, OInv, UNCHANGED <<records, saved, disk, pending>>,
           \A s \in Files : GroupsInOrder(s)',
           \A s \in Files : \A o \in Nat : Passed(s, o) => Passed(s, o)'
    PROVE  OInv'
<1>1. /\ \A s \in Files : saved[s] \in Nat /\ disk[s] \in Nat
      /\ \A s \in Files : \A q \in DOMAIN records[s] : records[s][q] \in Nat
      /\ \A b \in pending : b.source \in Files
      /\ \A b \in pending : \A p \in DOMAIN b.recs : b.recs[p] \in Nat
  BY OffsetsAreNumbers DEF IInv
<1>2. \A s \in Files : BufferOffsets(s)' /\ Clear(s, saved[s])' /\ Clear(s, disk[s])'
  BY <1>1, AheadConstant DEF OInv, BufferOffsets, Clear
<1>3. \A b \in pending' : BatchOffsets(b)'
  BY <1>1, AheadConstant DEF OInv, BatchOffsets
<1> QED BY <1>2, <1>3 DEF OInv

LEMMA CollectOInv ==
    ASSUME IInv, OInv, NEW s \in Files, NEW n \in ScanSizes, Collect(s, n)
    PROVE  OInv'
<1>1. UNCHANGED <<records, saved, disk, pending>> /\ CollectionTypeOK /\ Scan(s, n)
  BY DEF Collect, Scan, serviceVars, IInv, TypeOK
<1>2. \A e \in Files : GroupsInOrder(e)
  BY DEF OInv
<1> QED BY <1>1, <1>2, ScanInOrder, LaterLinesOInv

(* A group appended comes after all its source has buffered and handed out. *)
LEMMA AppendOInv ==
    ASSUME IInv, OInv, NEW s \in Files, AppendGroup(s)
    PROVE  OInv'
<1> DEFINE group == Waiting(s)
           buffer == Appended(s, group)
<1>t. TypeOK /\ CollectionTypeOK /\ UnacknowledgedKept /\ BufferNumbers(s)
      /\ \A e \in Files : GroupsInOrder(e)
  BY DEF IInv, TypeOK, OInv
<1>1. Take(s) /\ group \in Seq(Nat) /\ UNCHANGED <<read, saved, disk, pending>>
  BY <1>t, TakeType DEF AppendGroup, Take
<1>2. /\ \A e \in Files : GroupsInOrder(e)'
      /\ \A e \in Files : \A o \in Nat : Passed(e, o) => Passed(e, o)'
      /\ Increasing(group)
      /\ \A m \in Nat : InGroup(group, m) => Passed(s, m)'
  BY <1>t, <1>1, TakeInOrder
<1>3. CASE UNCHANGED records
  BY <1>1, <1>2, <1>3, LaterLinesOInv
<1>4. CASE records' = [records EXCEPT ![s] = buffer]
  <2>1. /\ DOMAIN buffer = (released[s] + 1) .. (nextSeq[s] + Len(group))
        /\ \A q \in DOMAIN buffer :
              \/ q \in DOMAIN records[s] /\ buffer[q] = records[s][q]
              \/ /\ q \notin DOMAIN records[s] /\ q - nextSeq[s] \in 1 .. Len(group)
                 /\ buffer[q] = group[q - nextSeq[s]]
    BY <1>t, <1>1, AppendedBuffer
  <2>2. /\ DOMAIN records[s] = (released[s] + 1) .. nextSeq[s]
        /\ nextSeq[s] \in Nat /\ released[s] \in Nat /\ released[s] <= nextSeq[s]
    BY <1>t DEF UnacknowledgedKept, TypeOK, BufferNumbers
  <2>3. \A e \in Files : records'[e] = IF e = s THEN buffer ELSE records[e]
    BY <1>t, <1>4 DEF TypeOK
  <2> HIDE DEF buffer, group
  <2>4. /\ \A e \in Files : saved[e] \in Nat /\ disk[e] \in Nat
        /\ \A e \in Files : \A q \in DOMAIN records[e] : records[e][q] \in Nat
        /\ \A b \in pending : b.source \in Files /\ b.next \in Nat
        /\ \A b \in pending : \A p \in DOMAIN b.recs : b.recs[p] \in Nat
    BY <1>t, OffsetsAreNumbers
  <2>5. \A i \in 1 .. Len(group) : group[i] \in Nat /\ InGroup(group, group[i])
    BY <1>1, ElementOfSeq DEF InGroup
  <2>6. ASSUME NEW o \in Nat, NEW e \in Files, Clear(e, o) PROVE Clear(e, o)'
    <3>1. CASE e = s
      <4>1. ASSUME NEW q \in DOMAIN buffer PROVE Ahead(o, buffer[q])
        <5>1. CASE q \in DOMAIN records[s] /\ buffer[q] = records[s][q]
          BY <2>6, <3>1, <5>1 DEF Clear
        <5>2. CASE q - nextSeq[s] \in 1 .. Len(group) /\ buffer[q] = group[q - nextSeq[s]]
          <6>1. Waits(s, buffer[q]) /\ buffer[q] \in Nat
            BY <1>t, <1>1, <2>5, <5>2, TakeWaits DEF group
          <6> QED BY <2>6, <3>1, <6>1 DEF Clear, Passed
        <5> QED BY <2>1, <5>1, <5>2
      <4> QED BY <1>2, <2>3, <2>6, <3>1, <4>1, AheadConstant DEF Clear
    <3>2. CASE e # s
      BY <1>2, <2>3, <2>6, <3>2, AheadConstant DEF Clear
    <3> QED BY <3>1, <3>2
  <2>7. ASSUME NEW q \in DOMAIN buffer, NEW o, o = buffer[q] PROVE Passed(s, o)'
    <3>1. CASE q \in DOMAIN records[s] /\ buffer[q] = records[s][q]
      <4>1. o \in Nat /\ Passed(s, o)
        BY <2>4, <2>7, <3>1 DEF OInv, BufferOffsets
      <4> QED BY <1>2, <4>1
    <3>2. CASE q - nextSeq[s] \in 1 .. Len(group) /\ buffer[q] = group[q - nextSeq[s]]
      <4>1. o \in Nat /\ InGroup(group, o)
        BY <2>5, <2>7, <3>2
      <4> QED BY <1>2, <4>1
    <3> QED BY <2>1, <3>1, <3>2
  <2>8. ASSUME NEW p \in DOMAIN buffer, NEW q \in DOMAIN buffer, p < q
        PROVE  Ahead(buffer[p], buffer[q])
    <3>1. CASE p \in DOMAIN records[s] /\ q \in DOMAIN records[s]
      BY <2>1, <2>2, <2>8, <3>1 DEF OInv, BufferOffsets
    <3>2. CASE p \in DOMAIN records[s] /\ q \notin DOMAIN records[s]
      <4>1. Passed(s, records[s][p]) /\ buffer[p] = records[s][p]
        BY <2>1, <2>2, <3>2 DEF OInv, BufferOffsets
      <4>2. buffer[q] \in Nat /\ Waits(s, buffer[q])
        BY <1>t, <1>1, <2>1, <2>5, <3>2, TakeWaits DEF group
      <4> QED BY <4>1, <4>2 DEF Passed
    <3>3. CASE p \notin DOMAIN records[s]
      <4>1. p \in Int /\ q \in Int /\ q \notin DOMAIN records[s]
        BY <2>1, <2>2, <2>8, <3>3
      <4>2. p - nextSeq[s] < q - nextSeq[s]
        BY <2>2, <2>8, <4>1
      <4> QED BY <1>2, <2>1, <3>3, <4>1, <4>2 DEF Increasing, Ahead
    <3> QED BY <3>1, <3>2, <3>3
  <2>9. \A e \in Files : BufferOffsets(e)'
    <3> SUFFICES ASSUME NEW e \in Files PROVE BufferOffsets(e)'
      OBVIOUS
    <3>1. CASE e = s
      <4>1. \A q \in DOMAIN records'[s] : Passed(s, records[s][q])'
        BY <2>3, <2>7
      <4>2. \A x, q \in DOMAIN records'[s] : x < q => Ahead(records'[s][x], records'[s][q])
        BY <2>3, <2>8
      <4> QED BY <3>1, <4>1, <4>2, AheadConstant DEF BufferOffsets
    <3>2. CASE e # s
      BY <1>2, <2>3, <2>4, <3>2, AheadConstant DEF OInv, BufferOffsets
    <3> QED BY <3>1, <3>2
  <2>10. ASSUME NEW b \in pending PROVE BatchOffsets(b)'
    <3>1. BatchOffsets(b) /\ b.source \in Files /\ \A p \in DOMAIN b.recs : b.recs[p] \in Nat
      BY <2>4 DEF OInv
    <3>2. \A p \in DOMAIN b.recs : Passed(b.source, b.recs[p])'
      BY <1>2, <3>1 DEF BatchOffsets
    <3>3. CASE b.source = s
      <4>1. ASSUME NEW p \in DOMAIN b.recs, NEW q \in DOMAIN buffer, b.next < q
            PROVE  Ahead(b.recs[p], buffer[q])
        <5>1. CASE q \in DOMAIN records[s] /\ buffer[q] = records[s][q]
          BY <3>1, <3>3, <4>1, <5>1 DEF BatchOffsets
        <5>2. CASE q - nextSeq[s] \in 1 .. Len(group) /\ buffer[q] = group[q - nextSeq[s]]
          <6>1. buffer[q] \in Nat /\ Waits(s, buffer[q])
            BY <1>t, <1>1, <2>5, <5>2, TakeWaits DEF group
          <6> QED BY <3>1, <3>3, <6>1 DEF BatchOffsets, Passed
        <5> QED BY <2>1, <5>1, <5>2
      <4> QED BY <2>3, <3>2, <3>3, <4>1, AheadConstant DEF BatchOffsets
    <3>4. CASE b.source # s
      BY <2>3, <3>1, <3>2, <3>4, AheadConstant DEF BatchOffsets
    <3> QED BY <3>3, <3>4
  <2>11. \A e \in Files : Clear(e, saved[e])' /\ Clear(e, disk[e])'
    BY <1>1, <2>4, <2>6 DEF OInv
  <2> QED BY <1>1, <1>2, <2>9, <2>10, <2>11 DEF OInv
<1> QED BY <1>3, <1>4 DEF AppendGroup

(* A batch handed out takes the lowest buffered records above its start. *)
LEMMA PullOInv ==
    ASSUME IInv, OInv, NEW s \in Files, NEW cursor \in Cursors, NEW max \in PullSizes,
           Pull(s, cursor, max)
    PROVE  OInv'
<1> DEFINE chosen == Selected(s, StartCursor(s, cursor), max)
<1>1. UNCHANGED <<read, hot, rest, saved, disk, records>>
  BY DEF Pull, collectionVars
<1>2. \A x \in Files : /\ GroupsInOrder(x)' /\ BufferOffsets(x)'
                       /\ Clear(x, saved[x])' /\ Clear(x, disk[x])'
  BY <1>1, AheadConstant DEF OInv, GroupsInOrder, BufferOffsets, Clear, Passed, Waits
<1>3. \A b \in pending : BatchOffsets(b)'
  BY <1>1, AheadConstant DEF OInv, BatchOffsets, Passed, Waits
<1>4. CASE UNCHANGED <<pending, batches>>
  BY <1>2, <1>3, <1>4 DEF OInv
<1>5. ASSUME NEW last \in chosen, \A q \in chosen : q <= last,
             pending' = pending \cup
                {[id |-> batches', source |-> s, next |-> last,
                  recs |-> [q \in chosen |-> records[s][q]]]}
      PROVE  OInv'
  <2> DEFINE new == [id |-> batches', source |-> s, next |-> last,
                     recs |-> [q \in chosen |-> records[s][q]]]
  <2>1. chosen \subseteq DOMAIN records[s] /\ DOMAIN records[s] \subseteq Nat /\ BufferOffsets(s)
    BY DEF Selected, IInv, TypeOK, IsRecordMap, OInv
  <2>2. ASSUME NEW p \in chosen, NEW q \in DOMAIN records[s], last < q
        PROVE  Ahead(records[s][p], records[s][q])
    <3>1. p < q /\ p \in DOMAIN records[s]
      BY <1>5, <2>1, <2>2
    <3> QED BY <2>1, <3>1 DEF BufferOffsets
  <2>3. \A p \in chosen : Passed(s, records[s][p])
    BY <2>1 DEF BufferOffsets
  <2>4. ASSUME NEW b, b = new PROVE BatchOffsets(b)'
    <3>1. b.source = s /\ b.next = last /\ DOMAIN b.recs = chosen
          /\ \A p \in chosen : b.recs[p] = records[s][p]
      BY <2>4
    <3> QED BY <1>1, <2>2, <2>3, <3>1, AheadConstant DEF BatchOffsets, Passed, Waits
  <2>5. \A b \in pending' : b \in pending \/ b = new
    BY <1>5
  <2>6. \A b \in pending' : BatchOffsets(b)'
    BY <1>3, <2>4, <2>5
  <2> QED BY <1>2, <2>6 DEF OInv
<1> QED BY <1>4, <1>5 DEF Pull

(* An acknowledgement moves the checkpoint to an offset of its batch, and    *)
(* what stays buffered of that source has a larger sequence number.          *)
LEMMA AckOInv ==
    ASSUME IInv, OInv, NEW b \in pending, Ack(b)
    PROVE  OInv'
<1> DEFINE s == b.source
           kept == PruneCommitted(records[s], b.next)
<1>t. TypeOK /\ CollectionTypeOK /\ s \in Files /\ BatchOffsets(b)
  BY DEF IInv, OInv, TypeOK, IsBatch
<1>1. UNCHANGED <<read, hot, rest, disk>>
  BY DEF Ack
<1>2. /\ records' = [records EXCEPT ![s] = kept] /\ pending' = pending \ {b}
      /\ \E p \in DOMAIN b.recs : saved' = [saved EXCEPT ![s] = b.recs[p]]
  BY DEF Ack, SavePosition, LatestOffset
<1>3. PICK p \in DOMAIN b.recs : saved' = [saved EXCEPT ![s] = b.recs[p]]
  BY <1>2
<1>4. /\ DOMAIN kept = {q \in DOMAIN records[s] : q > b.next}
      /\ \A q \in DOMAIN kept : kept[q] = records[s][q]
  BY DEF PruneCommitted
<1>n. b.next \in Nat /\ DOMAIN records[s] \subseteq Nat
  BY <1>t DEF IInv, TypeOK, IsBatch, IsRecordMap
<1> HIDE DEF kept
<1>5. \A x \in Files : /\ records'[x] = IF x = s THEN kept ELSE records[x]
                       /\ saved'[x] = IF x = s THEN b.recs[p] ELSE saved[x]
  BY <1>t, <1>2, <1>3 DEF TypeOK, CollectionTypeOK
<1>6. ASSUME NEW x \in Files
      PROVE  /\ DOMAIN records'[x] \subseteq DOMAIN records[x]
             /\ \A q \in DOMAIN records'[x] : records'[x][q] = records[x][q]
  BY <1>4, <1>5
<1>7. \A x \in Files : GroupsInOrder(x)' /\ \A o : Passed(x, o)' <=> Passed(x, o)
  BY <1>1, AheadConstant DEF OInv, GroupsInOrder, Passed, Waits
<1>8. \A x \in Files : BufferOffsets(x)' /\ Clear(x, disk[x])'
  BY <1>1, <1>6, <1>7, AheadConstant DEF OInv, BufferOffsets, Clear
<1>9. ASSUME NEW x \in Files PROVE Clear(x, saved[x])'
  <2>1. CASE x = s
    <3>1. Passed(s, b.recs[p]) /\ \A q \in DOMAIN kept : Ahead(b.recs[p], kept[q])
      BY <1>t, <1>4, <1>n DEF BatchOffsets
    <3> QED BY <1>5, <1>7, <2>1, <3>1, AheadConstant DEF Clear
  <2>2. CASE x # s
    BY <1>5, <1>7, <2>2, AheadConstant DEF OInv, Clear
  <2> QED BY <2>1, <2>2
<1>10. ASSUME NEW c \in pending' PROVE BatchOffsets(c)'
  <2>1. c \in pending /\ c.source \in Files
    BY <1>t, <1>2 DEF TypeOK, IsBatch
  <2> QED BY <1>6, <1>7, <2>1, AheadConstant DEF OInv, BatchOffsets
<1> QED BY <1>7, <1>8, <1>9, <1>10 DEF OInv

(* A restart collects from the checkpoint on, with empty buffers. *)
LEMMA CrashOInv == IInv /\ Crash => OInv'
<1> SUFFICES ASSUME IInv, Crash PROVE OInv'
  OBVIOUS
<1>1. RestartCollection /\ CollectionTypeOK /\ pending' = {} /\ records' = Empty
  BY DEF Crash, IInv, TypeOK
<1>2. \A x \in Files : GroupsInOrder(x)' /\ Passed(x, saved[x])' /\ Passed(x, disk[x])'
  BY <1>1, RestartInOrder
<1>3. \A x \in Files : DOMAIN records'[x] = {}
  BY <1>1 DEF Empty
<1> QED BY <1>1, <1>2, <1>3 DEF OInv, BufferOffsets, Clear

(* Every step keeps the order of offsets. *)
LEMMA NextOInv ==
    ASSUME IInv, OInv, [Next]_vars
    PROVE  OInv'
<1> USE DEF OInv, GroupsInOrder, BufferOffsets, BatchOffsets, Clear, Passed, Waits
<1>1. ASSUME NEW b \in pending, Nack(b) PROVE OInv'
  BY <1>1, AheadConstant DEF Nack, collectionVars
<1>2. ASSUME Flush PROVE OInv'
  BY <1>2, AheadConstant DEF Flush, FlushPositions, serviceVars
<1>3. ASSUME UNCHANGED vars PROVE OInv'
  BY <1>3, AheadConstant DEF vars, collectionVars, serviceVars
<1> QED BY <1>1, <1>2, <1>3, CollectOInv, AppendOInv, PullOInv, AckOInv, CrashOInv DEF Next

(***************************************************************************)
(* Neither checkpoint ever covers a record the service still buffers and   *)
(* no critical line overtook, for all callers, keywords and buffer sizes.  *)
(***************************************************************************)
THEOREM CheckpointClearOfBuffer == Spec => []BufferedSurvivesCrash
<1>1. IInv /\ OInv => BufferedSurvivesCrash
  BY DEF OInv, Clear, Ahead, BufferedSurvivesCrash
<1> QED BY <1>1, InitOInv, NextOInv, SpecIInv, PTL DEF Spec

-----------------------------------------------------------------------------
(***************************************************************************)
(* What the checkpoint covers: every line that was read is settled,        *)
(* overtaken, buffered or still waiting.                                   *)
(***************************************************************************)
Accounted(s, n) == n \in settled[s] \/ Overtaken(n)
Buffered(s, n) == \E q \in DOMAIN records[s] : records[s][q] = n

LinesTraced(s) == \A n \in 1 .. read[s] : Accounted(s, n) \/ Waits(s, n) \/ Buffered(s, n)
PositionsAccounted(s) ==
    /\ \A n \in 1 .. saved[s] : Accounted(s, n)
    /\ \A n \in 1 .. disk[s] : Accounted(s, n)

SInv == \A s \in Files : LinesTraced(s) /\ PositionsAccounted(s)

(* The history only grows. *)
LEMMA AccountedStays ==
    ASSUME IInv, [Next]_vars, NEW s \in Files, NEW n, Accounted(s, n)
    PROVE  Accounted(s, n)'
<1>1. settled \in [Files -> SUBSET Nat]
  BY DEF IInv, TypeOK
<1>2. settled[s] \subseteq settled'[s]
  <2>1. ASSUME NEW e \in Files, AppendGroup(e) PROVE settled[s] \subseteq settled'[s]
    BY <1>1, <2>1 DEF AppendGroup
  <2>2. ASSUME NEW b \in pending, Ack(b) PROVE settled[s] \subseteq settled'[s]
    BY <1>1, <2>2 DEF Ack
  <2> QED BY <2>1, <2>2 DEF Next, vars, serviceVars, Collect, Pull, Nack, Flush, Crash
<1> QED BY <1>2 DEF Accounted, Overtaken

(* A step after which what waited or was buffered still is, or is settled. *)
LEMMA SourceSInv ==
    ASSUME IInv, SInv, [Next]_vars, NEW s \in Files,
           read'[s] = read[s],
           \A n \in Nat : Waits(s, n) \/ Buffered(s, n)
                             => Accounted(s, n)' \/ Waits(s, n)' \/ Buffered(s, n)',
           saved'[s] = saved[s] \/ \A n \in 1 .. saved'[s] : Accounted(s, n)',
           disk'[s] \in {disk[s], saved[s]}
    PROVE  LinesTraced(s)' /\ PositionsAccounted(s)'
<1>1. read[s] \in Nat /\ saved[s] \in Nat /\ disk[s] \in Nat
  BY OffsetsAreNumbers DEF IInv
<1>2. \A n \in 1 .. read[s] : n \in Nat
  BY <1>1
<1>3. LinesTraced(s)'
  <2> SUFFICES ASSUME NEW n \in 1 .. read[s]
               PROVE  Accounted(s, n)' \/ Waits(s, n)' \/ Buffered(s, n)'
    BY DEF LinesTraced
  <2> QED BY <1>2, AccountedStays DEF SInv, LinesTraced
<1>4. /\ \A n \in 1 .. saved[s] : Accounted(s, n)'
      /\ \A n \in 1 .. disk[s] : Accounted(s, n)'
  BY AccountedStays DEF SInv, PositionsAccounted
<1> QED BY <1>3, <1>4 DEF PositionsAccounted

LEMMA CollectSInv ==
    ASSUME IInv, SInv, NEW e \in Files, NEW k \in ScanSizes, Collect(e, k)
    PROVE  SInv'
<1>0. [Next]_vars
  BY DEF Next
<1>1. Scan(e, k) /\ CollectionTypeOK /\ UNCHANGED <<records, settled, saved, disk>>
  BY DEF Collect, Scan, serviceVars, IInv, TypeOK
<1>2. k \in Nat /\ read[e] \in Nat /\ \A s \in Files : read'[s] = IF s = e THEN read[e] + k ELSE read[s]
  BY <1>1, CollectionAssumption DEF Scan, CollectionTypeOK
<1>3. /\ \A m : ~Waits(e, m)
      /\ \A m : Waits(e, m)' <=> m \in (read[e] + 1) .. (read[e] + k)
      /\ \A s \in Files \ {e} : hot'[s] = hot[s] /\ rest'[s] = rest[s]
  BY <1>1, ScanWaits
<1>4. ASSUME NEW s \in Files, s # e PROVE LinesTraced(s)' /\ PositionsAccounted(s)'
  <2>1. \A n \in Nat : Waits(s, n) \/ Buffered(s, n) => Waits(s, n)' \/ Buffered(s, n)'
    BY <1>1, <1>3, <1>4 DEF Waits, Buffered
  <2> QED BY <1>0, <1>1, <1>2, <1>4, <2>1, SourceSInv
<1>5. LinesTraced(e)'
  <2> SUFFICES ASSUME NEW n \in 1 .. (read[e] + k)
               PROVE  Accounted(e, n)' \/ Waits(e, n)' \/ Buffered(e, n)'
    BY <1>2 DEF LinesTraced
  <2>1. CASE n \in 1 .. read[e]
    BY <1>0, <1>1, <1>3, <2>1, AccountedStays DEF SInv, LinesTraced, Buffered
  <2>2. CASE n \notin 1 .. read[e]
    <3>1. n \in (read[e] + 1) .. (read[e] + k)
      BY <1>2, <2>2
    <3> QED BY <1>3, <3>1
  <2> QED BY <2>1, <2>2
<1>6. PositionsAccounted(e)'
  BY <1>1 DEF SInv, PositionsAccounted, Accounted, Overtaken
<1> QED BY <1>4, <1>5, <1>6 DEF SInv

(* A group is buffered, or refused and on the list of what is settled. *)
LEMMA AppendSInv ==
    ASSUME IInv, SInv, NEW e \in Files, AppendGroup(e)
    PROVE  SInv'
<1>0. [Next]_vars
  BY DEF Next
<1> DEFINE group == Waiting(e)
           buffer == Appended(e, group)
<1>t. TypeOK /\ CollectionTypeOK /\ UnacknowledgedKept /\ BufferNumbers(e)
  BY DEF IInv, TypeOK
<1>1. Take(e) /\ group \in Seq(Nat) /\ UNCHANGED <<read, saved, disk>>
  BY <1>t, TakeType DEF AppendGroup, Take
<1>2. /\ \A m : Waits(e, m) <=> InGroup(group, m) \/ Waits(e, m)'
      /\ \A s \in Files \ {e} : hot'[s] = hot[s] /\ rest'[s] = rest[s]
  BY <1>t, <1>1, TakeWaits
<1>3. \/ records' = [records EXCEPT ![e] = buffer]
      \/ /\ UNCHANGED records
         /\ settled' = [settled EXCEPT ![e] = @ \cup {group[i] : i \in DOMAIN group}]
  BY DEF AppendGroup
<1>4. \A m : InGroup(group, m) => Accounted(e, m)' \/ Buffered(e, m)'
  <2>1. CASE records' = [records EXCEPT ![e] = buffer]
    <3>1. records'[e] = buffer
      BY <1>t, <2>1 DEF TypeOK
    <3>2. ASSUME NEW i \in 1 .. Len(group)
          PROVE  nextSeq[e] + i \in DOMAIN buffer /\ buffer[nextSeq[e] + i] = group[i]
      <4>1. /\ nextSeq[e] \in Nat /\ released[e] \in Nat /\ released[e] <= nextSeq[e] /\ Len(group) \in Nat
            /\ DOMAIN records[e] = (released[e] + 1) .. nextSeq[e]
        BY <1>t, <1>1, LenProperties DEF TypeOK, BufferNumbers, UnacknowledgedKept
      <4>2. nextSeq[e] + i \notin DOMAIN records[e] /\ (nextSeq[e] + i) - nextSeq[e] = i
            /\ nextSeq[e] + i \in nextSeq[e] + 1 .. nextSeq[e] + Len(group)
        BY <4>1
      <4> HIDE DEF group
      <4> QED BY <4>2 DEF Appended
    <3> HIDE DEF buffer, group
    <3> QED BY <3>1, <3>2 DEF InGroup, Buffered
  <2>2. CASE settled' = [settled EXCEPT ![e] = @ \cup {group[i] : i \in DOMAIN group}]
    <3>1. settled'[e] = settled[e] \cup {group[i] : i \in DOMAIN group}
      BY <1>t, <2>2 DEF TypeOK
    <3>2. DOMAIN group = 1 .. Len(group)
      BY <1>1, LenProperties
    <3> HIDE DEF group
    <3> QED BY <3>1, <3>2 DEF InGroup, Accounted
  <2> QED BY <1>3, <2>1, <2>2
<1>5. \A m : Buffered(e, m) => Buffered(e, m)'
  <2>1. CASE records' = [records EXCEPT ![e] = buffer]
    <3>1. records'[e] = buffer
      BY <1>t, <2>1 DEF TypeOK
    <3> QED BY <3>1 DEF Appended, Buffered
  <2>2. CASE UNCHANGED records
    BY <2>2 DEF Buffered
  <2> QED BY <1>3, <2>1, <2>2
<1>6. \A s \in Files \ {e} : records'[s] = records[s]
  BY <1>t, <1>3 DEF TypeOK
<1> HIDE DEF group, buffer
<1>7. ASSUME NEW s \in Files PROVE LinesTraced(s)' /\ PositionsAccounted(s)'
  <2>1. \A n \in Nat : Waits(s, n) \/ Buffered(s, n)
                         => Accounted(s, n)' \/ Waits(s, n)' \/ Buffered(s, n)'
    <3>1. CASE s = e
      BY <1>2, <1>4, <1>5, <3>1
    <3>2. CASE s # e
      BY <1>2, <1>6, <3>2 DEF Waits, Buffered
    <3> QED BY <3>1, <3>2
  <2> QED BY <1>0, <1>1, <2>1, SourceSInv
<1> QED BY <1>7 DEF SInv

(* An acknowledged offset covers lines that are settled with it, that were    *)
(* before, or that a critical line overtook: all others come after its batch. *)
LEMMA AckSInv ==
    ASSUME IInv, OInv, SInv, NEW b \in pending, Ack(b)
    PROVE  SInv'
<1> DEFINE e == b.source
<1>0. [Next]_vars
  BY DEF Next
<1>1. /\ e \in Files /\ b.next \in Nat /\ BatchOffsets(b)
      /\ \A p \in DOMAIN b.recs : b.recs[p] \in Nat
      /\ \A q \in DOMAIN records[e] : q \in Nat /\ records[e][q] \in Nat
      /\ \A s \in Files : saved[s] \in Nat
  BY OffsetsAreNumbers DEF IInv, OInv
<1>2. UNCHANGED <<read, hot, rest, disk>>
  BY DEF Ack
<1>3. PICK p \in DOMAIN b.recs : saved' = [saved EXCEPT ![e] = b.recs[p]]
  BY DEF Ack, SavePosition, LatestOffset
<1>4. \A s \in Files : /\ saved'[s] = IF s = e THEN b.recs[p] ELSE saved[s]
                       /\ records'[s] = IF s = e THEN PruneCommitted(records[e], b.next) ELSE records[s]
  BY <1>3 DEF Ack, IInv, TypeOK, CollectionTypeOK
<1>5. settled'[e] = settled[e] \cup {records[e][q] : q \in {x \in DOMAIN records[e] : x <= b.next}}
  BY <1>1 DEF Ack, IInv, TypeOK
<1>6. \A s \in Files : \A n : Waits(s, n)' <=> Waits(s, n)
  BY <1>2 DEF Waits
<1> HIDE DEF e
<1>7. ASSUME NEW q \in DOMAIN records[e], q <= b.next, NEW n, n = records[e][q] PROVE Accounted(e, n)'
  BY <1>5, <1>7 DEF Accounted
<1>8. \A n \in Nat : Buffered(e, n) => Accounted(e, n)' \/ Buffered(e, n)'
  <2> SUFFICES ASSUME NEW q \in DOMAIN records[e], NEW n, n = records[e][q]
               PROVE  Accounted(e, n)' \/ Buffered(e, n)'
    BY DEF Buffered
  <2>1. CASE q <= b.next
    BY <1>7, <2>1
  <2>2. CASE q > b.next
    BY <1>1, <1>4, <2>2 DEF PruneCommitted, Buffered
  <2> QED BY <1>1, <2>1, <2>2
<1>9. ASSUME NEW n \in 1 .. b.recs[p] PROVE Accounted(e, n)'
  <2>1. n \in Nat /\ n <= b.recs[p] /\ b.recs[p] \in Nat /\ Passed(e, b.recs[p])
    BY <1>1 DEF BatchOffsets, e
  <2>2. n \in 1 .. read[e]
    <3>1. b.recs[p] <= read[e] /\ read[e] \in Nat
      BY <1>1, <2>1, OffsetsAreNumbers DEF Passed, IInv
    <3> QED BY <2>1, <3>1
  <2>3. Accounted(e, n) \/ Waits(e, n) \/ Buffered(e, n)
    BY <1>1, <2>2 DEF SInv, LinesTraced
  <2>4. CASE Accounted(e, n)
    BY <1>0, <1>1, <2>4, AccountedStays
  <2>5. ASSUME Ahead(b.recs[p], n) PROVE Accounted(e, n)'
    <3>1. Overtaken(n)
      BY <2>1, <2>5 DEF Ahead
    <3> QED BY <3>1 DEF Accounted, Overtaken
  <2>6. CASE Waits(e, n)
    BY <2>1, <2>5, <2>6 DEF Passed
  <2>7. ASSUME NEW q \in DOMAIN records[e], records[e][q] = n PROVE Accounted(e, n)'
    <3>1. CASE q <= b.next
      BY <1>7, <2>7, <3>1
    <3>2. CASE b.next < q
      BY <1>1, <2>5, <2>7, <3>2 DEF BatchOffsets, e
    <3> QED BY <1>1, <3>1, <3>2
  <2> QED BY <2>3, <2>4, <2>6, <2>7 DEF Buffered
<1>10. ASSUME NEW s \in Files PROVE LinesTraced(s)' /\ PositionsAccounted(s)'
  <2>1. CASE s = e
    <3>1. \A n \in 1 .. saved'[s] : Accounted(s, n)'
      BY <1>1, <1>4, <1>9, <2>1
    <3> QED BY <1>0, <1>2, <1>6, <1>8, <2>1, <3>1, SourceSInv
  <2>2. CASE s # e
    <3>1. saved'[s] = saved[s] /\ \A n : Buffered(s, n) => Buffered(s, n)'
      BY <1>4, <2>2 DEF Buffered
    <3> QED BY <1>0, <1>2, <1>6, <3>1, SourceSInv
  <2> QED BY <2>1, <2>2
<1> QED BY <1>10 DEF SInv

LEMMA NextSInv ==
    ASSUME IInv, OInv, SInv, [Next]_vars
    PROVE  SInv'
<1>1. ASSUME UNCHANGED <<read, hot, rest, saved, records>>, \A s \in Files : disk'[s] \in {disk[s], saved[s]}
      PROVE  SInv'
  <2>1. \A s \in Files : \A n : (Waits(s, n)' <=> Waits(s, n)) /\ (Buffered(s, n)' <=> Buffered(s, n))
    BY <1>1 DEF Waits, Buffered
  <2> QED BY <1>1, <2>1, SourceSInv DEF SInv
<1>2. ASSUME NEW s \in Files, NEW cursor \in Cursors, NEW max \in PullSizes, Pull(s, cursor, max)
      PROVE  SInv'
  BY <1>1, <1>2 DEF Pull, collectionVars
<1>3. ASSUME NEW b \in pending, Nack(b) PROVE SInv'
  BY <1>1, <1>3 DEF Nack, collectionVars
<1>4. CASE Flush
  BY <1>1, <1>4 DEF Flush, FlushPositions, serviceVars
<1>5. CASE Crash
  <2>1. read' = disk /\ saved' = disk /\ disk' = disk /\ settled' = settled
    BY <1>5 DEF Crash, RestartCollection
  <2> QED BY <2>1 DEF SInv, LinesTraced, PositionsAccounted, Accounted, Overtaken
<1>6. CASE UNCHANGED vars
  BY <1>1, <1>6 DEF vars, collectionVars, serviceVars
<1> QED BY <1>2, <1>3, <1>4, <1>5, <1>6, CollectSInv, AppendSInv, AckSInv DEF Next

(***************************************************************************)
(* A line the file checkpoint covers was released by a caller's cursor,    *)
(* refused by the full buffer or overtaken by a critical line, whatever    *)
(* batches are pulled, acknowledged late or rejected, over crashes.        *)
(***************************************************************************)
THEOREM CheckpointOnlyOverSettled == Spec => []CheckpointCoversSettled
<1>1. Init => SInv
  BY DEF Init, CollectionInit, AtStart, SInv, LinesTraced, PositionsAccounted
<1>2. SInv => CheckpointCoversSettled
  BY DEF SInv, PositionsAccounted, Accounted, CheckpointCoversSettled
<1> QED BY <1>1, <1>2, InitOInv, NextOInv, NextSInv, SpecIInv, PTL DEF Spec
=============================================================================
