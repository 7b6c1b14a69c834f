---------------------------- MODULE SendingProofs ----------------------------
(***************************************************************************)
(* Proofs about the components that send before they commit: the relay of  *)
(* the outbox, alerting-svc, and the warning agent that asks it to send.   *)
(* Whatever is lost in between was sent all the same, so each proof keeps  *)
(* an account of what was sent against what explains it.                   *)
(*                                                                         *)
(* Outbox, for any events, replicas, batch size and caps.  Row locks make  *)
(* the claimed sets of the replicas disjoint, and a claimed row is still   *)
(* waiting, so no row is published while some replica holds it.  A row     *)
(* whose last publish was not acknowledged has at most one copy per fault; *)
(* publishing acknowledges it and adds one copy, and only a fault takes    *)
(* the acknowledgement away.                                               *)
(*                                                                         *)
(* Alerting, for any alerts, dispatches, households, channels and crashes. *)
(* The request that holds an alert's row is the one that sends it, and     *)
(* what a channel was handed it was handed by a dispatch that was rolled   *)
(* back, by the one on record, or by the holder, which has its answer.     *)
(*                                                                         *)
(* Warning, for any subjects, starts, resumes, failures and overlaps.  The *)
(* alerts a run drafted, with the executions and the checkpoint that may   *)
(* still draft one, never exceed one more than its failures and overlaps;  *)
(* a run without overlaps is at one place only, the checkpoint's; and the  *)
(* values, wherever they are held, claim no answer nobody gave and no      *)
(* dispatch without its proof.                                             *)
(***************************************************************************)
EXTENDS Outbox, Warning, FiniteSetTheorems, TLAPS

-------------------------------------------------------------------------------
(* The outbox.                                                                 *)

\* An event whose publish returned, to a batch not yet committed or for good.
Acknowledged(e) == row[e] = "published" \/ \E p \in Publishers : e \in good[p]

\* Row locks: no row is in two transactions.
ClaimsExclusive ==
    \A p, q \in Publishers : p # q => Claimed(p) \cap Claimed(q) = {}

\* The loop tries each claimed row once.
TriedOnce ==
    \A p \in Publishers :
        /\ todo[p] \cap good[p] = {}
        /\ todo[p] \cap bad[p] = {}
        /\ good[p] \cap bad[p] = {}

\* What a transaction holds is still as it was claimed.
ClaimedWait ==
    \A p \in Publishers : \A e \in Claimed(p) :
        row[e] = "waiting" /\ attempts[e] < MaxAttempts

GoodOnStream == \A p \in Publishers : \A e \in good[p] : OnStream(e)

\* Without an acknowledgement on record every copy was paid for by a fault.
UnacknowledgedCopies ==
    \A e \in Events : ~Acknowledged(e) => Copies(stream, e) <= faults

IInv ==
    /\ TypeOK
    /\ ClaimsExclusive
    /\ TriedOnce
    /\ ClaimedWait
    /\ GoodOnStream
    /\ EmittedIffCommitted
    /\ UnacknowledgedCopies
    /\ DuplicatesComeFromFaults

-------------------------------------------------------------------------------
\* The copies of an event on a finite stream are counted by a number.
LEMMA CopiesInNat ==
    ASSUME NEW s \in Seq(Events), NEW e
    PROVE  /\ IsFiniteSet({i \in 1..Len(s) : s[i] = e})
           /\ Copies(s, e) \in Nat
<1>1. IsFiniteSet(1..Len(s))
  BY FS_Interval
<1>2. {i \in 1..Len(s) : s[i] = e} \subseteq 1..Len(s)
  OBVIOUS
<1> QED
  BY <1>1, <1>2, FS_Subset, FS_CardinalityType DEF Copies

\* One more entry is one more copy of its event and of no other.
LEMMA CopiesAppend ==
    ASSUME NEW s \in Seq(Events), NEW x \in Events, NEW e
    PROVE  /\ x = e => Copies(Append(s, x), e) = Copies(s, e) + 1
           /\ x # e => Copies(Append(s, x), e) = Copies(s, e)
<1> DEFINE old == {i \in 1..Len(s) : s[i] = e}
           t == Append(s, x)
           new == {i \in 1..Len(t) : t[i] = e}
<1>1. Len(t) = Len(s) + 1 /\ Len(s) \in Nat
  OBVIOUS
<1>2. t[Len(s) + 1] = x /\ \A i \in 1..Len(s) : t[i] = s[i]
  OBVIOUS
<1>3. IsFiniteSet(old)
  BY CopiesInNat
<1>4. Len(s) + 1 \notin old
  BY <1>1
<1>5. CASE x = e
  <2>1. new = old \cup {Len(s) + 1}
    BY <1>1, <1>2, <1>5
  <2>2. Cardinality(new) = Cardinality(old) + 1
    BY <1>3, <1>4, <2>1, FS_AddElement
  <2> QED
    BY <1>5, <2>2 DEF Copies
<1>6. CASE x # e
  <2>1. new = old
    BY <1>1, <1>2, <1>6
  <2> QED
    BY <1>6, <2>1 DEF Copies
<1> QED
  BY <1>5, <1>6

\* What is on the stream after an arrival.
LEMMA OnStreamAppend ==
    ASSUME NEW s \in Seq(Events), NEW x \in Events, NEW e,
           stream = s, stream' = Append(s, x)
    PROVE  OnStream(e)' <=> (OnStream(e) \/ x = e)
<1>1. Len(stream') = Len(s) + 1 /\ Len(s) \in Nat
  OBVIOUS
<1>2. stream'[Len(s) + 1] = x /\ \A i \in 1..Len(s) : stream'[i] = s[i]
  OBVIOUS
<1> QED
  BY <1>1, <1>2 DEF OnStream

\* Nothing is on the empty stream.
LEMMA NoCopies == \A e : Copies(<<>>, e) = 0
<1> TAKE e
<1>1. {i \in 1..Len(<<>>) : <<>>[i] = e} = {}
  OBVIOUS
<1> QED
  BY <1>1, FS_EmptySet DEF Copies

-------------------------------------------------------------------------------
\* The invariant holds to begin with.
LEMMA InitIInv == Init => IInv
<1> SUFFICES ASSUME Init PROVE IInv
  OBVIOUS
<1>1. TypeOK
  BY OutboxAssumption DEF Init, TypeOK, RowStates
<1>2. ClaimsExclusive /\ TriedOnce /\ ClaimedWait /\ GoodOnStream
  BY DEF Init, ClaimsExclusive, TriedOnce, ClaimedWait, GoodOnStream, Claimed
<1>3. \A e \in Events : ~OnStream(e)
  BY DEF Init, OnStream
<1>4. EmittedIffCommitted
  BY <1>3 DEF Init, EmittedIffCommitted
<1>5. UnacknowledgedCopies /\ DuplicatesComeFromFaults
  BY NoCopies DEF Init, UnacknowledgedCopies, DuplicatesComeFromFaults
<1> QED
  BY <1>1, <1>2, <1>4, <1>5 DEF IInv

\* The action Enqueue preserves the invariant.
LEMMA EnqueueStep ==
    ASSUME IInv, NEW e \in Events, Enqueue(e)
    PROVE  IInv'
<1> USE DEF IInv
<1>1. stamp'[e] \in Nat
  <2>1. IsFiniteSet({d \in Events : stamp[d] > 0})
    BY OutboxAssumption, FS_Subset
  <2> QED
    BY <2>1, FS_CardinalityType DEF Enqueue, TypeOK
<1>2. TypeOK'
  BY <1>1 DEF Enqueue, batch, TypeOK, RowStates
<1>3. ClaimsExclusive' /\ TriedOnce' /\ GoodOnStream'
  BY DEF Enqueue, batch, ClaimsExclusive, TriedOnce, GoodOnStream, Claimed, OnStream
<1>4. ClaimedWait'
  BY DEF Enqueue, batch, ClaimedWait, Claimed, TypeOK
<1>5. \A d \in Events : OnStream(d)' <=> OnStream(d)
  BY DEF Enqueue, OnStream
<1>6. EmittedIffCommitted'
  BY <1>5 DEF Enqueue, EmittedIffCommitted, TypeOK
<1>7. UnacknowledgedCopies' /\ DuplicatesComeFromFaults'
  BY DEF Enqueue, batch, UnacknowledgedCopies, DuplicatesComeFromFaults, Acknowledged, TypeOK
<1> QED
  BY <1>2, <1>3, <1>4, <1>6, <1>7

\* The action EndBusiness preserves the invariant.
LEMMA EndBusinessStep ==
    ASSUME IInv, NEW e \in Events, EndBusiness(e)
    PROVE  IInv'
<1> USE DEF IInv
<1>1. PICK outcome \in {"waiting", "undone"} : row' = [row EXCEPT ![e] = outcome]
  BY DEF EndBusiness
<1>2. TypeOK'
  BY <1>1 DEF EndBusiness, batch, TypeOK, RowStates
<1>3. ClaimsExclusive' /\ TriedOnce' /\ GoodOnStream'
  BY DEF EndBusiness, batch, ClaimsExclusive, TriedOnce, GoodOnStream, Claimed, OnStream
<1>4. ClaimedWait'
  BY <1>1 DEF EndBusiness, batch, ClaimedWait, Claimed, TypeOK
<1>5. \A d \in Events : OnStream(d)' <=> OnStream(d)
  BY DEF EndBusiness, OnStream
<1>6. EmittedIffCommitted'
  BY <1>1, <1>5 DEF EndBusiness, EmittedIffCommitted, TypeOK
<1>7. UnacknowledgedCopies' /\ DuplicatesComeFromFaults'
  BY <1>1 DEF EndBusiness, batch, UnacknowledgedCopies, DuplicatesComeFromFaults, Acknowledged, TypeOK
<1> QED
  BY <1>2, <1>3, <1>4, <1>6, <1>7
\* The action Claim preserves the invariant.
LEMMA ClaimStep ==
    ASSUME IInv, NEW p \in Publishers, Claim(p)
    PROVE  IInv'
<1> USE DEF IInv
<1>1. PICK T \in SUBSET Events :
        /\ OldestOf({e \in Events : Claimable(e)}, T)
        /\ todo' = [todo EXCEPT ![p] = T]
  BY DEF Claim
<1>2. \A e \in T : Claimable(e)
  BY <1>1 DEF OldestOf
<1>3. Claimed(p) = {} /\ UNCHANGED <<row, stamp, attempts, good, bad, stream, faults>>
  BY DEF Claim
<1>4. TypeOK'
  BY <1>1, <1>3 DEF TypeOK
<1>5. Claimed(p)' = T /\ \A q \in Publishers \ {p} : Claimed(q)' = Claimed(q)
  BY <1>1, <1>3 DEF Claimed, TypeOK
<1>6. ClaimsExclusive'
  BY <1>2, <1>5 DEF ClaimsExclusive, Claimable, Locked
<1>7. TriedOnce' /\ GoodOnStream'
  BY <1>1, <1>3 DEF TriedOnce, GoodOnStream, Claimed, OnStream, TypeOK
<1>8. ClaimedWait'
  BY <1>2, <1>3, <1>5 DEF ClaimedWait, Claimable
<1>9. EmittedIffCommitted' /\ UnacknowledgedCopies' /\ DuplicatesComeFromFaults'
  BY <1>3 DEF EmittedIffCommitted, UnacknowledgedCopies, DuplicatesComeFromFaults,
              Acknowledged, OnStream
<1> QED
  BY <1>4, <1>6, <1>7, <1>8, <1>9

\* Moving a tried row to either side of the batch keeps what is claimed.
LEMMA TriedFrame ==
    ASSUME IInv, NEW p \in Publishers, NEW e \in Events, e \in todo[p],
           row' = row, attempts' = attempts, stamp' = stamp,
           todo' = [todo EXCEPT ![p] = @ \ {e}],
           \/ good' = [good EXCEPT ![p] = @ \cup {e}] /\ bad' = bad
           \/ bad' = [bad EXCEPT ![p] = @ \cup {e}] /\ good' = good
    PROVE  /\ \A q \in Publishers : Claimed(q)' = Claimed(q)
           /\ ClaimsExclusive' /\ TriedOnce' /\ ClaimedWait'
<1> USE DEF IInv
<1>1. \A q \in Publishers : Claimed(q)' = Claimed(q)
  BY DEF Claimed, TypeOK
<1>2. ClaimsExclusive'
  BY <1>1 DEF ClaimsExclusive
<1>3. TriedOnce'
  BY DEF TriedOnce, TypeOK
<1>4. ClaimedWait'
  BY <1>1 DEF ClaimedWait
<1> QED
  BY <1>1, <1>2, <1>3, <1>4

\* The action PublishOk preserves the invariant.
LEMMA PublishOkStep ==
    ASSUME IInv, NEW p \in Publishers, NEW e \in Events, PublishOk(p, e)
    PROVE  IInv'
<1> USE DEF IInv
<1>1. e \in todo[p] /\ UNCHANGED <<row, stamp, attempts, bad, faults>>
  BY DEF PublishOk, NextRow
<1>2. stream' = Append(stream, e) /\ good' = [good EXCEPT ![p] = @ \cup {e}]
  BY DEF PublishOk
<1>3. TypeOK'
  BY <1>1, <1>2 DEF PublishOk, TypeOK
<1>4. ClaimsExclusive' /\ TriedOnce' /\ ClaimedWait'
  BY <1>1, <1>2, TriedFrame DEF PublishOk
<1>5. row[e] = "waiting" /\ \A q \in Publishers : e \notin good[q]
  BY <1>1 DEF ClaimedWait, TriedOnce, ClaimsExclusive, Claimed
<1>6. \A d \in Events : OnStream(d)' <=> (OnStream(d) \/ d = e)
  BY <1>2, OnStreamAppend DEF TypeOK
<1>7. GoodOnStream'
  BY <1>2, <1>6 DEF GoodOnStream, TypeOK
<1>8. EmittedIffCommitted'
  BY <1>1, <1>5, <1>6 DEF EmittedIffCommitted
<1>9. /\ \A d \in Events : Copies(stream, d) \in Nat
      /\ Copies(stream', e) = Copies(stream, e) + 1
      /\ \A d \in Events \ {e} : Copies(stream', d) = Copies(stream, d)
  <2>1. stream \in Seq(Events)
    BY DEF TypeOK
  <2> QED
    BY <1>2, <2>1, CopiesInNat, CopiesAppend
<1>10. ~Acknowledged(e)
  BY <1>5 DEF Acknowledged
<1>11. Acknowledged(e)' /\ \A d \in Events \ {e} : Acknowledged(d)' <=> Acknowledged(d)
  BY <1>1, <1>2 DEF Acknowledged, TypeOK
<1>12. UnacknowledgedCopies'
  BY <1>1, <1>9, <1>11 DEF UnacknowledgedCopies
<1>13. DuplicatesComeFromFaults'
  <2>1. faults \in Nat /\ faults' = faults
    BY <1>1, OutboxAssumption DEF TypeOK
  <2>2. Copies(stream, e) <= faults
    BY <1>10 DEF UnacknowledgedCopies
  <2>3. \A d \in Events : Copies(stream', d) <= 1 + faults
    BY <1>9, <2>1, <2>2 DEF DuplicatesComeFromFaults
  <2> QED
    BY <2>1, <2>3 DEF DuplicatesComeFromFaults
<1> QED
  BY <1>3, <1>4, <1>7, <1>8, <1>12, <1>13

\* The action PublishFails preserves the invariant.
LEMMA PublishFailsStep ==
    ASSUME IInv, NEW p \in Publishers, NEW e \in Events, PublishFails(p, e)
    PROVE  IInv'
<1> USE DEF IInv
<1>1. e \in todo[p] /\ UNCHANGED <<row, stamp, attempts, good, stream, faults>>
  BY DEF PublishFails, NextRow
<1>2. TypeOK'
  BY <1>1 DEF PublishFails, TypeOK
<1>3. ClaimsExclusive' /\ TriedOnce' /\ ClaimedWait'
  BY <1>1, TriedFrame DEF PublishFails
<1>4. GoodOnStream' /\ EmittedIffCommitted' /\ UnacknowledgedCopies' /\ DuplicatesComeFromFaults'
  BY <1>1 DEF GoodOnStream, EmittedIffCommitted, UnacknowledgedCopies,
              DuplicatesComeFromFaults, Acknowledged, OnStream
<1> QED
  BY <1>2, <1>3, <1>4

\* The action ReplyLost preserves the invariant.
LEMMA ReplyLostStep ==
    ASSUME IInv, NEW p \in Publishers, NEW e \in Events, ReplyLost(p, e)
    PROVE  IInv'
<1> USE DEF IInv
<1>1. e \in todo[p] /\ UNCHANGED <<row, stamp, attempts, good>>
  BY DEF ReplyLost, NextRow
<1>2. stream' = Append(stream, e) /\ faults' = faults + 1 /\ faults < MaxFaults
  BY DEF ReplyLost
<1>3. TypeOK'
  BY <1>1, <1>2, OutboxAssumption DEF ReplyLost, TypeOK
<1>4. ClaimsExclusive' /\ TriedOnce' /\ ClaimedWait'
  BY <1>1, TriedFrame DEF ReplyLost
<1>5. row[e] = "waiting"
  BY <1>1 DEF ClaimedWait, Claimed
<1>6. \A d \in Events : OnStream(d)' <=> (OnStream(d) \/ d = e)
  BY <1>2, OnStreamAppend DEF TypeOK
<1>7. GoodOnStream' /\ EmittedIffCommitted'
  BY <1>1, <1>5, <1>6 DEF GoodOnStream, EmittedIffCommitted, TypeOK
<1>8. \A d \in Events : /\ Copies(stream, d) \in Nat
                        /\ Copies(stream', d) <= Copies(stream, d) + 1
  <2>1. stream \in Seq(Events)
    BY DEF TypeOK
  <2> TAKE d \in Events
  <2>2. Copies(stream, d) \in Nat
    BY <2>1, CopiesInNat
  <2>3. \/ Copies(stream', d) = Copies(stream, d) + 1
        \/ Copies(stream', d) = Copies(stream, d)
    BY <1>2, <2>1, CopiesAppend
  <2> QED
    BY <2>2, <2>3
<1>9. \A d \in Events : Acknowledged(d)' <=> Acknowledged(d)
  BY <1>1 DEF Acknowledged
<1>10. faults \in Nat
  BY OutboxAssumption DEF TypeOK
<1>11. \A d \in Events : Copies(stream, d)' \in Nat
  BY <1>3, CopiesInNat DEF TypeOK
<1>12. UnacknowledgedCopies' /\ DuplicatesComeFromFaults'
  BY <1>2, <1>8, <1>9, <1>10, <1>11 DEF UnacknowledgedCopies, DuplicatesComeFromFaults
<1> QED
  BY <1>3, <1>4, <1>7, <1>12

\* Ending a batch frees its rows and no other replica's.
LEMMA ReleasedFrame ==
    ASSUME IInv, NEW p \in Publishers, Released(p)
    PROVE  /\ Claimed(p)' = {} /\ good'[p] = {}
           /\ \A q \in Publishers \ {p} : Claimed(q)' = Claimed(q) /\ good'[q] = good[q]
           /\ ClaimsExclusive' /\ TriedOnce'
<1> USE DEF IInv
<1>1. /\ Claimed(p)' = {} /\ good'[p] = {}
      /\ \A q \in Publishers \ {p} : Claimed(q)' = Claimed(q) /\ good'[q] = good[q]
  BY DEF Released, Claimed, TypeOK
<1>2. ClaimsExclusive'
  BY <1>1 DEF ClaimsExclusive
<1>3. TriedOnce'
  BY DEF Released, TriedOnce, TypeOK
<1> QED
  BY <1>1, <1>2, <1>3

\* The action CommitBatch preserves the invariant.
LEMMA CommitBatchStep ==
    ASSUME IInv, NEW p \in Publishers, CommitBatch(p)
    PROVE  IInv'
<1> USE DEF IInv
<1>1. /\ row' = [e \in Events |-> Marked(p, e)]
      /\ attempts' = [e \in Events |-> Counted(p, e)]
      /\ Released(p)
      /\ UNCHANGED <<stamp, stream, faults>>
  BY DEF CommitBatch
<1>2. \A e \in Events : Counted(p, e) \in 0..MaxAttempts
  BY OutboxAssumption DEF Counted, ClaimedWait, Claimed, TypeOK
<1>3. TypeOK'
  BY <1>1, <1>2 DEF Released, Marked, TypeOK, RowStates
<1>4. ClaimsExclusive' /\ TriedOnce'
  BY <1>1, ReleasedFrame
<1>5. \A q \in Publishers \ {p} : Claimed(q)' = Claimed(q) /\ good'[q] = good[q]
  BY <1>1, ReleasedFrame
<1>6. \A q \in Publishers \ {p} : \A e \in Claimed(q) : e \notin good[p] /\ e \notin bad[p]
  BY DEF ClaimsExclusive, Claimed
<1>7. ClaimedWait'
  <2> SUFFICES ASSUME NEW q \in Publishers, NEW e \in Claimed(q)'
               PROVE  row'[e] = "waiting" /\ attempts'[e] < MaxAttempts
    BY DEF ClaimedWait
  <2>1. q # p
    BY <1>1, ReleasedFrame
  <2>2. e \in Claimed(q) /\ e \in Events
    BY <1>5, <2>1 DEF Claimed, TypeOK
  <2> QED
    BY <1>1, <1>6, <2>1, <2>2 DEF ClaimedWait, Marked, Counted
<1>8. GoodOnStream'
  BY <1>1, <1>5, ReleasedFrame DEF GoodOnStream, OnStream
<1>9. \A e \in Events : OnStream(e)' <=> OnStream(e)
  BY <1>1 DEF OnStream
<1>10. EmittedIffCommitted'
  BY <1>1, <1>9 DEF EmittedIffCommitted, Marked, GoodOnStream, ClaimedWait, Claimed
<1>11. \A e \in Events : Acknowledged(e) => Acknowledged(e)'
  BY <1>1, <1>5 DEF Acknowledged, Marked
<1>12. UnacknowledgedCopies' /\ DuplicatesComeFromFaults'
  BY <1>1, <1>11 DEF UnacknowledgedCopies, DuplicatesComeFromFaults
<1> QED
  BY <1>3, <1>4, <1>7, <1>8, <1>10, <1>12

\* The action LoseBatch preserves the invariant.
LEMMA LoseBatchStep ==
    ASSUME IInv, NEW p \in Publishers, LoseBatch(p)
    PROVE  IInv'
<1> USE DEF IInv
<1>1. /\ Released(p) /\ faults' = faults + 1 /\ faults < MaxFaults
      /\ UNCHANGED <<row, stamp, attempts, stream>>
  BY DEF LoseBatch
<1>2. TypeOK'
  BY <1>1, OutboxAssumption DEF Released, TypeOK
<1>3. ClaimsExclusive' /\ TriedOnce'
  BY <1>1, ReleasedFrame
<1>4. ClaimedWait'
  BY <1>1, ReleasedFrame DEF ClaimedWait
<1>5. GoodOnStream' /\ EmittedIffCommitted'
  BY <1>1, ReleasedFrame DEF GoodOnStream, EmittedIffCommitted, OnStream
<1>6. \A e \in Events : Copies(stream, e)' = Copies(stream, e) /\ Copies(stream, e) \in Nat
  BY <1>1, CopiesInNat DEF TypeOK
<1>7. faults \in Nat
  BY OutboxAssumption DEF TypeOK
<1>8. UnacknowledgedCopies' /\ DuplicatesComeFromFaults'
  BY <1>1, <1>6, <1>7 DEF UnacknowledgedCopies, DuplicatesComeFromFaults
<1> QED
  BY <1>2, <1>3, <1>4, <1>5, <1>8

\* The action ResetStuck preserves the invariant.
LEMMA ResetStuckStep ==
    ASSUME IInv, ResetStuck
    PROVE  IInv'
<1> USE DEF IInv
<1>1. /\ attempts' = [e \in Events |-> IF Stuck(e) THEN 0 ELSE attempts[e]]
      /\ UNCHANGED <<row, stamp, todo, good, bad, stream, faults>>
  BY DEF ResetStuck, batch
<1>2. TypeOK'
  BY <1>1, OutboxAssumption DEF TypeOK
<1>3. ClaimsExclusive' /\ TriedOnce' /\ GoodOnStream'
  BY <1>1 DEF ClaimsExclusive, TriedOnce, GoodOnStream, Claimed, OnStream
<1>4. ClaimedWait'
  BY <1>1, OutboxAssumption DEF ClaimedWait, Claimed, TypeOK
<1>5. EmittedIffCommitted' /\ UnacknowledgedCopies' /\ DuplicatesComeFromFaults'
  BY <1>1 DEF EmittedIffCommitted, UnacknowledgedCopies, DuplicatesComeFromFaults,
              Acknowledged, OnStream
<1> QED
  BY <1>2, <1>3, <1>4, <1>5

\* A stuttering step changes nothing the invariant speaks of.
LEMMA StutterStep == ASSUME IInv, UNCHANGED vars PROVE IInv'
BY DEF IInv, vars, TypeOK, ClaimsExclusive, TriedOnce, ClaimedWait, GoodOnStream,
       EmittedIffCommitted, UnacknowledgedCopies, DuplicatesComeFromFaults,
       Claimed, Acknowledged, OnStream

\* Every step keeps the invariant.
LEMMA NextIInv == IInv /\ [Next]_vars => IInv'
<1> SUFFICES ASSUME IInv, [Next]_vars PROVE IInv'
  OBVIOUS
<1>1. ASSUME NEW e \in Events, Enqueue(e) \/ EndBusiness(e) PROVE IInv'
  BY <1>1, EnqueueStep, EndBusinessStep
<1>2. ASSUME NEW p \in Publishers, Publish(p) PROVE IInv'
  BY <1>2, ClaimStep, PublishOkStep, PublishFailsStep, ReplyLostStep, CommitBatchStep,
     LoseBatchStep DEF Publish
<1>3. CASE ResetStuck
  BY <1>3, ResetStuckStep
<1>4. CASE Done \/ UNCHANGED vars
  BY <1>4, StutterStep DEF Done
<1> QED
  BY <1>1, <1>2, <1>3, <1>4 DEF Next

-------------------------------------------------------------------------------
\* The inductive invariant holds in every behaviour, fair or not.
THEOREM Invariance == Spec => []IInv
<1>1. Init => IInv
  BY InitIInv
<1>2. IInv /\ [Next]_vars => IInv'
  BY NextIInv
<1> QED
  BY <1>1, <1>2, PTL DEF Spec

\* What is on the bus was committed, and what is marked published is on it.
THEOREM NothingLostNothingInvented == Spec => []EmittedIffCommitted
<1>1. IInv => EmittedIffCommitted
  BY DEF IInv
<1> QED
  BY <1>1, Invariance, PTL

\* Concurrent replicas never publish twice without a crash or a lost reply.
THEOREM ReplicasDoNotDoublePublish == Spec => []DuplicatesComeFromFaults
<1>1. IInv => DuplicatesComeFromFaults
  BY DEF IInv
<1> QED
  BY <1>1, Invariance, PTL

\* Only rows still waiting are claimed, tried and marked.
LEMMA FinishedStep ==
    IInv /\ [Next]_vars =>
        \A e \in Events : row[e] \in {"published", "undone"} =>
            row'[e] = row[e] /\ Copies(stream', e) = Copies(stream, e)
<1> SUFFICES ASSUME IInv, [Next]_vars, NEW e \in Events, row[e] \in {"published", "undone"}
             PROVE  row'[e] = row[e] /\ Copies(stream', e) = Copies(stream, e)
  OBVIOUS
<1>0. TypeOK /\ stream \in Seq(Events) /\ \A p \in Publishers : e \notin Claimed(p)
  BY DEF IInv, TypeOK, ClaimedWait
<1>1. ASSUME NEW d \in Events, Enqueue(d) \/ EndBusiness(d)
      PROVE  row'[e] = row[e] /\ stream' = stream
  BY <1>0, <1>1 DEF Enqueue, EndBusiness, TypeOK
<1>2. ASSUME NEW p \in Publishers, NEW d \in Events, PublishOk(p, d) \/ ReplyLost(p, d)
      PROVE  row' = row /\ Copies(stream', e) = Copies(stream, e)
  <2>1. d \in todo[p] /\ stream' = Append(stream, d) /\ row' = row
    BY <1>2 DEF PublishOk, ReplyLost, NextRow
  <2>2. d # e
    BY <1>0, <2>1 DEF Claimed
  <2> QED BY <1>0, <2>1, <2>2, CopiesAppend
<1>3. ASSUME NEW p \in Publishers, CommitBatch(p) PROVE row'[e] = row[e] /\ stream' = stream
  BY <1>0, <1>3 DEF CommitBatch, Marked, Claimed
<1>4. CASE UNCHANGED <<row, stream>>
  BY <1>4
<1> QED
  BY <1>1, <1>2, <1>3, <1>4
  DEF Next, Publish, Claim, PublishFails, LoseBatch, ResetStuck, Done, vars

\* What is published or rolled back is never emitted again.
THEOREM FinishedRowsStay == Spec => FinishedIsFinal
BY FinishedStep, Invariance, PTL DEF Spec, FinishedIsFinal

\* Type correctness, the attempts cap included.
THEOREM TypeCorrect == Spec => []TypeOK
<1>1. IInv => TypeOK
  BY DEF IInv
<1> QED
  BY <1>1, Invariance, PTL

-------------------------------------------------------------------------------
(* Alerting: what the rows, the handlers and the records may be.               *)

\* What the channels have said so far.
Heard ==
    {r \in UNION {[S -> UNION {Results(c) : c \in Channels}] : S \in SUBSET Channels} :
        \A c \in DOMAIN r : r[c] \in Results(c)}

Handler ==
    [at : {"idle"}]
    \cup [at : {"asked", "resolving", "ready", "refused", "failed"}, alert : Alerts]
    \cup [at : {"sending", "stored"}, alert : Alerts, results : Heard]

AlertingTypeOK ==
    /\ alert \in [Alerts -> AlertRow \cup {None}]
    /\ DOMAIN proof = Alerts
    /\ request \in [Requests -> Handler]
    /\ holder \in [Alerts -> Requests \cup {None}]
    /\ sent \in [Alerts -> [Channels -> Nat]]
    /\ undone \in [Alerts -> Nat]
    /\ aborts \in 0..MaxAborts

\* The request that has updated an alert's row is the one that sends it.
HolderSends ==
    \A q \in Requests : \A a \in Alerts :
        holder[a] = q <=> (request[q].at = "sending" /\ request[q].alert = a)

\* What a channel was handed and nobody rolled back or stored, the holder hears of.
HolderAnswers ==
    \A a \in Alerts, c \in Channels :
        sent[a][c] <= undone[a] + (IF proof[a] # None THEN 1 ELSE 0)
                        + (IF holder[a] # None /\ c \in DOMAIN request[holder[a]].results
                             THEN 1 ELSE 0)

StoredIsProved ==
    /\ \A q \in Requests : request[q].at = "stored" =>
         /\ proof[request[q].alert] = request[q].results
         /\ DOMAIN request[q].results = Channels
    /\ \A a \in Alerts :
         /\ proof[a] # None => proof[a] \in Heard /\ DOMAIN proof[a] = Channels
         /\ Drafted(a) /\ alert[a].status = "DISPATCHED" => proof[a] # None

AskedIsDrafted ==
    \A q \in Requests : request[q].at # "idle" => Drafted(request[q].alert)

AlertingIInv ==
    AlertingTypeOK /\ HolderSends /\ HolderAnswers /\ StoredIsProved /\ AskedIsDrafted

-------------------------------------------------------------------------------
\* One more channel has answered.
LEMMA HeardMore ==
    ASSUME NEW r \in Heard, NEW c \in Channels, NEW x \in Results(c)
    PROVE  /\ [d \in DOMAIN r \cup {c} |-> IF d = c THEN x ELSE r[d]] \in Heard
           /\ DOMAIN r \subseteq Channels
<1> DEFINE All == UNION {Results(d) : d \in Channels}
           more == [d \in DOMAIN r \cup {c} |-> IF d = c THEN x ELSE r[d]]
<1>1. PICK S \in SUBSET Channels : r \in [S -> All]
  BY DEF Heard
<1>2. DOMAIN r = S /\ \A d \in S : r[d] \in Results(d)
  BY <1>1 DEF Heard
<1>3. S \cup {c} \in SUBSET Channels
  OBVIOUS
<1>4. \A d \in S \cup {c} : more[d] \in Results(d)
  BY <1>2
<1>5. \A d \in S \cup {c} : more[d] \in All
  BY <1>3, <1>4
<1>6. more \in [S \cup {c} -> All]
  BY <1>2, <1>5
<1>7. DOMAIN more = S \cup {c}
  BY <1>2
<1>8. more \in UNION {[T -> All] : T \in SUBSET Channels}
  BY <1>3, <1>6
<1> QED
  BY <1>2, <1>4, <1>7, <1>8 DEF Heard

\* Nothing has answered yet.
LEMMA HeardNothing == <<>> \in Heard /\ DOMAIN <<>> = {}
<1>1. <<>> \in [{} -> UNION {Results(d) : d \in Channels}]
  OBVIOUS
<1>2. DOMAIN <<>> = {}
  OBVIOUS
<1> QED
  BY <1>1, <1>2 DEF Heard

\* All channels have answered: that is not None.
LEMMA HeardAll ==
    ASSUME NEW r \in Heard, DOMAIN r = Channels
    PROVE  r # None
BY ResultsAssumption DEF Heard

\* Requests, rows and None are told apart.
LEMMA NotNone ==
    /\ \A q \in Requests : q # None
    /\ \A x \in AlertRow : x # None
BY AlertingAssumption

\* A request whose handler is at some point has the fields of that point.
LEMMA HandlerFields ==
    ASSUME NEW r \in Handler
    PROVE  /\ r.at # "idle" => r.alert \in Alerts
           /\ r.at \in {"sending", "stored"} => r.results \in Heard
           /\ r.at \in {"idle", "asked", "resolving", "ready", "refused", "failed", "sending", "stored"}
BY DEF Handler

-------------------------------------------------------------------------------
\* The invariant holds to begin with.
LEMMA InitAlertingIInv == AlertingInit => AlertingIInv
<1> SUFFICES ASSUME AlertingInit PROVE AlertingIInv
  OBVIOUS
<1>1. AlertingTypeOK
  BY AlertingAssumption DEF AlertingInit, AlertingTypeOK, Handler
<1>2. HolderSends
  BY NotNone DEF AlertingInit, HolderSends
<1>3. HolderAnswers
  BY DEF AlertingInit, HolderAnswers
<1>4. StoredIsProved /\ AskedIsDrafted
  BY DEF AlertingInit, StoredIsProved, AskedIsDrafted, Drafted
<1> QED
  BY <1>1, <1>2, <1>3, <1>4 DEF AlertingIInv

-------------------------------------------------------------------------------
\* People write an alert's row: the invariant survives whatever they write,
\* but for a dispatch without its proof.
LEMMA RowStep ==
    ASSUME AlertingIInv, NEW a \in Alerts, NEW x \in AlertRow,
           x.status = "DISPATCHED" => Drafted(a) /\ alert[a].status = "DISPATCHED",
           alert' = [alert EXCEPT ![a] = x],
           UNCHANGED <<proof, request, holder, sent, undone, aborts>>
    PROVE  AlertingIInv'
<1> USE DEF AlertingIInv
<1>1. AlertingTypeOK'
  BY DEF AlertingTypeOK
<1>2. HolderSends' /\ HolderAnswers'
  BY DEF HolderSends, HolderAnswers
<1>3. StoredIsProved'
  <2>1. \A b \in Alerts : (Drafted(b) /\ alert[b].status = "DISPATCHED")'
                            => Drafted(b) /\ alert[b].status = "DISPATCHED"
    BY DEF AlertingTypeOK, Drafted
  <2> QED
    BY <2>1 DEF StoredIsProved
<1>4. AskedIsDrafted'
  BY NotNone DEF AskedIsDrafted, Drafted, AlertingTypeOK
<1> QED
  BY <1>1, <1>2, <1>3, <1>4

\* Drafting, signing off and cancelling.
LEMMA PeopleStep ==
    ASSUME AlertingIInv, NEW a \in Alerts,
           (\E freeText \in BOOLEAN : Draft(a, freeText)) \/ SignOff(a) \/ Cancel(a)
    PROVE  AlertingIInv'
<1>1. ASSUME NEW freeText \in BOOLEAN, Draft(a, freeText) PROVE AlertingIInv'
  <2> DEFINE x == [status |-> IF RequiresSignoff(freeText) THEN "PENDING_SIGNOFF" ELSE "DRAFT",
                   freeText |-> freeText, gated |-> RequiresSignoff(freeText), signed |-> FALSE]
  <2>1. x \in AlertRow /\ x.status # "DISPATCHED"
    BY DEF AlertRow, RequiresSignoff
  <2>2. alert' = [alert EXCEPT ![a] = x] /\ UNCHANGED <<proof, request, holder, sent, undone, aborts>>
    BY <1>1 DEF Draft
  <2> QED
    BY <2>1, <2>2, RowStep
<1>2. ASSUME Drafted(a) PROVE alert[a] \in AlertRow
  BY <1>2 DEF AlertingIInv, AlertingTypeOK, Drafted
<1>3. CASE SignOff(a)
  <2> DEFINE x == [alert[a] EXCEPT !.signed = TRUE]
  <2>1. x \in AlertRow /\ x.status = alert[a].status
    BY <1>2, <1>3 DEF SignOff, AlertRow
  <2>2. alert' = [alert EXCEPT ![a] = x] /\ UNCHANGED <<proof, request, holder, sent, undone, aborts>>
    BY <1>3 DEF SignOff
  <2>3. Drafted(a)
    BY <1>3 DEF SignOff
  <2> HIDE DEF x
  <2> QED
    BY <2>1, <2>2, <2>3, RowStep
<1>4. CASE Cancel(a)
  <2> DEFINE x == [alert[a] EXCEPT !.status = "CANCELLED"]
  <2>1. x \in AlertRow /\ x.status # "DISPATCHED"
    BY <1>2, <1>4 DEF Cancel, AlertRow
  <2>2. alert' = [alert EXCEPT ![a] = x] /\ UNCHANGED <<proof, request, holder, sent, undone, aborts>>
    BY <1>4 DEF Cancel
  <2> HIDE DEF x
  <2> QED
    BY <2>1, <2>2, RowStep
<1> QED
  BY <1>1, <1>3, <1>4

\* A request that is not sending moves on without sending anything.
LEMMA MoveStep ==
    ASSUME AlertingIInv, NEW q \in Requests, NEW r \in Handler,
           request[q].at # "sending", r.at \notin {"sending", "stored"}, Drafted(r.alert),
           request' = [request EXCEPT ![q] = r], aborts' \in 0..MaxAborts,
           UNCHANGED <<alert, proof, holder, sent, undone>>
    PROVE  AlertingIInv'
<1> USE DEF AlertingIInv
<1>1. AlertingTypeOK'
  BY DEF AlertingTypeOK
<1>2. HolderSends'
  BY DEF HolderSends, AlertingTypeOK
<1>3. HolderAnswers'
  <2> SUFFICES ASSUME NEW a \in Alerts, NEW c \in Channels
               PROVE  holder[a] # None => request'[holder[a]] = request[holder[a]]
    BY DEF HolderAnswers
  <2> QED
    BY DEF HolderSends, AlertingTypeOK
<1>4. StoredIsProved' /\ AskedIsDrafted'
  BY DEF StoredIsProved, AskedIsDrafted, AlertingTypeOK, Drafted
<1> QED
  BY <1>1, <1>2, <1>3, <1>4

\* Asking, reading and resolving.
LEMMA BeforeStep ==
    ASSUME AlertingIInv, NEW q \in Requests,
           (\E a \in Alerts : Ask(q, a)) \/ Read(q) \/ Resolve(q)
    PROVE  AlertingIInv'
<1> DEFINE Early == [at : {"asked", "resolving", "ready", "refused", "failed"}, alert : Alerts]
<1>0. request[q] \in Handler /\ aborts \in 0..MaxAborts
  BY DEF AlertingIInv, AlertingTypeOK
<1>1. ASSUME NEW a \in Alerts, Ask(q, a) PROVE AlertingIInv'
  <2>1. [at |-> "asked", alert |-> a] \in Handler
    BY DEF Handler
  <2> QED
    BY <1>0, <1>1, <2>1, MoveStep DEF Ask
<1>2. ASSUME NEW at \in {"resolving", "ready", "refused"}, Go(q, at),
             request[q].at \in {"asked", "resolving"},
             UNCHANGED <<alert, proof, holder, sent, undone, aborts>>
      PROVE  AlertingIInv'
  <2> DEFINE r == [request[q] EXCEPT !.at = at]
  <2>1. request[q] \in Early
    BY <1>0, <1>2 DEF Handler
  <2>2. r \in Early /\ r.at = at /\ r.alert = request[q].alert
    BY <2>1
  <2>3. r \in Handler
    BY <2>2 DEF Handler
  <2>4. request' = [request EXCEPT ![q] = r]
    BY <1>2 DEF Go
  <2> HIDE DEF r
  <2>5. Drafted(r.alert)
    BY <1>2, <2>2 DEF AlertingIInv, AskedIsDrafted
  <2> QED
    BY <1>0, <1>2, <2>2, <2>3, <2>4, <2>5, MoveStep
<1>3. CASE Read(q)
  BY <1>2, <1>3 DEF Read
<1>4. CASE Resolve(q)
  BY <1>2, <1>4 DEF Resolve
<1> QED
  BY <1>1, <1>3, <1>4

\* The UPDATE to DISPATCHING takes a free row.
LEMMA StartSendingStep ==
    ASSUME AlertingIInv, NEW q \in Requests, StartSending(q)
    PROVE  AlertingIInv'
<1> USE DEF AlertingIInv
<1> DEFINE a == request[q].alert
           r == [at |-> "sending", alert |-> a, results |-> <<>>]
<1>1. /\ request[q].at = "ready" /\ holder[a] = None
      /\ request' = [request EXCEPT ![q] = r]
      /\ holder' = [holder EXCEPT ![a] = q]
      /\ UNCHANGED <<alert, proof, sent, undone, aborts>>
  BY DEF StartSending
<1>2. a \in Alerts /\ request[q] \in Handler
  BY <1>1, HandlerFields DEF AlertingTypeOK
<1>3. r \in Handler
  BY <1>2, HeardNothing DEF Handler
<1>4. /\ request'[q] = r /\ r.at = "sending" /\ r.alert = a /\ DOMAIN r.results = {}
      /\ \A p \in Requests \ {q} : request'[p] = request[p]
      /\ holder'[a] = q
      /\ \A b \in Alerts \ {a} : holder'[b] = holder[b]
  BY <1>1, <1>2, HeardNothing DEF AlertingTypeOK
<1> HIDE DEF r
<1>5. AlertingTypeOK'
  BY <1>1, <1>2, <1>3 DEF AlertingTypeOK
<1>6. HolderSends'
  <2> SUFFICES ASSUME NEW p \in Requests, NEW b \in Alerts
               PROVE  holder'[b] = p <=> (request'[p].at = "sending" /\ request'[p].alert = b)
    BY DEF HolderSends
  <2>1. holder[a] # p
    BY <1>1, NotNone
  <2> QED
    BY <1>1, <1>2, <1>4, <2>1 DEF HolderSends
<1>7. HolderAnswers'
  <2> SUFFICES ASSUME NEW b \in Alerts, NEW c \in Channels
               PROVE  sent[b][c] <= undone[b] + (IF proof[b] # None THEN 1 ELSE 0)
                        + (IF holder'[b] # None /\ c \in DOMAIN request'[holder'[b]].results
                             THEN 1 ELSE 0)
    BY <1>1 DEF HolderAnswers
  <2>1. CASE b = a
    BY <1>1, <1>2, <1>4, <2>1 DEF HolderAnswers, AlertingTypeOK
  <2>2. CASE b # a
    <3>1. holder'[b] = holder[b] /\ holder[b] # q
      BY <1>1, <1>2, <1>4, <2>2 DEF HolderSends
    <3>2. holder[b] # None => request'[holder[b]] = request[holder[b]]
      BY <1>4, <3>1 DEF AlertingTypeOK
    <3> QED
      BY <3>1, <3>2 DEF HolderAnswers
  <2> QED
    BY <2>1, <2>2
<1>8. StoredIsProved' /\ AskedIsDrafted'
  BY <1>1, <1>4 DEF StoredIsProved, AskedIsDrafted, Drafted
<1> QED
  BY <1>5, <1>6, <1>7, <1>8

\* A request that is sending holds the row of its alert.
LEMMA SenderHolds ==
    ASSUME AlertingIInv, NEW q \in Requests, request[q].at = "sending"
    PROVE  /\ request[q].alert \in Alerts
           /\ holder[request[q].alert] = q
           /\ request[q].results \in Heard
           /\ \A b \in Alerts : b # request[q].alert => holder[b] # q
           /\ \A p \in Requests \ {q} :
                 ~(request[p].at = "sending" /\ request[p].alert = request[q].alert)
<1>1. request[q] \in Handler
  BY DEF AlertingIInv, AlertingTypeOK
<1>2. request[q].alert \in Alerts /\ request[q].results \in Heard
  BY <1>1, HandlerFields
<1> QED
  BY <1>2 DEF AlertingIInv, HolderSends

\* One channel answers.
LEMMA SendStep ==
    ASSUME AlertingIInv, NEW q \in Requests, NEW c \in Channels, Send(q, c)
    PROVE  AlertingIInv'
<1> USE DEF AlertingIInv
<1> DEFINE a == request[q].alert
           old == request[q].results
<1>1. /\ request[q].at = "sending" /\ c \notin DOMAIN old
      /\ sent' = [sent EXCEPT ![a][c] = @ + 1]
      /\ UNCHANGED <<alert, proof, holder, undone, aborts>>
  BY DEF Send
<1>2. PICK x \in Results(c) :
        request' = [request EXCEPT ![q].results =
            [d \in DOMAIN @ \cup {c} |-> IF d = c THEN x ELSE @[d]]]
  BY DEF Send
<1> DEFINE new == [d \in DOMAIN old \cup {c} |-> IF d = c THEN x ELSE old[d]]
           r == [request[q] EXCEPT !.results = new]
<1>3. a \in Alerts /\ holder[a] = q /\ old \in Heard
  BY <1>1, SenderHolds
<1>4. new \in Heard /\ DOMAIN new = DOMAIN old \cup {c}
  BY <1>3, HeardMore
<1>5. request' = [request EXCEPT ![q] = r]
  BY <1>2
<1> HIDE DEF new
<1>6. /\ request[q] \in [at : {"sending", "stored"}, alert : Alerts, results : Heard]
      /\ r \in Handler
      /\ r.at = "sending" /\ r.alert = a /\ r.results = new
  <2>1. request[q] \in Handler
    BY DEF AlertingTypeOK
  <2>2. request[q] \in [at : {"sending", "stored"}, alert : Alerts, results : Heard]
    BY <1>1, <2>1 DEF Handler
  <2>3. /\ r \in [at : {"sending", "stored"}, alert : Alerts, results : Heard]
        /\ r.at = "sending" /\ r.alert = a /\ r.results = new
    BY <1>1, <1>4, <2>2
  <2> QED
    BY <2>2, <2>3 DEF Handler
<1> HIDE DEF r
<1>7. request'[q] = r /\ \A p \in Requests \ {q} : request'[p] = request[p]
  BY <1>5 DEF AlertingTypeOK
<1>8. /\ sent' \in [Alerts -> [Channels -> Nat]]
      /\ sent'[a][c] = sent[a][c] + 1
      /\ \A b \in Alerts, d \in Channels : ~(b = a /\ d = c) => sent'[b][d] = sent[b][d]
  BY <1>1, <1>3 DEF AlertingTypeOK
<1>9. AlertingTypeOK'
  BY <1>1, <1>5, <1>6, <1>8 DEF AlertingTypeOK
<1>10. HolderSends'
  BY <1>1, <1>3, <1>6, <1>7 DEF HolderSends
<1>11. HolderAnswers'
  <2> SUFFICES ASSUME NEW b \in Alerts, NEW d \in Channels
               PROVE  sent'[b][d] <= undone[b] + (IF proof[b] # None THEN 1 ELSE 0)
                        + (IF holder[b] # None /\ d \in DOMAIN request'[holder[b]].results
                             THEN 1 ELSE 0)
    BY <1>1 DEF HolderAnswers
  <2>0. sent[b][d] <= undone[b] + (IF proof[b] # None THEN 1 ELSE 0)
                        + (IF holder[b] # None /\ d \in DOMAIN request[holder[b]].results
                             THEN 1 ELSE 0)
    BY DEF HolderAnswers
  <2>1. CASE b = a
    <3>1. /\ holder[b] = q /\ q # None /\ request'[q].results = new
          /\ DOMAIN new = DOMAIN old \cup {c}
      BY <1>3, <1>4, <1>6, <1>7, <2>1, NotNone
    <3>2. sent[b][d] \in Nat /\ undone[b] \in Nat
      BY DEF AlertingTypeOK
    <3>3. CASE d = c
      <4>1. sent'[b][d] = sent[b][d] + 1 /\ d \notin DOMAIN old /\ d \in DOMAIN new
        BY <1>1, <1>8, <2>1, <3>1, <3>3
      <4> HIDE DEF old
      <4> QED
        BY <1>1, <2>0, <3>1, <3>2, <4>1 DEF old
    <3>4. CASE d # c
      BY <1>8, <2>0, <2>1, <3>1, <3>2, <3>4
    <3> QED
      BY <3>3, <3>4
  <2>2. CASE b # a
    <3>1. holder[b] # q
      BY <1>1, <2>2, SenderHolds
    <3>2. holder[b] # None => request'[holder[b]] = request[holder[b]]
      BY <1>7, <3>1 DEF AlertingTypeOK
    <3> QED
      BY <1>8, <2>0, <2>2, <3>2
  <2> QED
    BY <2>1, <2>2
<1>12. StoredIsProved' /\ AskedIsDrafted'
  BY <1>1, <1>6, <1>7 DEF StoredIsProved, AskedIsDrafted, Drafted
<1> QED
  BY <1>9, <1>10, <1>11, <1>12

\* A rollback forgets a request, and counts it if it had begun to send.
LEMMA RollBackStep ==
    ASSUME AlertingIInv, NEW q \in Requests, request[q].at \in Working, RollBack(q),
           aborts' \in 0..MaxAborts, UNCHANGED <<alert, proof, sent>>
    PROVE  AlertingIInv'
<1> USE DEF AlertingIInv
<1> DEFINE a == request[q].alert
           r == [at |-> "failed", alert |-> a]
<1>1. /\ request' = [request EXCEPT ![q] = r]
      /\ holder' = [holder EXCEPT ![a] = IF @ = q THEN None ELSE @]
      /\ undone' = [undone EXCEPT ![a] = IF request[q].at = "sending" THEN @ + 1 ELSE @]
  BY DEF RollBack, End
<1>2. a \in Alerts /\ r \in Handler
  <2>1. request[q] \in Handler /\ request[q].at # "idle"
    BY DEF AlertingTypeOK, Working
  <2> QED
    BY <2>1, HandlerFields DEF Handler
<1>3. /\ request'[q] = r /\ r.at = "failed" /\ r.alert = a
      /\ \A p \in Requests \ {q} : request'[p] = request[p]
      /\ \A b \in Alerts \ {a} : holder'[b] = holder[b] /\ undone'[b] = undone[b]
      /\ holder'[a] = IF holder[a] = q THEN None ELSE holder[a]
      /\ undone'[a] = IF request[q].at = "sending" THEN undone[a] + 1 ELSE undone[a]
  BY <1>1, <1>2 DEF AlertingTypeOK
<1> HIDE DEF r
<1>4. AlertingTypeOK'
  BY <1>1, <1>2, <1>3 DEF AlertingTypeOK
<1>5. \A b \in Alerts : holder'[b] # q /\ (holder[b] # q => holder'[b] = holder[b])
  BY <1>2, <1>3, NotNone, SenderHolds DEF HolderSends
<1>6. HolderSends'
  <2> SUFFICES ASSUME NEW p \in Requests, NEW b \in Alerts
               PROVE  holder'[b] = p <=> (request'[p].at = "sending" /\ request'[p].alert = b)
    BY DEF HolderSends
  <2>1. CASE p = q
    BY <1>3, <1>5, <2>1
  <2>2. CASE p # q
    BY <1>3, <1>5, <2>2, NotNone DEF HolderSends
  <2> QED
    BY <2>1, <2>2
<1>7. HolderAnswers'
  <2> SUFFICES ASSUME NEW b \in Alerts, NEW c \in Channels
               PROVE  sent[b][c] <= undone'[b] + (IF proof[b] # None THEN 1 ELSE 0)
                        + (IF holder'[b] # None /\ c \in DOMAIN request'[holder'[b]].results
                             THEN 1 ELSE 0)
    BY DEF HolderAnswers
  <2>0. /\ sent[b][c] <= undone[b] + (IF proof[b] # None THEN 1 ELSE 0)
                        + (IF holder[b] # None /\ c \in DOMAIN request[holder[b]].results
                             THEN 1 ELSE 0)
        /\ sent[b][c] \in Nat /\ undone[b] \in Nat
    BY DEF HolderAnswers, AlertingTypeOK
  <2>1. CASE holder[b] = q
    <3>1. request[q].at = "sending" /\ b = a
      BY <2>1 DEF HolderSends
    <3>2. holder'[b] = None /\ undone'[b] = undone[b] + 1
      BY <1>3, <2>1, <3>1
    <3> QED
      BY <2>0, <3>2
  <2>2. CASE holder[b] # q
    <3>1. holder'[b] = holder[b]
      BY <1>5, <2>2
    <3>2. holder[b] # None => request'[holder[b]] = request[holder[b]]
      BY <1>3, <2>2 DEF AlertingTypeOK
    <3>3. undone'[b] >= undone[b]
      BY <1>3, <2>0
    <3>4. undone'[b] \in Nat
      BY <1>4 DEF AlertingTypeOK
    <3> QED
      BY <2>0, <3>1, <3>2, <3>3, <3>4
  <2> QED
    BY <2>1, <2>2
<1>8. StoredIsProved' /\ AskedIsDrafted'
  BY <1>2, <1>3 DEF StoredIsProved, AskedIsDrafted, Drafted, Working
<1> QED
  BY <1>4, <1>6, <1>7, <1>8

\* The rows of every channel are stored, or refused.
LEMMA StoreStep ==
    ASSUME AlertingIInv, NEW q \in Requests, Store(q)
    PROVE  AlertingIInv'
<1> USE DEF AlertingIInv
<1> DEFINE a == request[q].alert
           told == request[q].results
           r == [request[q] EXCEPT !.at = "stored"]
           x == [alert[a] EXCEPT !.status = "DISPATCHED"]
<1>1. /\ request[q].at = "sending" /\ DOMAIN told = Channels
      /\ UNCHANGED <<sent, aborts>>
  BY DEF Store
<1>2. /\ a \in Alerts /\ holder[a] = q /\ told \in Heard
      /\ \A b \in Alerts : b # a => holder[b] # q
  BY <1>1, SenderHolds
<1>3. CASE AlreadyStored(a)
  <2>1. RollBack(q) /\ UNCHANGED <<alert, proof>>
    BY <1>3 DEF Store
  <2>2. aborts' \in 0..MaxAborts
    BY <1>1 DEF AlertingTypeOK
  <2> QED
    BY <1>1, <2>1, <2>2, RollBackStep DEF Working
<1>4. CASE ~AlreadyStored(a)
  <2>1. /\ proof' = [proof EXCEPT ![a] = told]
        /\ alert' = [alert EXCEPT ![a] = x]
        /\ request' = [request EXCEPT ![q] = r]
        /\ holder' = [holder EXCEPT ![a] = None]
        /\ UNCHANGED undone
        /\ proof[a] = None
    BY <1>4 DEF Store, Go, AlreadyStored
  <2>2. /\ r \in Handler /\ r.at = "stored" /\ r.alert = a /\ r.results = told
    <3>1. request[q] \in Handler
      BY DEF AlertingTypeOK
    <3>2. request[q] \in [at : {"sending", "stored"}, alert : Alerts, results : Heard]
      BY <1>1, <3>1 DEF Handler
    <3>3. /\ r \in [at : {"sending", "stored"}, alert : Alerts, results : Heard]
          /\ r.at = "stored" /\ r.alert = a /\ r.results = told
      BY <3>2
    <3> QED
      BY <3>3 DEF Handler
  <2> HIDE DEF r
  <2>3. /\ request'[q] = r
        /\ \A p \in Requests \ {q} : request'[p] = request[p]
        /\ \A b \in Alerts \ {a} : holder'[b] = holder[b] /\ proof'[b] = proof[b] /\ alert'[b] = alert[b]
        /\ holder'[a] = None /\ proof'[a] = told /\ alert'[a] = x
    BY <1>2, <2>1 DEF AlertingTypeOK
  <2>4. told # None
    BY <1>1, <1>2, HeardAll
  <2>5. x \in AlertRow
    <3>1. alert[a] \in AlertRow
      BY <1>1, <1>2 DEF AskedIsDrafted, Drafted, AlertingTypeOK
    <3> QED
      BY <3>1 DEF AlertRow
  <2> HIDE DEF x
  <2>6. AlertingTypeOK'
    BY <1>1, <1>2, <2>1, <2>2, <2>5 DEF AlertingTypeOK
  <2>7. HolderSends'
    <3> SUFFICES ASSUME NEW p \in Requests, NEW b \in Alerts
                 PROVE  holder'[b] = p <=> (request'[p].at = "sending" /\ request'[p].alert = b)
      BY DEF HolderSends
    <3>1. CASE p = q
      BY <1>2, <2>2, <2>3, <3>1, NotNone
    <3>2. CASE p # q
      BY <1>1, <1>2, <2>3, <3>2, NotNone, SenderHolds DEF HolderSends
    <3> QED
      BY <3>1, <3>2
  <2>8. HolderAnswers'
    <3> SUFFICES ASSUME NEW b \in Alerts, NEW c \in Channels
                 PROVE  sent[b][c] <= undone[b] + (IF proof'[b] # None THEN 1 ELSE 0)
                          + (IF holder'[b] # None /\ c \in DOMAIN request'[holder'[b]].results
                               THEN 1 ELSE 0)
      BY <1>1, <2>1 DEF HolderAnswers
    <3>0. /\ sent[b][c] <= undone[b] + (IF proof[b] # None THEN 1 ELSE 0)
                          + (IF holder[b] # None /\ c \in DOMAIN request[holder[b]].results
                               THEN 1 ELSE 0)
          /\ sent[b][c] \in Nat /\ undone[b] \in Nat
      BY DEF HolderAnswers, AlertingTypeOK
    <3>1. CASE b = a
      BY <1>2, <2>1, <2>3, <2>4, <3>0, <3>1
    <3>2. CASE b # a
      <4>1. holder'[b] = holder[b] /\ proof'[b] = proof[b] /\ holder[b] # q
        BY <1>2, <2>3, <3>2
      <4>2. holder[b] # None => request'[holder[b]] = request[holder[b]]
        BY <2>3, <4>1 DEF AlertingTypeOK
      <4> QED
        BY <3>0, <4>1, <4>2
    <3> QED
      BY <3>1, <3>2
  <2>9. StoredIsProved'
    <3>1. \A p \in Requests : request[p].at = "stored" => request[p].alert # a
      BY <1>2, <2>1 , HeardAll, HandlerFields DEF StoredIsProved, AlertingTypeOK
    <3>2. ASSUME NEW p \in Requests, request'[p].at = "stored"
          PROVE  /\ proof'[request'[p].alert] = request'[p].results
                 /\ DOMAIN request'[p].results = Channels
      <4>1. CASE p = q
        BY <1>1, <2>2, <2>3, <4>1
      <4>2. CASE p # q
        <5>1. request'[p] = request[p] /\ request[p].alert \in Alerts \ {a}
          BY <2>3, <3>1, <3>2, <4>2, HandlerFields DEF AlertingTypeOK
        <5> QED
          BY <2>3, <3>2, <5>1 DEF StoredIsProved
      <4> QED
        BY <4>1, <4>2
    <3>3. ASSUME NEW b \in Alerts
          PROVE  /\ proof'[b] # None => proof'[b] \in Heard /\ DOMAIN proof'[b] = Channels
                 /\ Drafted(b)' /\ alert'[b].status = "DISPATCHED" => proof'[b] # None
      BY <1>1, <1>2, <2>3, <2>4 DEF StoredIsProved, Drafted
    <3> QED
      BY <3>2, <3>3 DEF StoredIsProved
  <2>10. AskedIsDrafted'
    <3> SUFFICES ASSUME NEW p \in Requests, request'[p].at # "idle"
                 PROVE  alert'[request'[p].alert] # None
      BY DEF AskedIsDrafted, Drafted
    <3>1. CASE p = q
      BY <2>2, <2>3, <2>5, <3>1, NotNone
    <3>2. CASE p # q
      <4>1. request[p].at # "idle" /\ request[p].alert \in Alerts
        BY <2>3, <3>2, HandlerFields DEF AlertingTypeOK
      <4> QED
        BY <2>3, <2>5, <3>2, <4>1, NotNone DEF AskedIsDrafted, Drafted
    <3> QED
      BY <3>1, <3>2
  <2> QED
    BY <2>6, <2>7, <2>8, <2>9, <2>10
<1> QED
  BY <1>3, <1>4

\* A process dies in the middle of a request.
LEMMA AbortStep ==
    ASSUME AlertingIInv, NEW q \in Requests, Abort(q)
    PROVE  AlertingIInv'
<1>1. aborts' \in 0..MaxAborts
  BY AlertingAssumption DEF Abort, AlertingIInv, AlertingTypeOK
<1> QED
  BY <1>1, RollBackStep DEF Abort

\* Every step keeps the invariant.
LEMMA AlertingNextStep == AlertingIInv /\ [AlertingNext]_alertingVars => AlertingIInv'
<1> SUFFICES ASSUME AlertingIInv, [AlertingNext]_alertingVars PROVE AlertingIInv'
  OBVIOUS
<1>1. CASE Operate
  BY <1>1, PeopleStep, BeforeStep DEF Operate
<1>2. ASSUME NEW q \in Requests, Work(q) PROVE AlertingIInv'
  BY <1>2, BeforeStep, StartSendingStep, StoreStep, SendStep DEF Work
<1>3. ASSUME NEW q \in Requests, Abort(q) PROVE AlertingIInv'
  BY <1>3, AbortStep
<1>4. CASE UNCHANGED alertingVars
  BY <1>4 DEF alertingVars, AlertingIInv, AlertingTypeOK, HolderSends, HolderAnswers,
              StoredIsProved, AskedIsDrafted, Drafted
<1> QED
  BY <1>1, <1>2, <1>3, <1>4 DEF AlertingNext

\* The invariant of alerting-svc.
LEMMA AlertingInvariance == AlertingSpec => []AlertingIInv
BY InitAlertingIInv, AlertingNextStep, PTL DEF AlertingSpec

-------------------------------------------------------------------------------
(* Alerting: what a row keeps, and what is signed before it is sent.           *)

\* Nobody has to sign this alert any more.
Cleared(a) == Drafted(a) /\ (alert[a].gated => alert[a].signed)

SentIsSigned ==
    /\ \A a \in Alerts : Drafted(a) => alert[a].gated = alert[a].freeText
    /\ \A a \in Alerts, c \in Channels : sent[a][c] # 0 => Cleared(a)
    /\ \A q \in Requests : request[q].at = "sending" => Cleared(request[q].alert)

\* A handler that moves on stays with its alert.
LEMMA GoKeeps ==
    ASSUME AlertingIInv, NEW q \in Requests, NEW at, Go(q, at), request[q].at # "idle"
    PROVE  /\ request'[q].at = at /\ request'[q].alert = request[q].alert
           /\ \A p \in Requests \ {q} : request'[p] = request[p]
<1> DEFINE Brief == [at : {"asked", "resolving", "ready", "refused", "failed"}, alert : Alerts]
           Full == [at : {"sending", "stored"}, alert : Alerts, results : Heard]
           r == [request[q] EXCEPT !.at = at]
<1>1. request[q] \in Handler /\ request \in [Requests -> Handler]
  BY DEF AlertingIInv, AlertingTypeOK
<1>2. request[q] \in Brief \/ request[q] \in Full
  BY <1>1 DEF Handler
<1>3. r.at = at /\ r.alert = request[q].alert
  BY <1>2
<1>4. request' = [request EXCEPT ![q] = r]
  BY DEF Go
<1> HIDE DEF r
<1> QED
  BY <1>1, <1>3, <1>4

\* What a step of a handler does to the handlers: all stay with their alerts,
\* and one that begins to send has looked at the row it locks.
LEMMA HandlersStay ==
    ASSUME AlertingIInv, NEW q \in Requests, Work(q) \/ Abort(q)
    PROVE  /\ \A p \in Requests : request'[p].at # "idle" =>
                 request[p].at # "idle" /\ request'[p].alert = request[p].alert
           /\ \A p \in Requests : request'[p].at = "sending" =>
                 request[p].at = "sending" \/ Cleared(request[p].alert)
<1> DEFINE Goal ==
        /\ \A p \in Requests : request'[p].at # "idle" =>
              request[p].at # "idle" /\ request'[p].alert = request[p].alert
        /\ \A p \in Requests : request'[p].at = "sending" =>
              request[p].at = "sending" \/ Cleared(request[p].alert)
<1>0. request[q] \in Handler /\ request \in [Requests -> Handler]
  BY DEF AlertingIInv, AlertingTypeOK
<1>1. ASSUME NEW at, Go(q, at), request[q].at # "idle", at # "sending" PROVE Goal
  BY <1>1, GoKeeps
<1>2. CASE Read(q) \/ Resolve(q)
  BY <1>1, <1>2 DEF Read, Resolve
<1>3. ASSUME NEW r, request' = [request EXCEPT ![q] = r], request[q].at # "idle",
             r.alert = request[q].alert,
             r.at = "sending" => request[q].at = "sending" \/ Cleared(request[q].alert)
      PROVE  Goal
  BY <1>0, <1>3
<1>4. CASE StartSending(q)
  <2>1. Cleared(request[q].alert)
    BY <1>4 DEF StartSending, Cleared, AlertingIInv, AskedIsDrafted
  <2> DEFINE r == [at |-> "sending", alert |-> request[q].alert, results |-> <<>>]
  <2>2. request' = [request EXCEPT ![q] = r] /\ request[q].at # "idle" /\ r.alert = request[q].alert
    BY <1>4 DEF StartSending
  <2> HIDE DEF r
  <2> QED
    BY <1>3, <2>1, <2>2
<1>5. ASSUME NEW c \in Channels, Send(q, c) PROVE Goal
  <2>1. PICK x \in Results(c) :
          request' = [request EXCEPT ![q].results =
              [d \in DOMAIN @ \cup {c} |-> IF d = c THEN x ELSE @[d]]]
    BY <1>5 DEF Send
  <2> DEFINE new == [d \in DOMAIN request[q].results \cup {c} |->
                        IF d = c THEN x ELSE request[q].results[d]]
             r == [request[q] EXCEPT !.results = new]
  <2>2. request' = [request EXCEPT ![q] = r]
    BY <2>1
  <2>3. request[q].at = "sending"
    BY <1>5 DEF Send
  <2> HIDE DEF new
  <2>4. request[q] \in [at : {"sending", "stored"}, alert : Alerts, results : Heard]
    BY <1>0, <2>3 DEF Handler
  <2>5. r.alert = request[q].alert
    BY <2>4
  <2> HIDE DEF r
  <2> QED
    BY <1>3, <2>2, <2>3, <2>5
<1>6. ASSUME RollBack(q), request[q].at # "idle" PROVE Goal
  <2> DEFINE r == [at |-> "failed", alert |-> request[q].alert]
  <2>1. request' = [request EXCEPT ![q] = r] /\ r.alert = request[q].alert /\ r.at # "sending"
    BY <1>6 DEF RollBack, End
  <2> HIDE DEF r
  <2> QED
    BY <1>3, <1>6, <2>1
<1>7. CASE Store(q)
  BY <1>1, <1>6, <1>7 DEF Store
<1>8. CASE Abort(q)
  BY <1>6, <1>8 DEF Abort, Working
<1> QED
  BY <1>2, <1>4, <1>5, <1>7, <1>8 DEF Work

\* What a row says of its text does not change, and no signature or proof is lost.
LEMMA RowsKeep ==
    ASSUME AlertingIInv,
           \/ \E a \in Alerts : (\E free \in BOOLEAN : Draft(a, free)) \/ SignOff(a) \/ Cancel(a)
           \/ \E q \in Requests : Work(q) \/ Abort(q) \/ \E a \in Alerts : Ask(q, a)
    PROVE  \A a \in Alerts :
              /\ Drafted(a) => /\ Drafted(a)' /\ alert'[a].freeText = alert[a].freeText
                               /\ alert'[a].gated = alert[a].gated
                               /\ alert[a].signed => alert'[a].signed
              /\ proof[a] # None => proof'[a] = proof[a]
<1> DEFINE Goal ==
        \A a \in Alerts :
              /\ Drafted(a) => /\ Drafted(a)' /\ alert'[a].freeText = alert[a].freeText
                               /\ alert'[a].gated = alert[a].gated
                               /\ alert[a].signed => alert'[a].signed
              /\ proof[a] # None => proof'[a] = proof[a]
<1>0. /\ alert \in [Alerts -> AlertRow \cup {None}] /\ DOMAIN proof = Alerts
      /\ \A a \in Alerts : Drafted(a) => alert[a] \in AlertRow
  BY DEF AlertingIInv, AlertingTypeOK, Drafted
<1>1. ASSUME NEW a \in Alerts, NEW x \in AlertRow, alert' = [alert EXCEPT ![a] = x],
             Drafted(a) => /\ x.freeText = alert[a].freeText /\ x.gated = alert[a].gated
                           /\ alert[a].signed => x.signed,
             \A b \in Alerts : proof[b] # None => proof'[b] = proof[b]
      PROVE  Goal
  BY <1>0, <1>1, NotNone DEF Drafted
<1>2. ASSUME NEW a \in Alerts, NEW free \in BOOLEAN, Draft(a, free) PROVE Goal
  <2> DEFINE x == [status |-> IF RequiresSignoff(free) THEN "PENDING_SIGNOFF" ELSE "DRAFT",
                   freeText |-> free, gated |-> RequiresSignoff(free), signed |-> FALSE]
  <2>1. x \in AlertRow
    BY DEF AlertRow, RequiresSignoff
  <2>2. ~Drafted(a) /\ alert' = [alert EXCEPT ![a] = x] /\ proof' = proof
    BY <1>2 DEF Draft
  <2> HIDE DEF x
  <2> QED
    BY <1>1, <2>1, <2>2
<1>3. ASSUME NEW a \in Alerts, SignOff(a) PROVE Goal
  <2> DEFINE x == [alert[a] EXCEPT !.signed = TRUE]
  <2>1. alert[a] \in AlertRow /\ alert' = [alert EXCEPT ![a] = x] /\ proof' = proof
    BY <1>0, <1>3 DEF SignOff
  <2>2. x \in AlertRow /\ x.freeText = alert[a].freeText /\ x.gated = alert[a].gated /\ x.signed
    BY <2>1 DEF AlertRow
  <2> HIDE DEF x
  <2> QED
    BY <1>1, <2>1, <2>2
<1>4. ASSUME UNCHANGED <<alert, proof>> PROVE Goal
  BY <1>4 DEF Drafted
<1>7. ASSUME NEW a \in Alerts, Cancel(a) PROVE Goal
  <2> DEFINE x == [alert[a] EXCEPT !.status = "CANCELLED"]
  <2>1. alert[a] \in AlertRow /\ alert' = [alert EXCEPT ![a] = x] /\ proof' = proof
    BY <1>0, <1>7 DEF Cancel
  <2>2. x \in AlertRow /\ x.freeText = alert[a].freeText /\ x.gated = alert[a].gated
        /\ x.signed = alert[a].signed
    BY <2>1 DEF AlertRow
  <2> HIDE DEF x
  <2> QED
    BY <1>1, <2>1, <2>2
<1>5. ASSUME NEW q \in Requests, Store(q) PROVE Goal
  <2> DEFINE a == request[q].alert
             x == [alert[a] EXCEPT !.status = "DISPATCHED"]
  <2>1. CASE AlreadyStored(a)
    BY <1>4, <1>5, <2>1 DEF Store
  <2>2. CASE ~AlreadyStored(a)
    <3>1. /\ alert' = [alert EXCEPT ![a] = x] /\ proof[a] = None
          /\ proof' = [proof EXCEPT ![a] = request[q].results]
      BY <1>5, <2>2 DEF Store, AlreadyStored
    <3>2. a \in Alerts /\ alert[a] \in AlertRow
      <4>1. request[q].at = "sending"
        BY <1>5 DEF Store
      <4> QED
        BY <1>0, <4>1, SenderHolds DEF AlertingIInv, AskedIsDrafted
    <3>3. x \in AlertRow /\ x.freeText = alert[a].freeText /\ x.gated = alert[a].gated
          /\ x.signed = alert[a].signed
      BY <3>2 DEF AlertRow
    <3> HIDE DEF x
    <3>4. \A b \in Alerts : proof[b] # None => proof'[b] = proof[b]
      BY <1>0, <3>1
    <3> QED
      BY <1>1, <3>1, <3>2, <3>3, <3>4
  <2> QED
    BY <2>1, <2>2
<1>6. ASSUME NEW q \in Requests, Work(q) \/ Abort(q) \/ \E a \in Alerts : Ask(q, a) PROVE Goal
  BY <1>4, <1>5, <1>6 DEF Work, Read, Resolve, StartSending, Send, Abort, Ask
<1> QED
  BY <1>2, <1>3, <1>6, <1>7

\* Only what is signed, where it must be, is sent.
LEMMA SentStep ==
    ASSUME AlertingIInv, SentIsSigned,
           \/ \E a \in Alerts : (\E free \in BOOLEAN : Draft(a, free)) \/ SignOff(a) \/ Cancel(a)
           \/ \E q \in Requests : Work(q) \/ Abort(q) \/ \E a \in Alerts : Ask(q, a)
    PROVE  SentIsSigned'
<1> DEFINE Rows == \A a \in Alerts : Drafted(a)' /\ ~Drafted(a) => alert'[a].gated = alert'[a].freeText
           Sends == \A a \in Alerts, c \in Channels : sent'[a][c] # 0 => sent[a][c] # 0 \/ Cleared(a)
           Senders == \A q \in Requests : request'[q].at = "sending" =>
                        /\ request'[q].alert = request[q].alert /\ request[q].at # "idle"
                        /\ request[q].at = "sending" \/ Cleared(request[q].alert)
<1>0. /\ alert \in [Alerts -> AlertRow \cup {None}]
      /\ request \in [Requests -> Handler]
      /\ sent \in [Alerts -> [Channels -> Nat]]
  BY DEF AlertingIInv, AlertingTypeOK
<1>1. \A a \in Alerts : Cleared(a) => Cleared(a)'
  BY RowsKeep DEF Cleared
<1>2. ASSUME NEW a \in Alerts, NEW free \in BOOLEAN, Draft(a, free) PROVE Rows /\ Sends /\ Senders
  BY <1>0, <1>2 DEF Draft, RequiresSignoff, Drafted
<1>3. ASSUME NEW a \in Alerts, SignOff(a) \/ Cancel(a) PROVE Rows /\ Sends /\ Senders
  BY <1>0, <1>3 DEF SignOff, Cancel, Drafted
<1>4. ASSUME NEW q \in Requests, NEW a \in Alerts, Ask(q, a) PROVE Rows /\ Sends /\ Senders
  BY <1>0, <1>4 DEF Ask, Drafted
<1>5. ASSUME NEW q \in Requests, Work(q) \/ Abort(q) PROVE Rows /\ Sends /\ Senders
  <2>1. Rows
    <3>1. CASE Store(q)
      <4>1. \A a \in Alerts : alert'[a] = alert[a] \/ a = request[q].alert
        BY <1>0, <3>1 DEF Store
      <4>2. Drafted(request[q].alert)
        BY <3>1 DEF Store, AlertingIInv, AskedIsDrafted
      <4> QED
        BY <4>1, <4>2 DEF Drafted
    <3>2. CASE ~Store(q)
      BY <1>5, <3>2 DEF Work, Read, Resolve, StartSending, Send, Abort, Drafted
    <3> QED
      BY <3>1, <3>2
  <2>2. Sends
    <3>1. ASSUME NEW c \in Channels, Send(q, c) PROVE Sends
      <4>1. Cleared(request[q].alert)
        BY <3>1 DEF Send, SentIsSigned
      <4>2. \A a \in Alerts, d \in Channels : sent'[a][d] = sent[a][d] \/ a = request[q].alert
        BY <1>0, <3>1 DEF Send
      <4> QED
        BY <4>1, <4>2
    <3>2. CASE sent' = sent
      BY <3>2
    <3> QED
      BY <1>5, <3>1, <3>2 DEF Work, Read, Resolve, StartSending, Store, Abort
  <2>3. Senders
    BY <1>5, HandlersStay
  <2> QED
    BY <2>1, <2>2, <2>3
<1>6. Rows /\ Sends /\ Senders
  BY <1>2, <1>3, <1>4, <1>5
<1>7. \A q \in Requests : request[q].at # "idle" => request[q].alert \in Alerts
  BY <1>0, HandlerFields
<1>8. \A a \in Alerts : Drafted(a)' => alert'[a].gated = alert'[a].freeText
  BY <1>6, RowsKeep DEF SentIsSigned
<1>9. \A a \in Alerts, c \in Channels : sent'[a][c] # 0 => Cleared(a)'
  BY <1>1, <1>6 DEF SentIsSigned
<1>10. ASSUME NEW q \in Requests, request'[q].at = "sending"
       PROVE  Cleared(request[q].alert)' /\ request'[q].alert = request[q].alert
  <2>1. Cleared(request[q].alert) /\ request'[q].alert = request[q].alert
    BY <1>6, <1>10 DEF SentIsSigned
  <2>2. request[q].alert \in Alerts
    BY <1>6, <1>7, <1>10
  <2> QED
    BY <1>1, <2>1, <2>2
<1> QED
  BY <1>8, <1>9, <1>10 DEF SentIsSigned

-------------------------------------------------------------------------------
\* Whoever was sent an alert twice was sent it by a dispatch that was rolled
\* back, for any alerts, dispatches, channels and crashes.
THEOREM RepeatsAreRollbacks == AlertingSpec => []RepeatsWereRolledBack
<1>1. AlertingIInv => RepeatsWereRolledBack
  <2> SUFFICES ASSUME AlertingIInv, NEW a \in Alerts, NEW c \in Channels
               PROVE  sent[a][c] <= undone[a] + (IF proof[a] # None THEN 1 ELSE 0)
                        + (IF holder[a] # None THEN 1 ELSE 0)
    BY DEF RepeatsWereRolledBack
  <2>1. sent[a][c] \in Nat /\ undone[a] \in Nat
    BY DEF AlertingIInv, AlertingTypeOK
  <2> QED
    BY <2>1 DEF AlertingIInv, HolderAnswers
<1> QED
  BY <1>1, AlertingInvariance, PTL

\* An alert that is closed without having been cancelled has a row and receipts
\* for every channel.
THEOREM ClosedHasItsProof == AlertingSpec => []ClosedIsProved
<1>1. AlertingIInv => ClosedIsProved
  BY DEF AlertingIInv, AlertingTypeOK, StoredIsProved, ClosedIsProved, MayBeSent, AlertRow, Drafted
<1> QED
  BY <1>1, AlertingInvariance, PTL

\* What alerting-svc has sent was signed where it had to be.
LEMMA SendingInvariance == AlertingSpec => [](AlertingIInv /\ SentIsSigned)
<1>1. AlertingInit => AlertingIInv /\ SentIsSigned
  <2>1. AlertingInit => SentIsSigned
    BY DEF AlertingInit, SentIsSigned, Drafted
  <2> QED
    BY <2>1, InitAlertingIInv
<1>2. AlertingIInv /\ SentIsSigned /\ [AlertingNext]_alertingVars => (AlertingIInv /\ SentIsSigned)'
  <2> SUFFICES ASSUME AlertingIInv, SentIsSigned, [AlertingNext]_alertingVars
               PROVE  SentIsSigned'
    BY AlertingNextStep
  <2>1. CASE AlertingNext
    BY <2>1, SentStep DEF AlertingNext, Operate
  <2>2. CASE UNCHANGED alertingVars
    BY <2>2 DEF alertingVars, SentIsSigned, Cleared, Drafted
  <2> QED
    BY <2>1, <2>2
<1> QED
  BY <1>1, <1>2, PTL DEF AlertingSpec

\* Text that had to be signed off reaches nobody before it is, whatever the
\* dispatches that read the row, begin, die and are rolled back.
THEOREM UnsignedTextStays == AlertingSpec => []NothingUnsignedIsSent
<1>1. AlertingIInv /\ SentIsSigned => NothingUnsignedIsSent
  BY DEF AlertingIInv, AlertingTypeOK, SentIsSigned, Cleared, NothingUnsignedIsSent
<1> QED
  BY <1>1, SendingInvariance, PTL

\* However many dispatches of an alert race, one is told that it was stored.
THEOREM OneIsTold == AlertingSpec => []OneDispatchIsTold
<1> DEFINE Inv == AlertingIInv /\ OneDispatchIsTold
<1>1. AlertingInit => Inv
  BY InitAlertingIInv DEF AlertingInit, OneDispatchIsTold
<1>2. Inv /\ [AlertingNext]_alertingVars => Inv'
  <2> SUFFICES ASSUME Inv, [AlertingNext]_alertingVars PROVE OneDispatchIsTold'
    BY AlertingNextStep
  <2>0. /\ request \in [Requests -> Handler]
        /\ \A p \in Requests : request[p].at = "stored" => proof[request[p].alert] # None
    <3>1. request \in [Requests -> Handler]
      BY DEF AlertingIInv, AlertingTypeOK
    <3>2. ASSUME NEW p \in Requests, request[p].at = "stored"
          PROVE  proof[request[p].alert] # None
      <4>1. request[p].results \in Heard
        BY <3>1, <3>2, HandlerFields
      <4> QED
        BY <3>2, <4>1, HeardAll DEF AlertingIInv, StoredIsProved
    <3> QED
      BY <3>1, <3>2
  <2>1. ASSUME NEW q \in Requests, Work(q) \/ Abort(q) PROVE OneDispatchIsTold'
    <3> DEFINE Told(p) == request'[p].at = "stored"
                            => request[p].at = "stored" /\ request'[p].alert = request[p].alert
    <3>1. CASE ~(Store(q) /\ ~AlreadyStored(request[q].alert))
      <4>1. \A p \in Requests : request'[p].at = "stored" => request[p].at = "stored"
        <5>1. CASE Read(q) \/ Resolve(q)
          BY <5>1, GoKeeps DEF Read, Resolve
        <5>2. CASE StartSending(q) \/ RollBack(q)
          BY <2>0, <5>2 DEF StartSending, RollBack, End
        <5>3. ASSUME NEW c \in Channels, Send(q, c)
              PROVE  \A p \in Requests : request'[p].at = "stored" => request[p].at = "stored"
          <6>1. PICK x : request' = [request EXCEPT ![q].results = x]
            BY <5>3 DEF Send
          <6>2. request[q] \in [at : {"sending", "stored"}, alert : Alerts, results : Heard]
            BY <2>0, <5>3 DEF Send, Handler
          <6>3. request'[q].at = request[q].at
            BY <2>0, <6>1, <6>2
          <6>4. \A p \in Requests \ {q} : request'[p] = request[p]
            BY <2>0, <6>1
          <6> QED
            BY <6>3, <6>4
        <5> QED
          BY <2>1, <3>1, <5>1, <5>2, <5>3 DEF Work, Store, Abort
      <4>2. \A p \in Requests : Told(p)
        BY <2>1, <4>1, HandlersStay
      <4> QED
        BY <4>2 DEF OneDispatchIsTold
    <3>2. CASE Store(q) /\ ~AlreadyStored(request[q].alert)
      <4>1. \A p \in Requests \ {q} : request'[p] = request[p]
        BY <2>0, <3>2 DEF Store, Go
      <4>2. request'[q].alert = request[q].alert /\ proof[request[q].alert] = None
        BY <3>2, GoKeeps DEF Store, AlreadyStored
      <4>3. \A p \in Requests \ {q} :
               request'[p].at = "stored" => request'[p].alert # request'[q].alert
        BY <2>0, <4>1, <4>2
      <4> QED
        BY <4>1, <4>3 DEF OneDispatchIsTold
    <3> QED
      BY <3>1, <3>2
  <2>2. CASE Operate
    <3>1. ASSUME NEW q \in Requests, NEW a \in Alerts, Ask(q, a) PROVE OneDispatchIsTold'
      <4>1. \A p \in Requests : request'[p].at = "stored" => request'[p] = request[p]
        BY <2>0, <3>1 DEF Ask
      <4> QED
        BY <4>1 DEF OneDispatchIsTold
    <3>2. CASE UNCHANGED request
      BY <3>2 DEF OneDispatchIsTold
    <3> QED
      BY <2>2, <3>1, <3>2 DEF Operate, Draft, SignOff, Cancel
  <2>3. CASE UNCHANGED alertingVars
    BY <2>3 DEF alertingVars, OneDispatchIsTold
  <2> QED
    BY <2>1, <2>2, <2>3 DEF AlertingNext
<1> QED
  BY <1>1, <1>2, PTL DEF AlertingSpec

\* Receipts, texts and signatures are never rewritten.
THEOREM RecordsAreFinal == AlertingSpec => RecordsStay
<1> DEFINE Kept1 ==
        \A a \in Alerts :
            /\ proof[a] # None => proof'[a] = proof[a]
            /\ Drafted(a) =>
                 /\ Drafted(a)' /\ alert'[a].freeText = alert[a].freeText
                 /\ alert[a].signed => alert'[a].signed
<1>1. ASSUME AlertingIInv, AlertingNext PROVE Kept1
  BY <1>1, RowsKeep DEF AlertingNext, Operate
<1>2. AlertingIInv /\ [AlertingNext]_alertingVars => [Kept1]_alertingVars
  BY <1>1
<1> QED
  BY <1>2, AlertingInvariance, PTL DEF AlertingSpec, RecordsStay

\* The targets the channels gave some status.
Attempted(r) ==
    Buckets(r).confirmed \cup Buckets(r).unconfirmed \cup Buckets(r).failed \cup Buckets(r).no_channel

\* One channel that answered has a status for every target.
LEMMA OneAnswerCoversAll ==
    ASSUME NEW r \in Heard, NEW c \in DOMAIN r, r[c] # Raised
    PROVE  Attempted(r) = Targets
<1> DEFINE confirmed == ReportedAs(r, Confirming)
           failed == ReportedAs(r, {"FAILED"}) \ confirmed
           unknown == ReportedAs(r, {"QUEUED", "UNKNOWN"}) \ confirmed
           none == ReportedAs(r, {"NO_CHANNEL"}) \ (confirmed \cup failed \cup unknown)
<1>1. Attempted(r) = confirmed \cup unknown \cup failed \cup none
  BY DEF Attempted, Buckets
<1>2. c \in Channels /\ r[c] \in [Targets -> Verdicts[c]]
  BY DEF Heard, Results
<1>3. \A t \in Targets : r[c][t] \in Statuses
  BY <1>2, AlertingAssumption
<1>4. \A t \in Targets : t \in confirmed \cup unknown \cup failed \cup none
  BY <1>3 DEF ReportedAs, Statuses
<1>5. confirmed \cup unknown \cup failed \cup none \subseteq Targets
  BY DEF ReportedAs
<1> QED
  BY <1>1, <1>4, <1>5

\* The dispatcher's figures are those of the stored receipts.
LEMMA SameFigures ==
    ASSUME NEW a \in Alerts, NEW r \in Heard, NEW c \in DOMAIN r, r[c] # Raised, proof[a] = r
    PROVE  Summary(r) = StoredSummary(a) /\ Summary(r).targeted = Targets
<1> DEFINE b == Buckets(r)
<1>1. Attempted(r) = Targets
  BY OneAnswerCoversAll
<1>2. b.confirmed \cup b.unconfirmed \cup b.failed \cup b.no_channel = Targets
  BY <1>1 DEF Attempted
<1>3. b.confirmed \cup b.failed \cup b.unconfirmed \cup b.no_channel = Targets
  BY <1>2
<1>4. [b EXCEPT !.no_channel = @ \cup (Targets \ Targets)] = b
  BY DEF Buckets
<1>5. Summary(r) = [targeted |-> Targets, buckets |-> b]
  BY <1>2, <1>4 DEF Summary
<1>6. StoredSummary(a) = [targeted |-> Targets, buckets |-> b]
  BY <1>2, <1>3 DEF StoredSummary
<1> QED
  BY <1>5, <1>6

\* A phone is one target however many share it, a household without one is its own.
LEMMA TargetsAreCounted ==
    Cardinality(Targets) = Cardinality({PhoneOf[h] : h \in Households} \ {NoPhone})
                            + Cardinality({h \in Households : PhoneOf[h] = NoPhone})
<1> DEFINE phones == {PhoneOf[h] : h \in Households} \ {NoPhone}
           alone == {h \in Households : PhoneOf[h] = NoPhone}
           all == {PhoneOf[h] : h \in Households}
           phone == [h \in Households |-> PhoneOf[h]]
<1>1. IsFiniteSet(all)
  <2>1. phone \in Surjection(Households, all)
    BY DEF Surjection
  <2> QED
    BY <2>1, AlertingAssumption, FS_Surjection
<1>2. IsFiniteSet(phones) /\ IsFiniteSet(alone)
  BY <1>1, AlertingAssumption, FS_Subset
<1>3. phones \cap alone = {}
  BY AlertingAssumption
<1>4. Targets = phones \cup alone
  BY DEF Targets, TargetOf
<1>5. Cardinality(phones \cup alone) =
        Cardinality(phones) + Cardinality(alone) - Cardinality(phones \cap alone)
  BY <1>2, FS_Union
<1>6. Cardinality(phones \cap alone) = 0
  BY <1>3, FS_EmptySet
<1>7. Cardinality(phones) \in Nat /\ Cardinality(alone) \in Nat
  BY <1>2, FS_CardinalityType
<1> QED
  BY <1>4, <1>5, <1>6, <1>7

\* What the dispatcher was told stays what anybody reads.
THEOREM FiguresStayTheSame == AlertingSpec => []FiguresAgree
<1>1. ASSUME AlertingIInv PROVE FiguresAgree
  <2> SUFFICES ASSUME NEW q \in Requests, request[q].at = "stored",
                      NEW c \in Channels, request[q].results[c] # Raised
               PROVE  /\ Summary(request[q].results) = StoredSummary(request[q].alert)
                      /\ Summary(request[q].results).targeted = Targets
    BY TargetsAreCounted DEF FiguresAgree
  <2>1. request[q].alert \in Alerts /\ request[q].results \in Heard
    BY <1>1, HandlerFields DEF AlertingIInv, AlertingTypeOK
  <2>2. proof[request[q].alert] = request[q].results /\ c \in DOMAIN request[q].results
    BY <1>1 DEF AlertingIInv, StoredIsProved
  <2> QED
    BY <2>1, <2>2, SameFigures
<1> QED
  BY <1>1, AlertingInvariance, PTL

-------------------------------------------------------------------------------
(* The warning agent: what the values, the executions and the runs may be.     *)

VerdictSet ==
    [of : Executions \cup {None}, problems : BOOLEAN, signoff : BOOLEAN, dispatchable : BOOLEAN]

ValueSet ==
    [run : Executions \cup {None}, free : BOOLEAN, needed : BOOLEAN, review : BOOLEAN,
     decision : {"none", "yes", "no"}, chose : BOOLEAN, selection : {"none", "full", "named"},
     validation : VerdictSet, dispatched : Executions \cup {None}]

RunValues == {v \in ValueSet : v.run \in Executions}

\* An execution that has begun, on its thread and with the values it carries.
AtWork ==
    [at : {"answering"}, thread : Threads, values : RunValues, approved : BOOLEAN, named : BOOLEAN]
    \cup [at : Nodes \cup {"post", "wait"}, thread : Threads, values : RunValues]

Looking ==
    [at : {"starting"}, thread : Threads]
    \cup [at : {"resuming"}, thread : Threads, approved : BOOLEAN, named : BOOLEAN]

WarningTypeOK ==
    /\ next \in [Threads -> Nodes \cup {Finished}]
    /\ saved \in [Threads -> ValueSet]
    /\ execution \in [Executions -> [at : {"idle", "over"}] \cup Looking \cup AtWork]
    /\ drafted \in [Executions -> SUBSET Executions]
    /\ refused \in [Executions -> SUBSET {"asking", "failed"}]
    /\ taken \in [Executions -> SUBSET {"yes", "no"}]
    /\ failures \in [Executions -> Nat]
    /\ overlaps \in [Executions -> Nat]
    /\ \A t \in Threads : next[t] # Finished => saved[t] \in RunValues

Busy(x) == execution[x].at \in Active
RunOf(x) == Values(x).run

\* The executions of a run.
Of(r) == {x \in Executions : Busy(x) /\ RunOf(x) = r}

\* The node an execution is at; those before an alert is drafted.
Place(x) == IF execution[x].at \in {"post", "wait"} THEN "dispatch"
            ELSE IF execution[x].at = "answering" THEN "signoff" ELSE execution[x].at
Before == {"decide", "select", "plan", "validate", "signoff"}

\* The executions that may still draft one, and a checkpoint from which a
\* resume might.
CanDraft(r) == {x \in Of(r) : execution[x].at \in Before \cup {"answering", "dispatch"}}
Waiting(r) ==
    /\ Of(r) = {}
    /\ \E t \in Threads : saved[t].run = r /\ next[t] \in Before \cup {"dispatch"}

\* A run stays on one thread.
RunsStay ==
    /\ \A s, t \in Threads : saved[s].run = saved[t].run /\ saved[t].run # None => s = t
    /\ \A x, y \in Executions :
         Busy(x) /\ Busy(y) /\ RunOf(x) = RunOf(y) => execution[x].thread = execution[y].thread
    /\ \A x \in Executions, t \in Threads :
         Busy(x) /\ saved[t].run = RunOf(x) => execution[x].thread = t

\* A run that has not begun has left no trace.
Unbegun ==
    \A e \in Executions : execution[e].at \in {"idle", "starting", "resuming"} =>
        /\ \A t \in Threads : saved[t].run # e
        /\ \A x \in Executions : Busy(x) => RunOf(x) # e
        /\ drafted[e] = {} /\ refused[e] = {} /\ taken[e] = {}

\* Alerts drafted and alerts that may yet be, against what explains a second one.
Tokens(r) ==
    Cardinality(drafted[r]) + Cardinality(CanDraft(r)) + (IF Waiting(r) THEN 1 ELSE 0)
        <= 1 + failures[r] + overlaps[r]

\* A run that was refused at its gate, or whose gate took a no, and that no yes
\* has reached, is still at the gate or at its end.
Refused(r) == ("asking" \in refused[r] \/ "no" \in taken[r]) /\ "yes" \notin taken[r]
Gated(r) ==
    /\ drafted[r] = {}
    /\ \A x \in Of(r) : Place(x) = "signoff"
    /\ \A t \in Threads : saved[t].run = r => next[t] \in {"signoff", Finished}

\* A run whose executions never overlapped has one at a time, at the checkpoint.
\* At rest it stands at the gate or at its end, unless an execution failed.
Alone(r) ==
    overlaps[r] = 0 =>
        /\ \A x, y \in Of(r) : x = y
        /\ \A x \in Of(r), t \in Threads : saved[t].run = r => next[t] = Place(x)
        /\ \A x \in Of(r) : Place(x) \in Before => drafted[r] = {}
        /\ \A t \in Threads : saved[t].run = r /\ next[t] \in Before => drafted[r] = {}
        /\ Refused(r) => Gated(r)
        /\ "failed" \in refused[r] => failures[r] > 0
        /\ Of(r) = {} /\ failures[r] = 0 =>
             \A t \in Threads : saved[t].run = r => next[t] \in {"signoff", Finished}

RunsInv == RunsStay /\ Unbegun /\ \A r \in Executions : Tokens(r) /\ Alone(r)

-------------------------------------------------------------------------------
\* An execution at work has a thread and the values of a run.
LEMMA AtWorkFields ==
    ASSUME WarningTypeOK, NEW x \in Executions
    PROVE  /\ Busy(x) => /\ execution[x] \in AtWork
                         /\ execution[x].thread \in Threads
                         /\ Values(x) \in RunValues
                         /\ RunOf(x) \in Executions
           /\ execution[x].at \in {"starting", "resuming"} =>
                execution[x] \in Looking /\ execution[x].thread \in Threads
<1>1. execution[x] \in [at : {"idle", "over"}] \cup Looking \cup AtWork
  BY DEF WarningTypeOK
<1>2. ASSUME Busy(x) PROVE execution[x] \in AtWork
  BY <1>1, <1>2 DEF Busy, Active, Nodes, Looking
<1>3. ASSUME execution[x] \in AtWork
      PROVE  execution[x].thread \in Threads /\ execution[x].values \in RunValues
  BY <1>3 DEF AtWork
<1>4. ASSUME execution[x].at \in {"starting", "resuming"}
      PROVE  execution[x] \in Looking
  BY <1>1, <1>4 DEF AtWork, Nodes
<1>5. ASSUME execution[x] \in Looking PROVE execution[x].thread \in Threads
  BY <1>5 DEF Looking
<1> QED
  BY <1>2, <1>3, <1>4, <1>5 DEF RunOf, Values, RunValues

\* Sets of executions are finite.
LEMMA SmallSets ==
    ASSUME NEW S \in SUBSET Executions
    PROVE  /\ Cardinality(S) \in Nat
           /\ \A T \in SUBSET S : Cardinality(T) <= Cardinality(S)
           /\ \A x \in Executions : Cardinality(S \cup {x}) <= Cardinality(S) + 1
           /\ \A x \in S : Cardinality(S \ {x}) + 1 = Cardinality(S)
<1>1. IsFiniteSet(S)
  BY WarningAssumption, FS_Subset
<1>2. Cardinality(S) \in Nat
  BY <1>1, FS_CardinalityType
<1>3. \A T \in SUBSET S : Cardinality(T) <= Cardinality(S)
  BY <1>1, FS_Subset
<1>4. ASSUME NEW x \in Executions PROVE Cardinality(S \cup {x}) <= Cardinality(S) + 1
  <2>1. Cardinality(S \cup {x}) = IF x \in S THEN Cardinality(S) ELSE Cardinality(S) + 1
    BY <1>1, FS_AddElement
  <2> QED
    BY <1>2, <2>1
<1>5. ASSUME NEW x \in S PROVE Cardinality(S \ {x}) + 1 = Cardinality(S)
  <2>1. Cardinality(S \ {x}) = IF x \in S THEN Cardinality(S) - 1 ELSE Cardinality(S)
    BY <1>1, FS_RemoveElement
  <2> QED
    BY <1>2, <2>1
<1> QED
  BY <1>2, <1>3, <1>4, <1>5

\* A run a step does not touch, but to count an overlap, stands where it stood.
LEMMA OtherRun ==
    ASSUME WarningTypeOK, NEW r \in Executions, Tokens(r), Alone(r),
           Of(r)' = Of(r), \A x \in Of(r) : execution'[x].at = execution[x].at,
           \A t \in Threads : saved'[t].run = r => saved[t].run = r /\ next'[t] = next[t],
           drafted'[r] = drafted[r], refused'[r] = refused[r], taken'[r] = taken[r],
           failures'[r] = failures[r],
           overlaps'[r] \in Nat, overlaps[r] <= overlaps'[r]
    PROVE  Tokens(r)' /\ Alone(r)'
<1>1. CanDraft(r)' = CanDraft(r)
  BY DEF CanDraft
<1>2. Waiting(r)' => Waiting(r)
  BY DEF Waiting
<1>3. drafted[r] \in SUBSET Executions /\ CanDraft(r) \in SUBSET Executions
  BY DEF WarningTypeOK, CanDraft, Of
<1>4. /\ Cardinality(drafted[r]) \in Nat /\ Cardinality(CanDraft(r)) \in Nat
      /\ overlaps[r] \in Nat /\ failures[r] \in Nat
  BY <1>3, SmallSets DEF WarningTypeOK
<1> HIDE DEF Waiting, CanDraft
<1>5. Tokens(r)'
  BY <1>1, <1>2, <1>4 DEF Tokens
<1>6. \A x \in Of(r) : Place(x)' = Place(x)
  BY DEF Place
<1>7. (Refused(r)' <=> Refused(r)) /\ (Gated(r) => Gated(r)')
  BY <1>6 DEF Refused, Gated
<1> HIDE DEF Refused, Gated
<1>8. Alone(r)'
  BY <1>4, <1>6, <1>7 DEF Alone
<1> QED
  BY <1>5, <1>8

-------------------------------------------------------------------------------
(* The runs, by what a step does to an execution.                              *)

\* A refusal found the run at rest on a thread.
FoundAt(r, t) ==
    /\ saved[t].run = r /\ ActiveOn(t) = {} /\ next[t] # Finished
    /\ refused'[r] = refused[r] \cup {IF next[t] = "signoff" THEN "asking" ELSE "failed"}

\* An execution looks at the thread it is to start or resume.
LEMMA RunsLook ==
    ASSUME WarningTypeOK, RunsInv, NEW e \in Executions, NEW d \in Looking, At(e, "idle"),
           execution' = [execution EXCEPT ![e] = d],
           UNCHANGED <<next, saved, drafted, taken, failures, overlaps>>,
           \A r \in Executions : refused'[r] = refused[r] \/ \E t \in Threads : FoundAt(r, t)
    PROVE  RunsInv'
<1>1. /\ \A x \in Executions : (Busy(x)' <=> Busy(x)) /\ (Busy(x) => execution'[x] = execution[x])
      /\ execution[e].at = "idle"
      /\ \A x \in Executions \ {e} : execution'[x] = execution[x]
  BY DEF Busy, Active, Nodes, At, Looking, WarningTypeOK
<1>2. \A x \in Executions : Busy(x) => RunOf(x)' = RunOf(x)
  BY <1>1 DEF RunOf, Values
<1>3. \A r \in Executions : Of(r)' = Of(r) /\ \A x \in Of(r) : execution'[x].at = execution[x].at
  BY <1>1, <1>2 DEF Of
<1>4. RunsStay'
  BY <1>1, <1>2 DEF RunsInv, RunsStay
<1>5. Unbegun'
  <2> SUFFICES ASSUME NEW f \in Executions, execution'[f].at \in {"idle", "starting", "resuming"}
               PROVE  /\ \A s \in Threads : saved[s].run # f
                      /\ \A x \in Executions : Busy(x)' => RunOf(x)' # f
                      /\ drafted[f] = {} /\ refused'[f] = {} /\ taken[f] = {}
    BY DEF Unbegun
  <2>1. execution[f].at \in {"idle", "starting", "resuming"}
    BY <1>1
  <2>2. /\ \A s \in Threads : saved[s].run # f
        /\ \A x \in Executions : Busy(x) => RunOf(x) # f
        /\ drafted[f] = {} /\ refused[f] = {} /\ taken[f] = {}
    BY <2>1 DEF RunsInv, Unbegun
  <2>3. refused'[f] = refused[f]
    BY <2>2 DEF FoundAt
  <2> QED
    BY <1>1, <1>2, <2>2, <2>3
<1>6. ASSUME NEW r \in Executions PROVE Tokens(r)' /\ Alone(r)'
  <2>1. Tokens(r) /\ Alone(r) /\ failures[r] \in Nat /\ overlaps[r] \in Nat
    BY DEF RunsInv, WarningTypeOK
  <2>2. CASE refused'[r] = refused[r]
    BY <1>3, <2>1, <2>2, OtherRun
  <2>3. CASE refused'[r] # refused[r]
    <3>1. PICK t \in Threads : FoundAt(r, t)
      BY <2>3
    <3>2. /\ saved[t].run = r /\ ActiveOn(t) = {} /\ next[t] # Finished
          /\ refused'[r] = refused[r] \cup {IF next[t] = "signoff" THEN "asking" ELSE "failed"}
      BY <3>1 DEF FoundAt
    <3>3. r # None
      BY WarningAssumption, AlertingAssumption
    <3>4. /\ \A s \in Threads : saved[s].run = r => s = t
          /\ Of(r) = {}
      BY <3>2, <3>3 DEF RunsInv, RunsStay, Of, ActiveOn, Busy
    <3>5. /\ "asking" \in refused'[r] => "asking" \in refused[r] \/ next[t] = "signoff"
          /\ "failed" \in refused'[r] => "failed" \in refused[r] \/ next[t] # "signoff"
      BY <3>2
    <3>6. Of(r)' = {}
      BY <1>3, <3>4
    <3>7. Tokens(r)'
      <4>1. CanDraft(r)' = CanDraft(r) /\ (Waiting(r)' <=> Waiting(r))
        BY <3>4, <3>6 DEF CanDraft, Waiting
      <4> QED
        BY <2>1, <4>1 DEF Tokens
    <3>8. ASSUME overlaps[r] = 0
          PROVE  /\ next[t] \in Before => drafted[r] = {}
                 /\ Refused(r) => Gated(r)
                 /\ "failed" \in refused[r] => failures[r] > 0
                 /\ failures[r] = 0 => next[t] \in {"signoff", Finished}
      BY <2>1, <3>2, <3>4, <3>8 DEF Alone
    <3>9. ASSUME overlaps[r] = 0, Refused(r)' PROVE Gated(r)'
      <4>1. CASE Refused(r)
        BY <3>4, <3>6, <3>8, <3>9, <4>1 DEF Gated
      <4>2. CASE ~Refused(r)
        <5>1. "asking" \in refused'[r] /\ "asking" \notin refused[r]
          BY <3>9, <4>2 DEF Refused
        <5>2. next[t] = "signoff" /\ drafted[r] = {}
          BY <3>5, <3>8, <3>9, <5>1 DEF Before
        <5> QED
          BY <3>4, <3>6, <5>2 DEF Gated
      <4> QED
        BY <4>1, <4>2
    <3>10. ASSUME overlaps[r] = 0, "failed" \in refused'[r] PROVE failures[r] > 0
      <4>1. CASE "failed" \in refused[r]
        BY <3>8, <3>10, <4>1
      <4>2. CASE "failed" \notin refused[r]
        BY <2>1, <3>2, <3>5, <3>8, <3>10, <4>2
      <4> QED
        BY <4>1, <4>2
    <3> HIDE DEF Refused, Gated
    <3>11. Alone(r)'
      <4>1. ASSUME overlaps[r] = 0
            PROVE  /\ \A s \in Threads : saved[s].run = r /\ next[s] \in Before => drafted[r] = {}
                   /\ failures[r] = 0 =>
                        \A s \in Threads : saved[s].run = r => next[s] \in {"signoff", Finished}
        BY <3>4, <3>8, <4>1
      <4> QED
        BY <3>6, <3>9, <3>10, <4>1 DEF Alone
    <3> QED
      BY <3>7, <3>11
  <2> QED
    BY <2>2, <2>3
<1> QED
  BY <1>4, <1>5, <1>6 DEF RunsInv

\* A node has run, and the checkpoint moves on with its execution.
LEMMA RunsGoto ==
    ASSUME WarningTypeOK, RunsInv, NEW e \in Executions, Busy(e),
           NEW r \in Executions, RunOf(e) = r, NEW v \in RunValues, v.run = r,
           NEW node \in Nodes \cup {Finished}, Goto(e, v, node),
           node \in Before \cup {"dispatch"} => Place(e) \in Before,
           UNCHANGED <<drafted, refused, failures, overlaps>>,
           \A q \in Executions \ {r} : taken'[q] = taken[q],
           \/ taken' = taken /\ Place(e) # "signoff"
           \/ "yes" \notin taken'[r] => node = Finished /\ Place(e) \in Before
    PROVE  RunsInv'
<1> DEFINE t == execution[e].thread
<1>1. t \in Threads
  BY AtWorkFields
<1>2. /\ next'[t] = node /\ saved'[t] = v /\ v.run = r
      /\ \A s \in Threads \ {t} : next'[s] = next[s] /\ saved'[s] = saved[s]
      /\ \A x \in Executions \ {e} : execution'[x] = execution[x]
      /\ node # Finished => execution'[e] = [at |-> node, thread |-> t, values |-> v]
      /\ node = Finished => execution'[e] = [at |-> "over"]
  BY <1>1 DEF Goto, WarningTypeOK, Over
<1>3. /\ \A x \in Executions \ {e} : (Busy(x)' <=> Busy(x)) /\ RunOf(x)' = RunOf(x)
      /\ Busy(e)' <=> node # Finished
      /\ Busy(e)' => RunOf(e)' = r /\ execution'[e].thread = t /\ execution'[e].at = node
      /\ execution'[e].at \notin {"idle", "starting", "resuming"}
  BY <1>2 DEF Busy, Active, Nodes, Finished, RunOf, Values
<1>4. /\ \A s \in Threads : saved[s].run = r => s = t
      /\ \A x \in Executions : Busy(x) /\ RunOf(x) = r => execution[x].thread = t
      /\ \A s \in Threads : saved'[s].run = r => s = t
  BY <1>1, <1>2 DEF RunsInv, RunsStay
<1>5. RunsStay'
  <2> SUFFICES
        /\ \A s, u \in Threads : saved'[s].run = saved'[u].run /\ saved'[u].run # None => s = u
        /\ \A x, y \in Executions :
             Busy(x)' /\ Busy(y)' /\ RunOf(x)' = RunOf(y)' => execution'[x].thread = execution'[y].thread
        /\ \A x \in Executions, s \in Threads :
             Busy(x)' /\ saved'[s].run = RunOf(x)' => execution'[x].thread = s
    BY DEF RunsStay
  <2>1. \A s, u \in Threads : saved'[s].run = saved'[u].run /\ saved'[u].run # None => s = u
    BY <1>2, <1>4 DEF RunsInv, RunsStay
  <2>2. \A x, y \in Executions :
             Busy(x)' /\ Busy(y)' /\ RunOf(x)' = RunOf(y)' => execution'[x].thread = execution'[y].thread
    BY <1>2, <1>3, <1>4 DEF RunsInv, RunsStay
  <2>3. \A x \in Executions, s \in Threads :
             Busy(x)' /\ saved'[s].run = RunOf(x)' => execution'[x].thread = s
    BY <1>2, <1>3, <1>4 DEF RunsInv, RunsStay
  <2> QED
    BY <2>1, <2>2, <2>3
<1>6. Unbegun'
  <2> SUFFICES ASSUME NEW f \in Executions, execution'[f].at \in {"idle", "starting", "resuming"}
               PROVE  /\ \A s \in Threads : saved'[s].run # f
                      /\ \A x \in Executions : Busy(x)' => RunOf(x)' # f
                      /\ drafted'[f] = {} /\ refused'[f] = {} /\ taken'[f] = {}
    BY DEF Unbegun
  <2>1. f # e /\ execution[f].at \in {"idle", "starting", "resuming"}
    BY <1>2, <1>3
  <2>2. /\ \A s \in Threads : saved[s].run # f
        /\ \A x \in Executions : Busy(x) => RunOf(x) # f
        /\ drafted[f] = {} /\ refused[f] = {} /\ taken[f] = {}
    BY <2>1 DEF RunsInv, Unbegun
  <2> QED
    BY <1>2, <1>3, <2>2
<1>7. ASSUME NEW q \in Executions \ {r} PROVE Tokens(q)' /\ Alone(q)'
  <2>1. Of(q)' = Of(q) /\ \A x \in Of(q) : execution'[x].at = execution[x].at
    BY <1>2, <1>3 DEF Of
  <2>2. \A s \in Threads : saved'[s].run = q => saved[s].run = q /\ next'[s] = next[s]
    BY <1>2
  <2> QED
    BY <2>1, <2>2, OtherRun DEF RunsInv, WarningTypeOK
<1>8. /\ e \in Of(r) /\ Of(r)' = (IF node = Finished THEN Of(r) \ {e} ELSE Of(r))
      /\ ~Waiting(r)
  BY <1>3 DEF Of, Waiting
<1>9. Tokens(r)'
  <2>1. ~Waiting(r)'
    BY <1>2, <1>4, <1>8 DEF Waiting, Finished, Before
  <2>2. CanDraft(r)' \subseteq CanDraft(r)
    <3>1. node \in Before \cup {"answering", "dispatch"} => Place(e) \in Before
      BY DEF Nodes, Finished
    <3>2. Place(e) \in Before => execution[e].at \in Before \cup {"answering", "dispatch"}
      BY DEF Place, Before
    <3>3. ASSUME NEW x \in Of(r)', x # e PROVE x \in Of(r) /\ execution'[x] = execution[x]
      BY <1>2, <1>8, <3>3 DEF Of
    <3>4. e \in Of(r)' => execution'[e].at = node
      BY <1>3 DEF Of
    <3> QED
      BY <1>8, <3>1, <3>2, <3>3, <3>4 DEF CanDraft
  <2>3. CanDraft(r) \in SUBSET Executions /\ drafted[r] \in SUBSET Executions
    BY <1>1 DEF CanDraft, Of, WarningTypeOK
  <2>4. Cardinality(CanDraft(r)') <= Cardinality(CanDraft(r))
    BY <2>2, <2>3, SmallSets
  <2>5. /\ Cardinality(CanDraft(r)) \in Nat /\ Cardinality(CanDraft(r)') \in Nat
        /\ Cardinality(drafted[r]) \in Nat
        /\ failures[r] \in Nat /\ overlaps[r] \in Nat
    BY <1>1, <2>2, <2>3, SmallSets DEF WarningTypeOK
  <2>6. Tokens(r)
    BY <1>1 DEF RunsInv
  <2> QED
    BY <1>8, <2>1, <2>4, <2>5, <2>6 DEF Tokens
<1>10. Alone(r)'
  <2> SUFFICES ASSUME overlaps[r] = 0
               PROVE  /\ \A x, y \in Of(r)' : x = y
                      /\ \A x \in Of(r)', s \in Threads : saved'[s].run = r => next'[s] = Place(x)'
                      /\ \A x \in Of(r)' : Place(x)' \in Before => drafted[r] = {}
                      /\ \A s \in Threads : saved'[s].run = r /\ next'[s] \in Before => drafted[r] = {}
                      /\ Refused(r)' => Gated(r)'
                      /\ "failed" \in refused[r] => failures[r] > 0
                      /\ Of(r)' = {} => \A s \in Threads : saved'[s].run = r => next'[s] = Finished
    BY <1>1 DEF Alone
  <2>1. /\ \A x, y \in Of(r) : x = y
        /\ Place(e) \in Before => drafted[r] = {}
        /\ Refused(r) => Place(e) = "signoff"
        /\ "failed" \in refused[r] => failures[r] > 0
    BY <1>1, <1>8 DEF RunsInv, Alone, Gated
  <2>2. \A x \in Of(r)' : x = e /\ node # Finished /\ Place(x)' = node
    BY <1>2, <1>3, <1>8, <2>1 DEF Place, Nodes
  <2>3. ASSUME Refused(r)' PROVE Gated(r)'
    <3>1. CASE taken' = taken /\ Place(e) # "signoff"
      BY <2>1, <2>3, <3>1 DEF Refused
    <3>2. CASE "yes" \notin taken'[r] => node = Finished /\ Place(e) \in Before
      <4>1. node = Finished /\ drafted[r] = {} /\ Of(r)' = {}
        BY <1>8, <2>1, <2>2, <2>3, <3>2 DEF Refused
      <4>2. \A s \in Threads : saved'[s].run = r => next'[s] = Finished
        BY <1>2, <1>4, <4>1
      <4> QED
        BY <4>1, <4>2 DEF Gated
    <3> QED
      BY <3>1, <3>2
  <2>4. Of(r)' = {} => \A s \in Threads : saved'[s].run = r => next'[s] = Finished
    BY <1>2, <1>4, <1>8
  <2> QED
    BY <1>2, <1>4, <1>8, <2>1, <2>2, <2>3, <2>4
<1> QED
  BY <1>5, <1>6, <1>7, <1>9, <1>10 DEF RunsInv

\* Every execution but one stands where it stood.
LEMMA OthersStand ==
    ASSUME NEW e \in Executions, NEW d,
           WarningTypeOK, execution' = [execution EXCEPT ![e] = d]
    PROVE  /\ execution'[e] = d
           /\ \A x \in Executions \ {e} :
                /\ execution'[x] = execution[x]
                /\ Busy(x)' <=> Busy(x)
                /\ RunOf(x)' = RunOf(x)
BY DEF WarningTypeOK, Busy, RunOf, Values

\* A run begins: nobody has heard of it.
LEMMA RunsStart ==
    ASSUME WarningTypeOK, RunsInv, NEW e \in Executions, At(e, "starting"),
           NEW v \in RunValues, v.run = e, Goto(e, v, "decide"),
           \A q \in Executions \ {e} : overlaps'[q] = overlaps[q], overlaps'[e] \in Nat,
           UNCHANGED <<drafted, refused, taken, failures>>
    PROVE  RunsInv'
<1> DEFINE t == execution[e].thread
           d == [at |-> "decide", thread |-> t, values |-> v]
<1>1. t \in Threads /\ execution[e].at = "starting"
  BY AtWorkFields DEF At
<1>2. /\ next'[t] = "decide" /\ saved'[t] = v
      /\ \A s \in Threads \ {t} : next'[s] = next[s] /\ saved'[s] = saved[s]
      /\ execution' = [execution EXCEPT ![e] = d]
  BY <1>1 DEF Goto, WarningTypeOK, Finished
<1>3. /\ execution'[e] = d
      /\ \A x \in Executions \ {e} :
           execution'[x] = execution[x] /\ (Busy(x)' <=> Busy(x)) /\ RunOf(x)' = RunOf(x)
      /\ Busy(e)' /\ RunOf(e)' = e /\ ~Busy(e)
  <2>1. /\ execution'[e] = d
        /\ \A x \in Executions \ {e} :
             execution'[x] = execution[x] /\ (Busy(x)' <=> Busy(x)) /\ RunOf(x)' = RunOf(x)
    BY <1>2, OthersStand
  <2> QED
    BY <1>1, <2>1 DEF Busy, Active, Nodes, RunOf, Values
<1>4. /\ \A s \in Threads : saved[s].run # e
      /\ \A x \in Executions : Busy(x) => RunOf(x) # e
      /\ drafted[e] = {} /\ refused[e] = {} /\ taken[e] = {}
  BY <1>1 DEF RunsInv, Unbegun
<1>5. RunsStay'
  <2>1. \A s, u \in Threads : saved'[s].run = saved'[u].run /\ saved'[u].run # None => s = u
    BY <1>2, <1>4 DEF RunsInv, RunsStay
  <2>2. \A x, y \in Executions :
             Busy(x)' /\ Busy(y)' /\ RunOf(x)' = RunOf(y)' => execution'[x].thread = execution'[y].thread
    BY <1>3, <1>4 DEF RunsInv, RunsStay
  <2>3. \A x \in Executions, s \in Threads :
             Busy(x)' /\ saved'[s].run = RunOf(x)' => execution'[x].thread = s
    BY <1>2, <1>3, <1>4 DEF RunsInv, RunsStay
  <2> QED
    BY <2>1, <2>2, <2>3 DEF RunsStay
<1>6. Unbegun'
  BY <1>1, <1>2, <1>3 DEF RunsInv, Unbegun
<1>7. ASSUME NEW q \in Executions \ {e} PROVE Tokens(q)' /\ Alone(q)'
  <2>1. Of(q)' = Of(q) /\ \A x \in Of(q) : execution'[x].at = execution[x].at
    BY <1>3 DEF Of
  <2>2. \A s \in Threads : saved'[s].run = q => saved[s].run = q /\ next'[s] = next[s]
    BY <1>2
  <2> QED
    BY <2>1, <2>2, OtherRun DEF RunsInv, WarningTypeOK
<1>8. Of(e)' = {e}
  BY <1>3, <1>4 DEF Of
<1>9. Tokens(e)'
  <2>1. ~Waiting(e)' /\ CanDraft(e)' \in SUBSET {e}
    BY <1>8 DEF Waiting, CanDraft
  <2>2. Cardinality({e}) = 1 /\ Cardinality(drafted[e]) = 0
    BY <1>4, FS_Singleton, FS_EmptySet
  <2>3. Cardinality(CanDraft(e)') <= 1 /\ Cardinality(CanDraft(e)') \in Nat
    BY <2>1, <2>2, SmallSets
  <2>4. failures[e] \in Nat
    BY DEF WarningTypeOK
  <2> QED
    BY <2>1, <2>2, <2>3, <2>4 DEF Tokens
<1>10. Alone(e)'
  <2>1. \A s \in Threads : saved'[s].run = e => next'[s] = "decide"
    BY <1>2, <1>4
  <2>2. Place(e)' = "decide"
    BY <1>3 DEF Place
  <2> QED
    BY <1>4, <1>8, <2>1, <2>2 DEF Alone, Refused
<1> QED
  BY <1>5, <1>6, <1>7, <1>9, <1>10 DEF RunsInv

\* An execution ends where its checkpoint stays: at the question for a person,
\* or with an exception.
LEMMA RunsEnd ==
    ASSUME WarningTypeOK, RunsInv, NEW e \in Executions, Busy(e),
           NEW r \in Executions, RunOf(e) = r,
           execution' = [execution EXCEPT ![e] = Over],
           \A q \in Executions \ {r} : failures'[q] = failures[q],
           \/ failures' = failures /\ At(e, "signoff")
           \/ failures'[r] = failures[r] + 1,
           UNCHANGED <<next, saved, drafted, refused, taken, overlaps>>
    PROVE  RunsInv'
<1>1. /\ execution'[e] = Over
      /\ \A x \in Executions \ {e} :
           execution'[x] = execution[x] /\ (Busy(x)' <=> Busy(x)) /\ RunOf(x)' = RunOf(x)
      /\ ~Busy(e)'
  <2>1. /\ execution'[e] = Over
        /\ \A x \in Executions \ {e} :
             execution'[x] = execution[x] /\ (Busy(x)' <=> Busy(x)) /\ RunOf(x)' = RunOf(x)
    BY OthersStand
  <2> QED
    BY <2>1 DEF Busy, Active, Nodes, Over
<1>2. RunsStay'
  BY <1>1 DEF RunsInv, RunsStay
<1>3. Unbegun'
  BY <1>1 DEF RunsInv, Unbegun, Over
<1>4. ASSUME NEW q \in Executions \ {r} PROVE Tokens(q)' /\ Alone(q)'
  <2>1. Of(q)' = Of(q) /\ \A x \in Of(q) : execution'[x].at = execution[x].at
    BY <1>1 DEF Of
  <2> QED
    BY <2>1, OtherRun DEF RunsInv, WarningTypeOK
<1>5. e \in Of(r) /\ Of(r)' = Of(r) \ {e} /\ ~Waiting(r)
  BY <1>1 DEF Of, Waiting
<1>6. Tokens(r)'
  <2>1. CanDraft(r)' = CanDraft(r) \ {e}
    BY <1>1, <1>5 DEF CanDraft
  <2>2. CanDraft(r) \in SUBSET Executions /\ drafted[r] \in SUBSET Executions
    BY DEF CanDraft, Of, WarningTypeOK
  <2>3. /\ Cardinality(CanDraft(r)) \in Nat /\ Cardinality(CanDraft(r)') \in Nat
        /\ Cardinality(CanDraft(r)') <= Cardinality(CanDraft(r))
        /\ Cardinality(drafted[r]) \in Nat
        /\ failures[r] \in Nat /\ overlaps[r] \in Nat
    BY <2>1, <2>2, SmallSets DEF WarningTypeOK
  <2>4. Tokens(r)
    BY DEF RunsInv
  <2>5. CASE At(e, "signoff")
    <3>1. e \in CanDraft(r)
      BY <1>5, <2>5 DEF CanDraft, At, Before
    <3>2. Cardinality(CanDraft(r)') + 1 = Cardinality(CanDraft(r))
      BY <2>1, <2>2, <3>1, SmallSets
    <3>3. failures'[r] \in Nat /\ failures[r] <= failures'[r]
      BY <2>3
    <3> QED
      BY <1>5, <2>3, <2>4, <3>2, <3>3 DEF Tokens
  <2>6. CASE failures'[r] = failures[r] + 1
    BY <1>5, <2>3, <2>4, <2>6 DEF Tokens
  <2> QED
    BY <2>5, <2>6
<1>7. Alone(r)'
  <2>1. \A x \in Of(r)' : Place(x)' = Place(x)
    BY <1>1, <1>5 DEF Of, Place
  <2>2. (Refused(r)' <=> Refused(r)) /\ (Gated(r) => Gated(r)')
    BY <1>5, <2>1 DEF Refused, Gated
  <2>3. Alone(r) /\ failures[r] \in Nat
    BY DEF RunsInv, WarningTypeOK
  <2>4. failures'[r] # 0 \/ (failures'[r] = failures[r] /\ Place(e) = "signoff")
    BY <2>3 DEF At, Place
  <2>5. failures[r] <= failures'[r]
    BY <2>3
  <2>6. ASSUME overlaps[r] = 0, failures'[r] = 0, NEW s \in Threads, saved[s].run = r
        PROVE  next[s] \in {"signoff", Finished}
    BY <1>5, <2>3, <2>4, <2>6 DEF Alone
  <2> HIDE DEF Refused, Gated
  <2>7. ASSUME overlaps[r] = 0, "failed" \in refused[r] PROVE failures'[r] > 0
    BY <2>3, <2>5, <2>7 DEF Alone
  <2> QED
    BY <1>5, <2>1, <2>2, <2>3, <2>6, <2>7 DEF Alone
<1> QED
  BY <1>2, <1>3, <1>4, <1>6, <1>7 DEF RunsInv

\* An execution resumes a run from its checkpoint.
LEMMA RunsResume ==
    ASSUME WarningTypeOK, RunsInv, NEW e \in Executions, At(e, "resuming"),
           NEW t \in Threads, NEW r \in Executions, saved[t].run = r, next[t] # Finished,
           NEW d \in AtWork, d.thread = t, d.values = saved[t],
           \/ d.at = next[t]
           \/ d.at = "answering" /\ next[t] = "signoff",
           execution' = [execution EXCEPT ![e] = d],
           overlaps' = [overlaps EXCEPT ![r] = IF ActiveOn(t) # {} THEN @ + 1 ELSE @],
           UNCHANGED <<next, saved, drafted, refused, taken, failures>>
    PROVE  RunsInv'
<1>0. next[t] \in Nodes /\ d.at \in Active
  BY DEF WarningTypeOK, Active, Nodes
<1>1. /\ execution'[e] = d
      /\ \A x \in Executions \ {e} :
           execution'[x] = execution[x] /\ (Busy(x)' <=> Busy(x)) /\ RunOf(x)' = RunOf(x)
      /\ Busy(e)' /\ RunOf(e)' = r /\ ~Busy(e)
  <2>1. /\ execution'[e] = d
        /\ \A x \in Executions \ {e} :
             execution'[x] = execution[x] /\ (Busy(x)' <=> Busy(x)) /\ RunOf(x)' = RunOf(x)
    BY OthersStand
  <2> QED
    BY <1>0, <2>1 DEF Busy, Active, Nodes, RunOf, Values, At
<1>2. /\ \A s \in Threads : saved[s].run = r => s = t
      /\ \A x \in Executions : Busy(x) /\ RunOf(x) = r => execution[x].thread = t
  <2>1. r # None
    BY WarningAssumption, AlertingAssumption
  <2> QED
    BY <2>1 DEF RunsInv, RunsStay
<1>3. RunsStay'
  BY <1>1, <1>2 DEF RunsInv, RunsStay
<1>4. Unbegun'
  <2>1. execution'[e].at \notin {"idle", "starting", "resuming"}
    BY <1>0, <1>1 DEF Active, Nodes
  <2>2. ASSUME NEW f \in Executions, execution[f].at \in {"idle", "starting", "resuming"} PROVE f # r
    BY <2>2 DEF RunsInv, Unbegun
  <2> QED
    BY <1>1, <2>1, <2>2 DEF RunsInv, Unbegun
<1>5. /\ overlaps'[r] = (IF ActiveOn(t) # {} THEN overlaps[r] + 1 ELSE overlaps[r])
      /\ \A q \in Executions \ {r} : overlaps'[q] = overlaps[q]
  BY DEF WarningTypeOK
<1>6. ASSUME NEW q \in Executions \ {r} PROVE Tokens(q)' /\ Alone(q)'
  <2>1. Of(q)' = Of(q) /\ \A x \in Of(q) : execution'[x].at = execution[x].at
    BY <1>1 DEF Of
  <2> QED
    BY <1>5, <2>1, OtherRun DEF RunsInv, WarningTypeOK
<1>7. Of(r)' = Of(r) \cup {e} /\ e \notin Of(r)
  BY <1>1 DEF Of
<1>8. Of(r) # {} => ActiveOn(t) # {}
  BY <1>2 DEF Of, ActiveOn, Busy
<1>9. /\ Tokens(r) /\ Alone(r)
      /\ Cardinality(drafted[r]) \in Nat /\ failures[r] \in Nat /\ overlaps[r] \in Nat
  <2>1. drafted[r] \in SUBSET Executions
    BY DEF WarningTypeOK
  <2> QED
    BY <2>1, SmallSets DEF RunsInv, WarningTypeOK
<1>10. Tokens(r)'
  <2>1. ~Waiting(r)'
    BY <1>7 DEF Waiting
  <2>2. CanDraft(r)' \subseteq CanDraft(r) \cup {e}
    BY <1>1, <1>7 DEF CanDraft
  <2>3. CanDraft(r) \in SUBSET Executions /\ CanDraft(r) \cup {e} \in SUBSET Executions
    BY DEF CanDraft, Of
  <2>4. /\ Cardinality(CanDraft(r)') <= Cardinality(CanDraft(r)) + 1
        /\ Cardinality(CanDraft(r)') \in Nat /\ Cardinality(CanDraft(r)) \in Nat
    <3>1. /\ Cardinality(CanDraft(r)') <= Cardinality(CanDraft(r) \cup {e})
          /\ Cardinality(CanDraft(r)') \in Nat
      BY <2>2, <2>3, SmallSets
    <3>2. /\ Cardinality(CanDraft(r) \cup {e}) <= Cardinality(CanDraft(r)) + 1
          /\ Cardinality(CanDraft(r)) \in Nat /\ Cardinality(CanDraft(r) \cup {e}) \in Nat
      BY <2>3, SmallSets
    <3> QED
      BY <3>1, <3>2
  <2>5. CASE Of(r) # {}
    BY <1>5, <1>8, <1>9, <2>1, <2>4, <2>5 DEF Tokens
  <2>6. CASE Of(r) = {}
    <3>1. CASE d.at \in Before \cup {"answering", "dispatch"}
      <4>1. Waiting(r)
        BY <1>0, <2>6, <3>1 DEF Waiting, Before, Nodes
      <4> QED
        BY <1>5, <1>9, <2>1, <2>4, <4>1 DEF Tokens
    <3>2. CASE d.at \notin Before \cup {"answering", "dispatch"}
      <4>1. CanDraft(r)' = {} /\ CanDraft(r) = {}
        BY <1>1, <1>7, <2>6, <3>2 DEF CanDraft
      <4> QED
        BY <1>5, <1>9, <2>1, <2>4, <4>1 DEF Tokens
    <3> QED
      BY <3>1, <3>2
  <2> QED
    BY <2>5, <2>6
<1>11. Alone(r)'
  <2>1. ASSUME overlaps'[r] = 0 PROVE overlaps[r] = 0 /\ Of(r) = {} /\ Of(r)' = {e}
    BY <1>5, <1>7, <1>8, <1>9, <2>1
  <2>2. Place(e)' = next[t]
    BY <1>0, <1>1 DEF Place, Nodes
  <2>3. ASSUME overlaps'[r] = 0, Refused(r)' PROVE Gated(r)'
    <3>1. Gated(r)
      BY <1>9, <2>1, <2>3 DEF Alone, Refused
    <3>2. next[t] = "signoff"
      BY <3>1 DEF Gated
    <3> QED
      BY <2>1, <2>2, <2>3, <3>1, <3>2 DEF Gated
  <2> HIDE DEF Refused, Gated
  <2> QED
    BY <1>2, <1>9, <2>1, <2>2, <2>3 DEF Alone
<1> QED
  BY <1>3, <1>4, <1>6, <1>10, <1>11 DEF RunsInv

\* An execution drafts an alert, and waits to have it dispatched.
LEMMA RunsDraft ==
    ASSUME WarningTypeOK, RunsInv, NEW e \in Executions,
           NEW r \in Executions, RunOf(e) = r, NEW at,
           \/ At(e, "dispatch") /\ at = "post" /\ drafted' = [drafted EXCEPT ![r] = @ \cup {e}]
           \/ At(e, "post") /\ at = "wait" /\ drafted' = drafted,
           execution' = [execution EXCEPT ![e].at = at],
           UNCHANGED <<next, saved, refused, taken, failures, overlaps>>
    PROVE  RunsInv'
<1> DEFINE d == [execution[e] EXCEPT !.at = at]
<1>1. Busy(e) /\ execution' = [execution EXCEPT ![e] = d]
  BY DEF Busy, At, Active, Nodes
<1>2. execution[e] \in AtWork
  BY <1>1, AtWorkFields
<1>3. d.at = at /\ d.thread = execution[e].thread /\ d.values = execution[e].values
  BY <1>2 DEF AtWork
<1> HIDE DEF d
<1>4. /\ execution'[e] = d
      /\ \A x \in Executions \ {e} :
           execution'[x] = execution[x] /\ (Busy(x)' <=> Busy(x)) /\ RunOf(x)' = RunOf(x)
  BY <1>1, OthersStand
<1>5. /\ \A x \in Executions : /\ (Busy(x)' <=> Busy(x)) /\ RunOf(x)' = RunOf(x)
                               /\ execution'[x].thread = execution[x].thread
      /\ execution'[e].at = at
  BY <1>1, <1>3, <1>4 DEF Busy, Active, RunOf, Values
<1>6. RunsStay'
  BY <1>5 DEF RunsInv, RunsStay
<1>7. Unbegun'
  <2>1. execution'[e].at \notin {"idle", "starting", "resuming"}
    BY <1>5
  <2>2. ASSUME NEW f \in Executions, execution[f].at \in {"idle", "starting", "resuming"} PROVE f # r
    BY <1>1, <2>2 DEF RunsInv, Unbegun
  <2>3. \A f \in Executions \ {r} : drafted'[f] = drafted[f]
    BY DEF WarningTypeOK
  <2> QED
    BY <1>4, <1>5, <2>1, <2>2, <2>3 DEF RunsInv, Unbegun
<1>8. \A q \in Executions : Of(q)' = Of(q)
  BY <1>5 DEF Of
<1>9. ASSUME NEW q \in Executions \ {r} PROVE Tokens(q)' /\ Alone(q)'
  <2>1. \A x \in Of(q) : execution'[x].at = execution[x].at
    BY <1>4 DEF Of
  <2>2. drafted'[q] = drafted[q]
    BY DEF WarningTypeOK
  <2> QED
    BY <1>8, <2>1, <2>2, OtherRun DEF RunsInv, WarningTypeOK
<1>10. e \in Of(r) /\ ~Waiting(r) /\ ~Waiting(r)'
  BY <1>1, <1>8 DEF Of, Waiting
<1>11. Tokens(r)'
  <2>1. CanDraft(r)' = CanDraft(r) \ {e}
    BY <1>4, <1>5, <1>8 DEF CanDraft, Before, At
  <2>2. CanDraft(r) \in SUBSET Executions /\ drafted[r] \in SUBSET Executions
    BY DEF CanDraft, Of, WarningTypeOK
  <2>3. /\ Cardinality(CanDraft(r)) \in Nat /\ Cardinality(CanDraft(r)') \in Nat
        /\ Cardinality(CanDraft(r)') <= Cardinality(CanDraft(r))
        /\ Cardinality(drafted[r]) \in Nat /\ Cardinality(drafted'[r]) \in Nat
        /\ failures[r] \in Nat /\ overlaps[r] \in Nat
    <3>1. drafted'[r] \in SUBSET Executions
      BY <2>2 DEF WarningTypeOK
    <3> QED
      BY <2>1, <2>2, <3>1, SmallSets DEF WarningTypeOK
  <2>4. Tokens(r)
    BY DEF RunsInv
  <2>5. CASE At(e, "post") /\ drafted' = drafted
    BY <1>10, <2>3, <2>4, <2>5 DEF Tokens
  <2>6. CASE At(e, "dispatch") /\ drafted' = [drafted EXCEPT ![r] = @ \cup {e}]
    <3>1. e \in CanDraft(r) /\ drafted'[r] = drafted[r] \cup {e}
      BY <1>10, <2>6 DEF CanDraft, At, WarningTypeOK
    <3>2. /\ Cardinality(CanDraft(r)') + 1 = Cardinality(CanDraft(r))
          /\ Cardinality(drafted'[r]) <= Cardinality(drafted[r]) + 1
      BY <2>1, <2>2, <3>1, SmallSets
    <3> QED
      BY <1>10, <2>3, <2>4, <3>2 DEF Tokens
  <2> QED
    BY <2>5, <2>6
<1>12. Alone(r)'
  <2>1. Place(e) = "dispatch" /\ \A x \in Executions : Place(x)' = Place(x)
    BY <1>4, <1>5 DEF Place, At
  <2>2. ASSUME overlaps[r] = 0
        PROVE  /\ \A x \in Of(r) : x = e
               /\ \A s \in Threads : saved[s].run = r => next[s] = "dispatch"
               /\ ~Refused(r)
               /\ "failed" \in refused[r] => failures[r] > 0
    BY <1>10, <2>1, <2>2 DEF RunsInv, Alone, Gated
  <2>3. "dispatch" \notin Before
    BY DEF Before
  <2>4. Refused(r)' <=> Refused(r)
    BY DEF Refused
  <2> HIDE DEF Refused
  <2> QED
    BY <1>8, <1>10, <2>1, <2>2, <2>3, <2>4 DEF Alone
<1> QED
  BY <1>6, <1>7, <1>9, <1>11, <1>12 DEF RunsInv

-------------------------------------------------------------------------------
(* What a run knows and what alerting-svc has on record.                       *)

\* An approval the values hold was given, a dispatch they hold has its proof.
Honest(v) ==
    /\ v.run # None /\ v.decision = "yes" => "yes" \in taken[v.run]
    /\ v.dispatched # None => proof[v.dispatched] # None

ValuesHonest ==
    /\ \A t \in Threads : Honest(saved[t])
    /\ \A x \in Executions : Busy(x) => Honest(Values(x))

DraftedIsTaken ==
    \A r \in Executions : \A a \in drafted[r] :
        Drafted(a) /\ (alert[a].freeText => "yes" \in taken[r])

\* Each execution asks for the alert it drafted.
OwnAlert == \A q \in Requests : request[q].at # "idle" => request[q].alert = q

Kept == ValuesHonest /\ DraftedIsTaken /\ OwnAlert /\ SentIsSigned

-------------------------------------------------------------------------------
\* A step of the agent that drafts nothing and asks alerting-svc for nothing.
LEMMA QuietStep ==
    ASSUME WarningTypeOK, AlertingIInv, Kept, UNCHANGED <<alertingVars, drafted>>,
           \A r \in Executions : taken[r] \subseteq taken'[r],
           \A t \in Threads : saved'[t] = saved[t] \/ Honest(saved[t])',
           \A x \in Executions : Busy(x)' =>
                (Busy(x) /\ Values(x)' = Values(x)) \/ Honest(Values(x))'
    PROVE  AlertingIInv' /\ Kept'
<1>1. AlertingIInv'
  BY AlertingNextStep DEF alertingVars
<1>2. UNCHANGED <<alert, proof, request, sent>>
  BY DEF alertingVars
<1>4. ValuesHonest'
  <2>1. ASSUME NEW t \in Threads PROVE Honest(saved[t])'
    <3>1. saved[t] \in ValueSet /\ Honest(saved[t])
      BY DEF WarningTypeOK, Kept, ValuesHonest
    <3>2. ASSUME saved'[t] = saved[t] PROVE Honest(saved[t])'
      BY <1>2, <3>1, <3>2, WarningAssumption DEF Honest, ValueSet
    <3> QED
      BY <3>2
  <2>2. ASSUME NEW x \in Executions, Busy(x)' PROVE Honest(Values(x))'
    <3>1. ASSUME Busy(x), Values(x)' = Values(x) PROVE Honest(Values(x))'
      <4>1. Values(x) \in ValueSet /\ Honest(Values(x))
        BY <3>1, AtWorkFields DEF RunValues, Kept, ValuesHonest
      <4> QED
        BY <1>2, <3>1, <4>1, WarningAssumption DEF Honest, ValueSet
    <3> QED
      BY <2>2, <3>1
  <2> QED
    BY <2>1, <2>2 DEF ValuesHonest
<1>5. DraftedIsTaken'
  BY <1>2 DEF Kept, DraftedIsTaken, Drafted
<1>6. OwnAlert' /\ SentIsSigned'
  BY <1>2 DEF Kept, OwnAlert, SentIsSigned, Cleared, Drafted
<1> QED
  BY <1>1, <1>4, <1>5, <1>6 DEF Kept

\* A step of alerting-svc, or at its console.
LEMMA AlertingKept ==
    ASSUME WarningTypeOK, AlertingIInv, Kept, UNCHANGED agentVars,
           (\E a \in Alerts : SignOff(a)) \/ (\E q \in Requests : Work(q) \/ Abort(q))
    PROVE  AlertingIInv' /\ Kept'
<1>1. AlertingIInv'
  BY AlertingNextStep DEF AlertingNext, Operate
<1>2. SentIsSigned'
  BY SentStep DEF Kept
<1>3. UNCHANGED <<saved, execution, drafted, refused, taken>>
  BY DEF agentVars
<1>4. \A a \in Alerts :
              /\ Drafted(a) => /\ Drafted(a)' /\ alert'[a].freeText = alert[a].freeText
              /\ proof[a] # None => proof'[a] # None
  BY RowsKeep
<1>6. ValuesHonest'
  <2>1. ASSUME NEW t \in Threads PROVE Honest(saved[t])'
    <3>1. saved[t] \in ValueSet /\ Honest(saved[t])
      BY DEF WarningTypeOK, Kept, ValuesHonest
    <3> QED
      BY <1>3, <1>4, <3>1, WarningAssumption DEF Honest, ValueSet
  <2>2. ASSUME NEW x \in Executions, Busy(x)' PROVE Honest(Values(x))'
    <3>1. Busy(x) /\ Values(x)' = Values(x)
      BY <1>3, <2>2 DEF Busy, Values
    <3>2. Values(x) \in ValueSet /\ Honest(Values(x))
      BY <3>1, AtWorkFields DEF RunValues, Kept, ValuesHonest
    <3> QED
      BY <1>3, <1>4, <3>1, <3>2, WarningAssumption DEF Honest, ValueSet
  <2> QED
    BY <2>1, <2>2 DEF ValuesHonest
<1>7. DraftedIsTaken'
  <2>1. \A r \in Executions : drafted[r] \subseteq Alerts
    BY WarningAssumption DEF WarningTypeOK
  <2> QED
    BY <1>3, <1>4, <2>1 DEF Kept, DraftedIsTaken
<1>8. OwnAlert'
  <2>1. ASSUME NEW q \in Requests, NEW p \in Requests, request'[p].at # "idle",
               Work(q) \/ Abort(q)
        PROVE  request'[p].alert = p
    BY <2>1, HandlersStay DEF Kept, OwnAlert
  <2>2. CASE \E a \in Alerts : SignOff(a)
    BY <2>2 DEF SignOff, Kept, OwnAlert
  <2> QED
    BY <2>1, <2>2 DEF OwnAlert
<1> QED
  BY <1>1, <1>2, <1>6, <1>7, <1>8 DEF Kept

-------------------------------------------------------------------------------
(* The inductive invariant, by what a step does.                               *)

WarningIInv == AlertingIInv /\ WarningTypeOK /\ RunsInv /\ Kept

\* The checkpoint moves on with an execution.
LEMMA GotoKept ==
    ASSUME WarningTypeOK, AlertingIInv, Kept, NEW e \in Executions, execution[e].thread \in Threads,
           NEW v \in RunValues, NEW node \in Nodes \cup {Finished}, Goto(e, v, node),
           UNCHANGED <<alertingVars, drafted, refused>>,
           failures' \in [Executions -> Nat], overlaps' \in [Executions -> Nat],
           taken' \in [Executions -> SUBSET {"yes", "no"}],
           \A r \in Executions : taken[r] \subseteq taken'[r],
           v.decision = "yes" => "yes" \in taken'[v.run],
           v.dispatched # None => proof[v.dispatched] # None
    PROVE  WarningTypeOK' /\ AlertingIInv' /\ Kept'
<1> DEFINE t == execution[e].thread
           d == [at |-> node, thread |-> t, values |-> v]
<1>1. /\ next' = [next EXCEPT ![t] = node]
      /\ saved' = [saved EXCEPT ![t] = v]
      /\ execution' = [execution EXCEPT ![e] = IF node = Finished THEN Over ELSE d]
  BY DEF Goto
<1>2. /\ \A s \in Threads \ {t} : next'[s] = next[s] /\ saved'[s] = saved[s]
      /\ next'[t] = node /\ saved'[t] = v
  BY <1>1 DEF WarningTypeOK
<1>3. (IF node = Finished THEN Over ELSE d) \in [at : {"idle", "over"}] \cup AtWork
  BY DEF Over, AtWork
<1>4. WarningTypeOK'
  <2>1. /\ next' \in [Threads -> Nodes \cup {Finished}]
        /\ saved' \in [Threads -> ValueSet]
    BY <1>1 DEF WarningTypeOK, RunValues
  <2>2. execution' \in [Executions -> [at : {"idle", "over"}] \cup Looking \cup AtWork]
    BY <1>1, <1>3 DEF WarningTypeOK
  <2>3. \A s \in Threads : next'[s] # Finished => saved'[s] \in RunValues
    BY <1>2 DEF WarningTypeOK
  <2> QED
    BY <2>1, <2>2, <2>3 DEF WarningTypeOK
<1>5. Honest(v)'
  BY DEF Honest, alertingVars
<1>6. \A s \in Threads : saved'[s] = saved[s] \/ Honest(saved[s])'
  BY <1>2, <1>5 DEF Honest
<1>7. ASSUME NEW x \in Executions, Busy(x)'
      PROVE  (Busy(x) /\ Values(x)' = Values(x)) \/ Honest(Values(x))'
  <2>1. CASE x = e
    <3>1. execution'[e] = (IF node = Finished THEN Over ELSE d)
      BY <1>1 DEF WarningTypeOK
    <3>2. Values(e)' = v
      BY <1>7, <2>1, <3>1 DEF Busy, Active, Nodes, Over, Values
    <3> QED
      BY <1>5, <2>1, <3>2 DEF Honest
  <2>2. CASE x # e
    BY <1>1, <1>7, <2>2 DEF WarningTypeOK, Busy, Values
  <2> QED
    BY <2>1, <2>2
<1> QED
  BY <1>4, <1>6, <1>7, QuietStep

\* A node has run.
LEMMA GotoStep ==
    ASSUME WarningIInv, NEW e \in Executions, Busy(e),
           NEW r \in Executions, RunOf(e) = r, NEW v \in RunValues, v.run = r,
           NEW node \in Nodes \cup {Finished}, Goto(e, v, node),
           node \in Before \cup {"dispatch"} => Place(e) \in Before,
           UNCHANGED <<alertingVars, drafted, refused, failures, overlaps>>,
           taken' \in [Executions -> SUBSET {"yes", "no"}],
           \A q \in Executions \ {r} : taken'[q] = taken[q],
           taken[r] \subseteq taken'[r],
           \/ taken' = taken /\ Place(e) # "signoff"
           \/ "yes" \notin taken'[r] => node = Finished /\ Place(e) \in Before,
           v.decision = "yes" => "yes" \in taken'[r],
           v.dispatched # None => proof[v.dispatched] # None
    PROVE  WarningIInv'
<1> USE DEF WarningIInv
<1>1. execution[e].thread \in Threads
  BY AtWorkFields
<1>2. failures' \in [Executions -> Nat] /\ overlaps' \in [Executions -> Nat]
  BY DEF WarningTypeOK
<1>3. RunsInv'
  BY RunsGoto
<1>4. \A q \in Executions : taken[q] \subseteq taken'[q]
  OBVIOUS
<1>5. WarningTypeOK' /\ AlertingIInv' /\ Kept'
  BY <1>1, <1>2, <1>4, GotoKept
<1> QED
  BY <1>3, <1>5

\* A node has run, and no person was asked and no alert dispatched by it.
LEMMA NodeStep ==
    ASSUME WarningIInv, NEW e \in Executions, Busy(e), NEW v \in RunValues,
           v.run = RunOf(e), v.decision = Values(e).decision, v.dispatched = Values(e).dispatched,
           NEW node \in Nodes \cup {Finished}, Goto(e, v, node),
           node \in Before \cup {"dispatch"} => Place(e) \in Before, Place(e) # "signoff",
           UNCHANGED <<alertingVars, drafted, refused, taken, failures, overlaps>>
    PROVE  WarningIInv'
<1>1. PICK r \in Executions : RunOf(e) = r
  BY AtWorkFields DEF WarningIInv
<1>2. Honest(Values(e)) /\ r # None
  BY WarningAssumption, AlertingAssumption DEF WarningIInv, Kept, ValuesHonest
<1>3. /\ v.decision = "yes" => "yes" \in taken[r]
      /\ v.dispatched # None => proof[v.dispatched] # None
  BY <1>1, <1>2 DEF Honest, RunOf
<1>4. taken \in [Executions -> SUBSET {"yes", "no"}]
  BY DEF WarningIInv, WarningTypeOK
<1> QED
  BY <1>1, <1>3, <1>4, GotoStep

\* An execution looks, or ends at its checkpoint.
LEMMA StayStep ==
    ASSUME WarningIInv, NEW e \in Executions,
           NEW d \in [at : {"idle", "over"}] \cup Looking, execution' = [execution EXCEPT ![e] = d],
           refused' \in [Executions -> SUBSET {"asking", "failed"}],
           failures' \in [Executions -> Nat],
           UNCHANGED <<alertingVars, next, saved, drafted, taken, overlaps>>,
           RunsInv'
    PROVE  WarningIInv'
<1> USE DEF WarningIInv
<1>1. WarningTypeOK'
  BY DEF WarningTypeOK
<1>2. \A x \in Executions : Busy(x)' => Busy(x) /\ Values(x)' = Values(x)
  BY DEF WarningTypeOK, Busy, Active, Nodes, Values, Looking
<1>3. AlertingIInv' /\ Kept'
  BY <1>2, QuietStep
<1> QED
  BY <1>1, <1>3

\* An execution looks at its thread.
LEMMA LookStep ==
    ASSUME WarningIInv, NEW e \in Executions, NEW t \in Threads,
           LookToStart(e, t) \/ LookToResume(e, t)
    PROVE  WarningIInv'
<1> USE DEF WarningIInv
<1>1. PICK d \in Looking : execution' = [execution EXCEPT ![e] = d]
  BY DEF LookToStart, LookToResume, Looking
<1>2. /\ At(e, "idle")
      /\ UNCHANGED <<alertingVars, next, saved, drafted, taken, failures, overlaps>>
  BY DEF LookToStart, LookToResume
<1>3. /\ refused' \in [Executions -> SUBSET {"asking", "failed"}]
      /\ \A r \in Executions : refused'[r] = refused[r] \/ FoundAt(r, t)
  <2>1. CASE LookToStart(e, t)
    BY <2>1 DEF LookToStart, WarningTypeOK
  <2>2. CASE LookToResume(e, t)
    <3>1. PICK r \in Executions : saved[t].run = r
      BY <2>2 DEF LookToResume, WarningTypeOK, RunValues
    <3>2. PICK approved \in BOOLEAN :
            refused' = [refused EXCEPT ![r] = IF approved THEN @ ELSE @ \cup Found(t)]
      BY <2>2, <3>1 DEF LookToResume
    <3>3. \/ Found(t) = {}
          \/ ActiveOn(t) = {} /\ Found(t) = {IF next[t] = "signoff" THEN "asking" ELSE "failed"}
      BY DEF Found
    <3>4. /\ \A q \in Executions \ {r} : refused'[q] = refused[q]
          /\ refused'[r] = (IF approved THEN refused[r] ELSE refused[r] \cup Found(t))
      BY <3>2 DEF WarningTypeOK
    <3>5. next[t] # Finished
      BY <2>2 DEF LookToResume
    <3>6. refused' \in [Executions -> SUBSET {"asking", "failed"}]
      BY <3>2, <3>3 DEF WarningTypeOK
    <3>7. refused'[r] = refused[r] \/ FoundAt(r, t)
      BY <3>1, <3>3, <3>4, <3>5 DEF FoundAt
    <3> QED
      BY <3>4, <3>6, <3>7
  <2> QED
    BY <2>1, <2>2
<1>4. RunsInv'
  BY <1>1, <1>2, <1>3, RunsLook
<1> QED
  BY <1>1, <1>2, <1>3, <1>4, StayStep DEF WarningTypeOK

\* An execution stops to ask, is refused, or fails.
LEMMA EndStep ==
    ASSUME WarningIInv, NEW e \in Executions, AskAPerson(e) \/ HearRefused(e) \/ Fail(e)
    PROVE  WarningIInv'
<1> USE DEF WarningIInv
<1>1. Busy(e)
  BY DEF AskAPerson, HearRefused, Fail, At, Busy, Active, Nodes
<1>2. PICK r \in Executions : RunOf(e) = r
  BY <1>1, AtWorkFields
<1>3. /\ execution' = [execution EXCEPT ![e] = Over]
      /\ UNCHANGED <<alertingVars, next, saved, drafted, refused, taken, overlaps>>
  <2>1. CASE AskAPerson(e)
    BY <2>1 DEF AskAPerson, WarningTypeOK
  <2>2. CASE HearRefused(e) \/ Fail(e)
    BY <2>2 DEF HearRefused, Fail, Raise, WarningTypeOK
  <2> QED
    BY <2>1, <2>2
<1>4. /\ \A q \in Executions \ {r} : failures'[q] = failures[q]
      /\ (failures' = failures /\ At(e, "signoff")) \/ failures'[r] = failures[r] + 1
      /\ failures' \in [Executions -> Nat]
  <2>1. CASE AskAPerson(e)
    BY <2>1 DEF AskAPerson, WarningTypeOK
  <2>2. CASE HearRefused(e) \/ Fail(e)
    BY <1>2, <2>2 DEF HearRefused, Fail, Raise, RunOf, WarningTypeOK
  <2> QED
    BY <2>1, <2>2
<1>5. RunsInv'
  BY <1>1, <1>2, <1>3, <1>4, RunsEnd
<1> QED
  BY <1>3, <1>4, <1>5, StayStep DEF Over, WarningTypeOK

\* A run begins over the values of the one before.
LEMMA StartStep ==
    ASSUME WarningIInv, NEW e \in Executions, Start(e)
    PROVE  WarningIInv'
<1> USE DEF WarningIInv
<1> DEFINE t == execution[e].thread
<1>1. t \in Threads /\ At(e, "starting")
  BY AtWorkFields DEF Start, At
<1>2. PICK free \in BOOLEAN : Goto(e, Fresh(saved[t], e, free), "decide")
  BY DEF Start
<1>3. PICK v : v = Fresh(saved[t], e, free)
  OBVIOUS
<1>4. saved[t] \in ValueSet /\ Honest(saved[t])
  BY <1>1 DEF WarningTypeOK, Kept, ValuesHonest
<1>5. v \in RunValues /\ v.run = e /\ v.decision = "none" /\ v.dispatched = saved[t].dispatched
  BY <1>3, <1>4 DEF Fresh, ValueSet, RunValues
<1>6. /\ overlaps' \in [Executions -> Nat] /\ \A q \in Executions \ {e} : overlaps'[q] = overlaps[q]
      /\ UNCHANGED <<alertingVars, drafted, refused, taken, failures>>
  BY DEF Start, WarningTypeOK
<1>7. Goto(e, v, "decide") /\ "decide" \in Nodes
  BY <1>2, <1>3 DEF Nodes
<1>8. RunsInv'
  BY <1>1, <1>5, <1>6, <1>7, RunsStart
<1>9. failures' \in [Executions -> Nat] /\ taken' \in [Executions -> SUBSET {"yes", "no"}]
  BY <1>6 DEF WarningTypeOK
<1>10. v.dispatched # None => proof[v.dispatched] # None
  BY <1>4, <1>5 DEF Honest
<1>11. WarningTypeOK' /\ AlertingIInv' /\ Kept'
  BY <1>1, <1>5, <1>6, <1>7, <1>9, <1>10, GotoKept
<1> QED
  BY <1>8, <1>11

\* A run goes on from its checkpoint, or has nowhere left to go.
LEMMA ResumeStep ==
    ASSUME WarningIInv, NEW e \in Executions, Resume(e)
    PROVE  WarningIInv'
<1> USE DEF WarningIInv
<1> DEFINE t == execution[e].thread
<1>1. t \in Threads /\ At(e, "resuming") /\ execution[e] \in Looking
  BY AtWorkFields DEF Resume, At
<1>2. UNCHANGED <<alertingVars, next, saved, drafted, refused, taken, failures>>
  BY DEF Resume
<1>3. overlaps' \in [Executions -> Nat]
  <2>1. PICK r : overlaps' = [overlaps EXCEPT ![r] = IF ActiveOn(t) # {} THEN @ + 1 ELSE @]
    BY DEF Resume
  <2>2. overlaps \in [Executions -> Nat]
    BY DEF WarningTypeOK
  <2>3. CASE r \in Executions
    BY <2>1, <2>2, <2>3
  <2>4. CASE r \notin Executions
    BY <2>1, <2>2, <2>4
  <2> QED
    BY <2>3, <2>4
<1>4. PICK d : /\ execution' = [execution EXCEPT ![e] = d]
               /\ d = IF next[t] = Finished THEN Over
                      ELSE IF next[t] = "signoff" THEN [at |-> "answering", thread |-> t, values |-> saved[t],
                             approved |-> execution[e].approved, named |-> execution[e].named]
                      ELSE [at |-> next[t], thread |-> t, values |-> saved[t]]
  BY DEF Resume
<1>5. CASE next[t] = Finished
  <2>1. d = Over /\ d \in [at : {"idle", "over"}]
    BY <1>4, <1>5 DEF Over
  <2>2. WarningTypeOK'
    BY <1>2, <1>3, <1>4, <2>1 DEF WarningTypeOK
  <2>3. /\ execution'[e] = Over
        /\ \A x \in Executions \ {e} :
             execution'[x] = execution[x] /\ (Busy(x)' <=> Busy(x)) /\ RunOf(x)' = RunOf(x)
    BY <1>4, <2>1, OthersStand
  <2>4. ~Busy(e) /\ ~Busy(e)'
    BY <1>1, <2>3 DEF Busy, At, Active, Nodes, Over
  <2>5. RunsStay' /\ Unbegun'
    BY <1>2, <2>3, <2>4 DEF RunsInv, RunsStay, Unbegun, Over
  <2>6. ASSUME NEW r \in Executions PROVE Tokens(r)' /\ Alone(r)'
    <3>1. Of(r)' = Of(r) /\ \A x \in Of(r) : execution'[x].at = execution[x].at
      BY <2>3, <2>4 DEF Of
    <3>2. overlaps'[r] \in Nat /\ overlaps[r] <= overlaps'[r]
      BY DEF Resume, WarningTypeOK
    <3> QED
      BY <1>2, <3>1, <3>2, OtherRun DEF RunsInv
  <2>7. \A x \in Executions : Busy(x)' => Busy(x) /\ Values(x)' = Values(x)
    BY <2>3, <2>4 DEF Values
  <2>8. AlertingIInv' /\ Kept'
    BY <1>2, <2>7, QuietStep
  <2> QED
    BY <2>2, <2>5, <2>6, <2>8 DEF RunsInv
<1>6. CASE next[t] # Finished
  <2>1. saved[t] \in RunValues /\ Honest(saved[t]) /\ next[t] \in Nodes
    BY <1>1, <1>6 DEF WarningTypeOK, Kept, ValuesHonest
  <2>2. d \in AtWork /\ d.thread = t /\ d.values = saved[t]
    <3>1. execution[e].approved \in BOOLEAN /\ execution[e].named \in BOOLEAN
      BY <1>1 DEF At, Looking
    <3>2. CASE next[t] = "signoff"
      BY <1>1, <1>4, <1>6, <2>1, <3>1, <3>2 DEF AtWork
    <3>3. CASE next[t] # "signoff"
      BY <1>1, <1>4, <1>6, <2>1, <3>3 DEF AtWork
    <3> QED
      BY <3>2, <3>3
  <2>3. d.at = next[t] \/ (d.at = "answering" /\ next[t] = "signoff")
    BY <1>1, <1>4, <1>6 DEF WarningTypeOK
  <2>4. PICK r \in Executions : saved[t].run = r
    BY <2>1 DEF RunValues
  <2>5. overlaps' = [overlaps EXCEPT ![r] = IF ActiveOn(t) # {} THEN @ + 1 ELSE @]
    BY <2>4 DEF Resume
  <2>6. RunsInv'
    BY <1>1, <1>2, <1>4, <1>6, <2>2, <2>3, <2>4, <2>5, RunsResume
  <2>7. WarningTypeOK'
    BY <1>2, <1>3, <1>4, <2>2 DEF WarningTypeOK
  <2>8. ASSUME NEW x \in Executions, Busy(x)'
        PROVE  (Busy(x) /\ Values(x)' = Values(x)) \/ Honest(Values(x))'
    <3>1. CASE x = e
      <4>1. Values(e)' = saved[t]
        BY <1>4, <2>2 DEF WarningTypeOK, Values
      <4> QED
        BY <1>2, <2>1, <3>1, <4>1 DEF Honest, alertingVars
    <3>2. CASE x # e
      BY <1>4, <2>8, <3>2 DEF WarningTypeOK, Busy, Values
    <3> QED
      BY <3>1, <3>2
  <2>9. AlertingIInv' /\ Kept'
    BY <1>2, <2>8, QuietStep
  <2> QED
    BY <2>6, <2>7, <2>9
<1> QED
  BY <1>5, <1>6

\* The two requests of the dispatch node.
LEMMA RequestStep ==
    ASSUME WarningIInv, NEW e \in Executions, DraftAlert(e) \/ AskToDispatch(e)
    PROVE  WarningIInv'
<1> USE DEF WarningIInv
<1> DEFINE free == Values(e).free
<1>1. e \in Alerts /\ e \in Requests
  BY WarningAssumption
<1>2. PICK at \in {"post", "wait"} :
        /\ execution' = [execution EXCEPT ![e].at = at]
        /\ (At(e, "dispatch") /\ at = "post") \/ (At(e, "post") /\ at = "wait" /\ drafted' = drafted)
        /\ at = "post" => DraftAlert(e)
        /\ at = "wait" => AskToDispatch(e)
  BY DEF DraftAlert, AskToDispatch
<1>3. Busy(e)
  BY <1>2 DEF Busy, At, Active, Nodes
<1>4. PICK r \in Executions : RunOf(e) = r
  BY <1>3, AtWorkFields
<1>5. UNCHANGED <<next, saved, refused, taken, failures, overlaps>>
  BY DEF DraftAlert, AskToDispatch
<1>6. \/ At(e, "dispatch") /\ at = "post" /\ drafted' = [drafted EXCEPT ![r] = @ \cup {e}]
      \/ At(e, "post") /\ at = "wait" /\ drafted' = drafted
  BY <1>2, <1>4 DEF DraftAlert, RunOf
<1>7. RunsInv'
  BY <1>2, <1>4, <1>5, <1>6, RunsDraft
<1>8. execution' \in [Executions -> [at : {"idle", "over"}] \cup Looking \cup AtWork]
  <2>1. execution[e] \in AtWork /\ ~At(e, "answering")
    BY <1>2, <1>3, AtWorkFields DEF At
  <2>2. [execution[e] EXCEPT !.at = at] \in AtWork
    BY <2>1 DEF AtWork, At
  <2> QED
    BY <1>2, <2>2 DEF WarningTypeOK
<1>9. drafted' \in [Executions -> SUBSET Executions]
  BY <1>6 DEF WarningTypeOK
<1>10. WarningTypeOK'
  BY <1>5, <1>8, <1>9 DEF WarningTypeOK
<1>11. \A x \in Executions : Busy(x)' => Busy(x) /\ Values(x)' = Values(x)
  <2>1. execution[e] \in AtWork
    BY <1>3, AtWorkFields
  <2>2. [execution[e] EXCEPT !.at = at].values = execution[e].values
    BY <2>1 DEF AtWork
  <2> QED
    BY <1>2, <1>3, <2>2 DEF WarningTypeOK, Values, Busy
<1>12. free \in BOOLEAN /\ Honest(Values(e))
  <2>1. Values(e) \in ValueSet
    BY <1>3, AtWorkFields DEF RunValues
  <2> QED
    BY <1>3, <2>1 DEF ValueSet, Kept, ValuesHonest
<1>13. Draft(e, free) \/ Ask(e, e)
  BY DEF DraftAlert, AskToDispatch
<1>14. AlertingIInv'
  BY <1>1, <1>12, <1>13, AlertingNextStep DEF AlertingNext, Operate
<1>15. SentIsSigned'
  BY <1>1, <1>12, <1>13, SentStep DEF Kept
<1>16. proof' = proof
  BY <1>13 DEF Draft, Ask
<1>17. ValuesHonest'
  <2>1. ASSUME NEW x \in Executions, Busy(x)' PROVE Honest(Values(x))'
    BY <1>5, <1>11, <1>16, <2>1 DEF Kept, ValuesHonest, Honest
  <2>2. ASSUME NEW t \in Threads PROVE Honest(saved[t])'
    BY <1>5, <1>16 DEF Kept, ValuesHonest, Honest
  <2> QED
    BY <2>1, <2>2 DEF ValuesHonest
<1>18. DraftedIsTaken'
  <2>1. \A a \in Alerts : Drafted(a) => Drafted(a)' /\ alert'[a].freeText = alert[a].freeText
    BY <1>1, <1>12, <1>13, RowsKeep
  <2>2. ASSUME NEW q \in Executions, NEW a \in drafted[q]
        PROVE  Drafted(a)' /\ (alert'[a].freeText => "yes" \in taken'[q])
    BY <1>5, <2>1, WarningAssumption DEF WarningTypeOK, Kept, DraftedIsTaken
  <2>3. CASE drafted' = drafted
    BY <2>2, <2>3 DEF DraftedIsTaken
  <2>4. CASE At(e, "dispatch") /\ at = "post" /\ drafted' = [drafted EXCEPT ![r] = @ \cup {e}]
    <3>1. Draft(e, free) /\ (free => Values(e).decision = "yes")
      BY <1>2, <2>4 DEF DraftAlert
    <3>2. free => "yes" \in taken[r]
      <4>1. r # None
        BY WarningAssumption, AlertingAssumption
      <4> QED
        BY <1>4, <1>12, <3>1, <4>1 DEF Honest, RunOf
    <3>3. Drafted(e)' /\ alert'[e].freeText = free
      <4> DEFINE x == [status |-> IF RequiresSignoff(free) THEN "PENDING_SIGNOFF" ELSE "DRAFT",
                       freeText |-> free, gated |-> RequiresSignoff(free), signed |-> FALSE]
      <4>1. alert' = [alert EXCEPT ![e] = x]
        BY <3>1 DEF Draft
      <4>2. x \in AlertRow /\ x.freeText = free
        BY <1>12 DEF AlertRow, RequiresSignoff
      <4> HIDE DEF x
      <4>3. alert'[e] = x
        BY <1>1, <4>1 DEF AlertingIInv, AlertingTypeOK
      <4> QED
        BY <4>2, <4>3, NotNone DEF Drafted
    <3>4. \A q \in Executions : \A a \in drafted'[q] : a \in drafted[q] \/ (a = e /\ q = r)
      BY <2>4 DEF WarningTypeOK
    <3> HIDE DEF free
    <3> QED
      BY <1>5, <2>2, <3>2, <3>3, <3>4 DEF DraftedIsTaken
  <2> QED
    BY <1>6, <2>3, <2>4
<1>19. OwnAlert'
  <2>1. CASE Draft(e, free)
    BY <2>1 DEF Draft, Kept, OwnAlert
  <2>2. CASE Ask(e, e)
    BY <1>1, <2>2 DEF Ask, Kept, OwnAlert, AlertingIInv, AlertingTypeOK
  <2> QED
    BY <1>13, <2>1, <2>2
<1> QED
  BY <1>7, <1>10, <1>14, <1>15, <1>17, <1>18, <1>19 DEF Kept

\* The nodes that neither ask nor dispatch.
LEMMA NodesStep ==
    ASSUME WarningIInv, NEW e \in Executions,
           Decide(e) \/ SelectTemplate(e) \/ Plan(e) \/ Validate(e) \/ SkipDispatch(e) \/ Report(e)
    PROVE  WarningIInv'
<1> USE DEF WarningIInv
<1> DEFINE old == Values(e)
<1>1. Busy(e)
  BY DEF Decide, SelectTemplate, Plan, Validate, SkipDispatch, Report, At, Busy, Active, Nodes
<1>2. old \in RunValues /\ old.run = RunOf(e)
  BY <1>1, AtWorkFields DEF RunOf
<1>3. UNCHANGED <<alertingVars, drafted, refused, taken, failures, overlaps>>
  BY DEF Decide, SelectTemplate, Plan, Validate, SkipDispatch, Report
<1>4. ASSUME NEW v \in RunValues, v.run = old.run, v.decision = old.decision,
             v.dispatched = old.dispatched,
             NEW node \in Nodes \cup {Finished}, Goto(e, v, node),
             node \in Before \cup {"dispatch"} => execution[e].at \in Before
      PROVE  WarningIInv'
  <2>1. node \in Before \cup {"dispatch"} => Place(e) \in Before
    BY <1>4 DEF Place, Before
  <2>2. Place(e) # "signoff"
    BY DEF Decide, SelectTemplate, Plan, Validate, SkipDispatch, Report, At, Place
  <2> QED
    BY <1>1, <1>2, <1>3, <1>4, <2>1, <2>2, NodeStep
<1>5. CASE Decide(e)
  <2>1. PICK needed \in BOOLEAN :
          Goto(e, [old EXCEPT !.needed = needed], IF needed THEN "select" ELSE Finished)
    BY <1>5 DEF Decide
  <2>2. PICK v : v = [old EXCEPT !.needed = needed]
    OBVIOUS
  <2>3. /\ v \in RunValues /\ v.run = old.run /\ v.decision = old.decision
        /\ v.dispatched = old.dispatched
    BY <1>2, <2>2 DEF RunValues, ValueSet
  <2>4. PICK node \in Nodes \cup {Finished} : node = IF needed THEN "select" ELSE Finished
    BY DEF Nodes
  <2>5. execution[e].at \in Before
    BY <1>5 DEF Decide, At, Before
  <2> QED
    BY <1>4, <2>1, <2>2, <2>3, <2>4, <2>5
<1>6. CASE SelectTemplate(e)
  <2>1. PICK fits \in BOOLEAN : \E v, node :
          /\ v = [old EXCEPT !.selection = IF fits THEN "full" ELSE "none", !.review = ~fits]
          /\ node = AfterSelection(v)
          /\ Goto(e, v, node)
    BY <1>6 DEF SelectTemplate
  <2>2. PICK v, node :
          /\ v = [old EXCEPT !.selection = IF fits THEN "full" ELSE "none", !.review = ~fits]
          /\ node = AfterSelection(v)
          /\ Goto(e, v, node)
    BY <2>1
  <2>3. /\ v \in RunValues /\ v.run = old.run /\ v.decision = old.decision
        /\ v.dispatched = old.dispatched
    BY <1>2, <2>2 DEF RunValues, ValueSet
  <2>4. node \in Nodes \cup {Finished}
    BY <2>2 DEF AfterSelection, Nodes
  <2>5. execution[e].at \in Before
    BY <1>6 DEF SelectTemplate, At, Before
  <2> QED
    BY <1>4, <2>2, <2>3, <2>4, <2>5
<1>7. CASE Plan(e)
  <2>1. Goto(e, old, "validate") /\ execution[e].at \in Before /\ "validate" \in Nodes
    BY <1>7 DEF Plan, At, Before, Nodes
  <2> QED
    BY <1>2, <1>4, <2>1
<1>8. CASE Validate(e)
  <2>1. PICK problems \in BOOLEAN : \E verdict, v, node :
          LET none == old.selection = "none" IN
          /\ verdict = Verdict(old.run, problems \/ none, old.free \/ none)
          /\ v = [old EXCEPT !.validation = verdict, !.review = @ \/ verdict.signoff]
          /\ node = AfterValidation(v)
          /\ Goto(e, v, node)
    BY <1>8 DEF Validate
  <2>2. PICK verdict, v, node :
          LET none == old.selection = "none" IN
          /\ verdict = Verdict(old.run, problems \/ none, old.free \/ none)
          /\ v = [old EXCEPT !.validation = verdict, !.review = @ \/ verdict.signoff]
          /\ node = AfterValidation(v)
          /\ Goto(e, v, node)
    BY <2>1
  <2>3. verdict \in VerdictSet
    BY <1>2, <2>2 DEF Verdict, VerdictSet, RunValues, ValueSet
  <2>4. /\ v \in RunValues /\ v.run = old.run /\ v.decision = old.decision
        /\ v.dispatched = old.dispatched
    <3>1. PICK review \in BOOLEAN : review = (old.review \/ verdict.signoff)
      BY <1>2, <2>3 DEF RunValues, ValueSet, VerdictSet
    <3>2. v = [old EXCEPT !.validation = verdict, !.review = review]
      BY <2>2, <3>1
    <3> QED
      BY <1>2, <2>3, <3>2 DEF RunValues, ValueSet
  <2>5. node \in Nodes \cup {Finished}
    BY <2>2 DEF AfterValidation, Nodes
  <2>6. execution[e].at \in Before
    BY <1>8 DEF Validate, At, Before
  <2> QED
    BY <1>4, <2>2, <2>4, <2>5, <2>6
<1>9. CASE SkipDispatch(e)
  <2>1. Goto(e, old, "report") /\ "report" \in Nodes /\ "report" \notin Before \cup {"dispatch"}
    BY <1>9 DEF SkipDispatch, Before, Nodes
  <2> QED
    BY <1>2, <1>4, <2>1
<1>10. CASE Report(e)
  <2>1. Goto(e, old, Finished) /\ Finished \notin Before \cup {"dispatch"}
    BY <1>10 DEF Report, Before, Finished
  <2> QED
    BY <1>2, <1>4, <2>1
<1> QED
  BY <1>5, <1>6, <1>7, <1>8, <1>9, <1>10

\* What an answer makes of the values of a run.
LEMMA SignedValues ==
    ASSUME NEW v \in RunValues, NEW approved \in BOOLEAN, NEW named \in BOOLEAN
    PROVE  /\ Signed(v, approved, named) \in RunValues
           /\ Signed(v, approved, named).run = v.run
           /\ Signed(v, approved, named).dispatched = v.dispatched
           /\ Signed(v, approved, named).decision = IF approved THEN "yes" ELSE "no"
           /\ ~approved => AfterSignoff(Signed(v, approved, named)) = Finished
           /\ AfterSignoff(Signed(v, approved, named)) \in Nodes \cup {Finished}
<1>1. CASE ~approved
  <2>1. Signed(v, approved, named) = [v EXCEPT !.needed = FALSE, !.decision = "no"]
    BY <1>1 DEF Signed, Approves
  <2> QED
    BY <1>1, <2>1 DEF RunValues, ValueSet, AfterSignoff
<1>2. CASE approved
  <2>1. PICK selection, verdict :
          /\ selection = (IF named /\ v.selection = "none" THEN "named" ELSE v.selection)
          /\ verdict = (IF Validated(v) /\ ~v.validation.problems
                          THEN Verdict(v.validation.of, FALSE, FALSE) ELSE v.validation)
    OBVIOUS
  <2>2. Signed(v, approved, named) =
          [v EXCEPT !.decision = "yes", !.chose = named,
                    !.selection = selection, !.validation = verdict]
    BY <1>2, <2>1 DEF Signed, Approves
  <2>3. selection \in {"none", "full", "named"}
    BY <2>1 DEF RunValues, ValueSet
  <2>4. verdict \in VerdictSet
    <3>1. v.validation \in VerdictSet
      BY DEF RunValues, ValueSet
    <3>2. Verdict(v.validation.of, FALSE, FALSE) \in VerdictSet
      BY <3>1 DEF Verdict, VerdictSet
    <3> QED
      BY <2>1, <3>1, <3>2
  <2>5. /\ Signed(v, approved, named) \in RunValues
        /\ Signed(v, approved, named).run = v.run
        /\ Signed(v, approved, named).dispatched = v.dispatched
        /\ Signed(v, approved, named).decision = "yes"
    BY <2>2, <2>3, <2>4 DEF RunValues, ValueSet
  <2>6. AfterSignoff(Signed(v, approved, named)) \in Nodes \cup {Finished}
    BY DEF AfterSignoff, Nodes
  <2> QED
    BY <1>2, <2>5, <2>6
<1> QED
  BY <1>1, <1>2

\* The interrupted node takes its answer.
LEMMA TakeAnswerStep ==
    ASSUME WarningIInv, NEW e \in Executions, TakeAnswer(e)
    PROVE  WarningIInv'
<1> USE DEF WarningIInv
<1> DEFINE old == Values(e)
<1>1. Busy(e) /\ At(e, "answering")
  BY DEF TakeAnswer, At, Busy, Active
<1>2. /\ execution[e] \in AtWork /\ old \in RunValues /\ Honest(old)
      /\ execution[e].approved \in BOOLEAN /\ execution[e].named \in BOOLEAN
  <2>1. execution[e] \in AtWork /\ old \in RunValues /\ Honest(old)
    BY <1>1, AtWorkFields DEF Kept, ValuesHonest
  <2> QED
    BY <1>1, <2>1 DEF At, AtWork, Nodes
<1>3. PICK approved \in BOOLEAN, named \in BOOLEAN :
        approved = execution[e].approved /\ named = execution[e].named
  BY <1>2
<1>4. PICK v, node : v = Signed(old, approved, named) /\ node = AfterSignoff(v)
  OBVIOUS
<1>5. PICK r \in Executions : old.run = r /\ RunOf(e) = r
  BY <1>1, AtWorkFields DEF RunOf
<1>6. /\ v \in RunValues /\ v.run = r /\ v.dispatched = old.dispatched
      /\ v.decision = (IF approved THEN "yes" ELSE "no")
      /\ ~approved => node = Finished
      /\ node \in Nodes \cup {Finished}
  <2> HIDE DEF old
  <2>1. /\ v \in RunValues /\ v.run = old.run /\ v.dispatched = old.dispatched
        /\ v.decision = (IF approved THEN "yes" ELSE "no")
        /\ ~approved => AfterSignoff(v) = Finished
        /\ AfterSignoff(v) \in Nodes \cup {Finished}
    BY <1>2, <1>3, <1>4, SignedValues
  <2> QED
    BY <1>4, <1>5, <2>1
<1>7. /\ Goto(e, v, node)
      /\ taken' = [taken EXCEPT ![r] = @ \cup {IF approved THEN "yes" ELSE "no"}]
      /\ UNCHANGED <<alertingVars, drafted, refused, failures, overlaps>>
  BY <1>3, <1>4, <1>6 DEF TakeAnswer, Values
<1>8. /\ taken' \in [Executions -> SUBSET {"yes", "no"}]
      /\ taken'[r] = taken[r] \cup {IF approved THEN "yes" ELSE "no"}
      /\ \A q \in Executions \ {r} : taken'[q] = taken[q]
  BY <1>7 DEF WarningTypeOK
<1>9. Place(e) \in Before
  BY <1>1 DEF Place, Before, At
<1>10. v.dispatched # None => proof[v.dispatched] # None
  BY <1>2, <1>6 DEF Honest
<1>11. "yes" \notin taken'[r] => node = Finished
  BY <1>6, <1>8
<1>12. v.decision = "yes" => "yes" \in taken'[r]
  BY <1>6, <1>8
<1> QED
  BY <1>1, <1>5, <1>6, <1>7, <1>8, <1>9, <1>10, <1>11, <1>12, GotoStep

\* alerting-svc answered that it stored the dispatch: then it has.
LEMMA HearDispatchedStep ==
    ASSUME WarningIInv, NEW e \in Executions, HearDispatched(e)
    PROVE  WarningIInv'
<1> USE DEF WarningIInv
<1> DEFINE old == Values(e)
<1>1. Busy(e) /\ At(e, "wait") /\ request[e].at = "stored"
  BY DEF HearDispatched, At, Busy, Active, Succeeded
<1>2. old \in RunValues /\ Honest(old) /\ taken \in [Executions -> SUBSET {"yes", "no"}]
  BY <1>1, AtWorkFields DEF Kept, ValuesHonest, WarningTypeOK
<1>3. PICK r \in Executions : old.run = r /\ RunOf(e) = r
  BY <1>1, AtWorkFields DEF RunOf
<1>4. PICK v : v = [old EXCEPT !.dispatched = e]
  OBVIOUS
<1>5. v \in RunValues /\ v.run = r /\ v.decision = old.decision /\ v.dispatched = e
  BY <1>2, <1>3, <1>4 DEF RunValues, ValueSet
<1>6. Goto(e, v, "report") /\ UNCHANGED <<alertingVars, drafted, refused, taken, failures, overlaps>>
  BY <1>4 DEF HearDispatched
<1>7. "report" \in Nodes /\ "report" \notin Before \cup {"dispatch"}
  BY DEF Nodes, Before
<1>8. proof[e] # None
  <2>1. e \in Requests /\ request[e].alert = e
    BY <1>1, WarningAssumption DEF Kept, OwnAlert
  <2>2. request[e].results \in Heard
    BY <1>1, <2>1, HandlerFields DEF AlertingIInv, AlertingTypeOK
  <2>3. proof[e] = request[e].results /\ DOMAIN request[e].results = Channels
    BY <1>1, <2>1 DEF AlertingIInv, StoredIsProved
  <2> QED
    BY <2>2, <2>3, HeardAll
<1>9. v.decision = "yes" => "yes" \in taken[r]
  <2>1. r # None
    BY WarningAssumption, AlertingAssumption
  <2> QED
    BY <1>2, <1>3, <1>5, <2>1 DEF Honest
<1>10. Place(e) # "signoff"
  BY <1>1 DEF At, Place
<1> QED
  BY <1>1, <1>2, <1>3, <1>5, <1>6, <1>7, <1>8, <1>9, <1>10, GotoStep

-------------------------------------------------------------------------------
\* The invariant holds before anything has run.
LEMMA InitWarningIInv == WarningInit => WarningIInv
<1> SUFFICES ASSUME WarningInit PROVE WarningIInv
  OBVIOUS
<1>1. AlertingIInv
  BY InitAlertingIInv DEF WarningInit
<1>2. NoValues \in ValueSet /\ NoValues.run = None /\ NoValues.dispatched = None
  BY DEF NoValues, ValueSet, Unvalidated, Verdict, VerdictSet
<1>3. \A e \in Executions : ~Busy(e) /\ None \notin Executions
  BY WarningAssumption, AlertingAssumption DEF WarningInit, Busy, Active, Nodes
<1>4. \A t \in Threads : saved[t] = NoValues
  BY DEF WarningInit
<1> HIDE DEF NoValues
<1>5. WarningTypeOK
  BY <1>2 DEF WarningInit, WarningTypeOK, Finished
<1>6. RunsStay /\ Unbegun
  BY <1>2, <1>3, <1>4 DEF RunsStay, Unbegun, WarningInit
<1>7. ASSUME NEW r \in Executions PROVE Tokens(r) /\ Alone(r)
  <2>1. /\ Of(r) = {} /\ CanDraft(r) = {} /\ drafted[r] = {} /\ refused[r] = {} /\ taken[r] = {}
        /\ failures[r] = 0 /\ overlaps[r] = 0
        /\ \A t \in Threads : saved[t].run # r
    BY <1>2, <1>3, <1>4 DEF Of, CanDraft, WarningInit
  <2>2. ~Waiting(r) /\ Cardinality({}) = 0
    BY <2>1, FS_EmptySet DEF Waiting
  <2> QED
    BY <2>1, <2>2 DEF Tokens, Alone, Refused
<1>8. Kept
  <2>1. ValuesHonest
    BY <1>2, <1>3, <1>4 DEF ValuesHonest, Honest
  <2>2. DraftedIsTaken /\ OwnAlert
    BY DEF WarningInit, AlertingInit, DraftedIsTaken, OwnAlert
  <2>3. SentIsSigned
    BY DEF WarningInit, AlertingInit, SentIsSigned, Drafted
  <2> QED
    BY <2>1, <2>2, <2>3 DEF Kept
<1> QED
  BY <1>1, <1>5, <1>6, <1>7, <1>8 DEF WarningIInv, RunsInv

\* What alerting-svc does leaves the agent's runs where they are.
LEMMA ServeStep ==
    ASSUME WarningIInv, UNCHANGED agentVars,
           \/ \E a \in Alerts : SignOff(a)
           \/ \E q \in Requests : Work(q) \/ Abort(q)
           \/ UNCHANGED alertingVars
    PROVE  WarningIInv'
<1> USE DEF WarningIInv
<1>1. UNCHANGED <<next, saved, execution, drafted, refused, taken, failures, overlaps>>
  BY DEF agentVars
<1>2. WarningTypeOK'
  BY <1>1 DEF WarningTypeOK
<1>3. \A x \in Executions : (Busy(x)' <=> Busy(x)) /\ RunOf(x)' = RunOf(x) /\ Values(x)' = Values(x)
  BY <1>1 DEF Busy, RunOf, Values
<1>4. RunsStay' /\ Unbegun'
  BY <1>1, <1>3 DEF RunsInv, RunsStay, Unbegun
<1>5. ASSUME NEW r \in Executions PROVE Tokens(r)' /\ Alone(r)'
  <2>1. Of(r)' = Of(r)
    BY <1>3 DEF Of
  <2> QED
    BY <1>1, <2>1, OtherRun DEF RunsInv, WarningTypeOK
<1>6. AlertingIInv' /\ Kept'
  <2>1. CASE UNCHANGED alertingVars
    BY <1>1, <1>3, <2>1, QuietStep
  <2>2. CASE ~UNCHANGED alertingVars
    BY <2>2, AlertingKept
  <2> QED
    BY <2>1, <2>2
<1> QED
  BY <1>2, <1>4, <1>5, <1>6 DEF RunsInv

\* Every step keeps the invariant.
LEMMA WarningNextStep == WarningIInv /\ [WarningNext]_warningVars => WarningIInv'
<1> SUFFICES ASSUME WarningIInv, [WarningNext]_warningVars PROVE WarningIInv'
  OBVIOUS
<1>1. ASSUME NEW e \in Executions, NEW t \in Threads, LookToStart(e, t) \/ LookToResume(e, t)
      PROVE  WarningIInv'
  BY <1>1, LookStep
<1>2. ASSUME NEW e \in Executions, Run(e) PROVE WarningIInv'
  BY <1>2, StartStep, ResumeStep, TakeAnswerStep, NodesStep, EndStep, RequestStep,
     HearDispatchedStep DEF Run
<1>3. ASSUME NEW e \in Executions, Fail(e) PROVE WarningIInv'
  BY <1>3, EndStep
<1>4. CASE Console
  BY <1>4, ServeStep DEF Console
<1>5. ASSUME NEW q \in Requests, Serve(q) \/ (Abort(q) /\ UNCHANGED agentVars) PROVE WarningIInv'
  BY <1>5, ServeStep DEF Serve
<1>6. CASE UNCHANGED warningVars
  BY <1>6, ServeStep DEF warningVars
<1> QED
  BY <1>1, <1>2, <1>3, <1>4, <1>5, <1>6 DEF WarningNext

\* The invariant of the agent and alerting-svc.
LEMMA WarningInvariance == WarningSpec => []WarningIInv
BY InitWarningIInv, WarningNextStep, PTL DEF WarningSpec

-------------------------------------------------------------------------------
\* One run is one alert, unless an execution of it failed or ran beside another:
\* for any number of subjects, starts, resumes, failures and alerts.
THEOREM OneRunOneAlert == WarningSpec => []SecondAlertNeedsAFailure
<1>1. ASSUME WarningIInv PROVE SecondAlertNeedsAFailure
  <2> SUFFICES ASSUME NEW r \in Executions
               PROVE  Cardinality(drafted[r]) <= 1 + failures[r] + overlaps[r]
    BY DEF SecondAlertNeedsAFailure
  <2>1. drafted[r] \in SUBSET Executions /\ CanDraft(r) \in SUBSET Executions
    BY <1>1 DEF WarningIInv, WarningTypeOK, CanDraft, Of
  <2>2. /\ Cardinality(drafted[r]) \in Nat /\ Cardinality(CanDraft(r)) \in Nat
        /\ failures[r] \in Nat /\ overlaps[r] \in Nat
    BY <1>1, <2>1, SmallSets DEF WarningIInv, WarningTypeOK
  <2>3. Tokens(r)
    BY <1>1 DEF WarningIInv, RunsInv
  <2> QED
    BY <2>2, <2>3 DEF Tokens
<1> QED
  BY <1>1, WarningInvariance, PTL

\* Free text is drafted only after a yes its gate took; a run refused at its gate
\* drafts nothing unless a yes reached it or executions of it overlapped, and a
\* refusal misses the gate of a run at rest only after a failure.
THEOREM AnswersDecide == WarningSpec => []AnswersAreKept
<1>1. WarningIInv => AnswersAreKept
  BY DEF WarningIInv, RunsInv, Kept, DraftedIsTaken, Alone, Refused, Gated, AnswersAreKept
<1> QED
  BY <1>1, WarningInvariance, PTL

\* Free text that anybody received passed the inbox and the console.
THEOREM BothGatesHold == WarningSpec => []TextPassedBothGates
<1>1. ASSUME WarningIInv PROVE TextPassedBothGates
  <2> SUFFICES ASSUME NEW r \in Executions, NEW a \in drafted[r], alert[a].freeText,
                      NEW c \in Channels, sent[a][c] > 0
               PROVE  "yes" \in taken[r] /\ alert[a].signed
    BY DEF TextPassedBothGates
  <2>1. a \in Alerts
    BY <1>1, WarningAssumption DEF WarningIInv, WarningTypeOK
  <2>2. sent[a][c] # 0
    BY <1>1, <2>1 DEF WarningIInv, AlertingIInv, AlertingTypeOK
  <2> QED
    BY <1>1, <2>1, <2>2 DEF WarningIInv, Kept, DraftedIsTaken, SentIsSigned, Cleared
<1> QED
  BY <1>1, WarningInvariance, PTL

\* What a checkpoint says was dispatched has its proof of delivery.
THEOREM RecordedHasItsProof == WarningSpec => []RecordedIsProved
<1>1. WarningIInv => RecordedIsProved
  BY DEF WarningIInv, Kept, ValuesHonest, Honest, RecordedIsProved
<1> QED
  BY <1>1, WarningInvariance, PTL

-------------------------------------------------------------------------------
\* The agent implements a caller of alerting-svc: each of its steps is a step of
\* alerting-svc, or none of its business.
THEOREM AgentCallsAlerting == WarningSpec => AgentIsACaller
<1>1. WarningInit => AlertingInit
  BY DEF WarningInit
<1>2. ASSUME WarningIInv, [WarningNext]_warningVars PROVE [AlertingNext]_alertingVars
  <2>1. ASSUME NEW e \in Executions, DraftAlert(e) PROVE AlertingNext
    <3>1. Values(e).free \in BOOLEAN
      <4>1. Busy(e)
        BY <2>1 DEF DraftAlert, At, Busy, Active, Nodes
      <4> QED
        BY <1>2, <4>1, AtWorkFields DEF WarningIInv, RunValues, ValueSet
    <3>2. e \in Alerts /\ Draft(e, Values(e).free)
      BY <2>1, WarningAssumption DEF DraftAlert
    <3> QED
      BY <3>1, <3>2 DEF AlertingNext, Operate
  <2>2. ASSUME NEW e \in Executions, AskToDispatch(e) PROVE AlertingNext
    BY <2>2, WarningAssumption DEF AskToDispatch, AlertingNext, Operate
  <2>3. ASSUME NEW e \in Executions, Run(e) PROVE AlertingNext \/ UNCHANGED alertingVars
    BY <2>1, <2>2, <2>3
       DEF Run, Start, Resume, TakeAnswer, Decide, SelectTemplate, Plan, Validate, AskAPerson,
           SkipDispatch, HearDispatched, HearRefused, Raise, Report
  <2>4. ASSUME NEW e \in Executions, NEW t \in Threads, LookToStart(e, t) \/ LookToResume(e, t)
        PROVE  UNCHANGED alertingVars
    BY <2>4 DEF LookToStart, LookToResume
  <2>5. ASSUME NEW e \in Executions, Fail(e) PROVE UNCHANGED alertingVars
    BY <2>5 DEF Fail, Raise
  <2>6. CASE Console
    BY <2>6 DEF Console, AlertingNext, Operate
  <2>7. ASSUME NEW q \in Requests, Serve(q) \/ (Abort(q) /\ UNCHANGED agentVars) PROVE AlertingNext
    BY <2>7 DEF Serve, AlertingNext
  <2>8. CASE UNCHANGED warningVars
    BY <2>8 DEF warningVars
  <2> QED
    BY <1>2, <2>3, <2>4, <2>5, <2>6, <2>7, <2>8 DEF WarningNext
<1> QED
  BY <1>1, <1>2, WarningInvariance, PTL DEF WarningSpec, AgentIsACaller
=============================================================================
