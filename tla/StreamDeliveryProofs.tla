------------------------- MODULE StreamDeliveryProofs -------------------------
(***************************************************************************)
(* Proofs about StreamDelivery, for any events, groups, workers and stream *)
(* length.                                                                 *)
(*                                                                         *)
(* The argument: a worker that is handling an event holds the only claim   *)
(* on it in its group and finds no record of it, so its commit writes the  *)
(* first record.  A message goes out only under such a claim: either the   *)
(* record follows, and no later copy passes the claim, or the subscription *)
(* ends, and that is a fault.  Entries are only appended, so the event an  *)
(* entry carries never changes.                                            *)
(***************************************************************************)
EXTENDS StreamDelivery, TLAPS

\* Whatever a worker holds was delivered to its group.
HeldIsDelivered ==
    \A w \in Workers : \A k \in 1..Len(hand[w]) :
        hand[w][k] \in 1..read[GroupOf[w]]

AckedIsDelivered == \A g \in Groups : acked[g] \subseteq 1..read[g]

Claiming(w) == pc[w] \in {"handling", "acted"}

\* A claim is on an event with no record yet, and allowed to the group.
ClaimIsFirst ==
    \A w \in Workers :
        Claiming(w) => Id(Here(w)) \notin done[GroupOf[w]]

ClaimIsAllowed ==
    \A w \in Workers :
        pc[w] \in {"handling", "acted", "committed"} => ~Refuses(GroupOf[w], Here(w))

\* The unique key of the idempotency records.
ClaimIsAlone ==
    \A v, w \in Workers :
        (v # w /\ GroupOf[v] = GroupOf[w] /\ Claiming(v) /\ Claiming(w))
            => Id(Here(v)) # Id(Here(w))

CommittedIsRecorded ==
    \A w \in Workers : pc[w] = "committed" => Id(Here(w)) \in done[GroupOf[w]]

First(e) == [event |-> e, copy |-> 0]

\* Only an event on record has writes, and it has them once.
WrittenIsRecorded ==
    \A g \in Groups, e \in Events :
        written[g][e] = 0 \/ (written[g][e] = 1 /\ First(e) \in done[g])

\* A message not yet on record is in the hands of one worker.
Answered(g, e) ==
    \/ First(e) \in done[g]
    \/ \E w \in Workers : GroupOf[w] = g /\ pc[w] = "acted" /\ Id(Here(w)) = First(e)

SentIsAnswered ==
    \A g \in Groups \ Safe, e \in Events :
        /\ sent[g][e] <= 1 + faults
        /\ ~Answered(g, e) => sent[g][e] <= faults

IInv ==
    /\ TypeOK
    /\ HeldIsDelivered
    /\ AckedIsDelivered
    /\ ClaimIsFirst
    /\ ClaimIsAllowed
    /\ ClaimIsAlone
    /\ CommittedIsRecorded
    /\ WrittenIsRecorded
    /\ SentIsAnswered
    /\ AckedIsHandled

\* The invariant holds to begin with.
LEMMA InitIInv == Init => IInv
<1> SUFFICES ASSUME Init PROVE IInv
  OBVIOUS
<1>1. TypeOK
  BY DeliveryAssumption DEF Init, TypeOK, PcStates, Entry
<1>2. HeldIsDelivered /\ AckedIsDelivered /\ AckedIsHandled
  BY DEF Init, HeldIsDelivered, AckedIsDelivered, AckedIsHandled
<1>3. ClaimIsFirst /\ ClaimIsAllowed /\ ClaimIsAlone /\ CommittedIsRecorded
  BY DEF Init, ClaimIsFirst, ClaimIsAllowed, ClaimIsAlone, CommittedIsRecorded, Claiming
<1>4. WrittenIsRecorded /\ SentIsAnswered
  BY DEF Init, WrittenIsRecorded, SentIsAnswered
<1> QED
  BY <1>1, <1>2, <1>3, <1>4 DEF IInv

\* What a busy worker is at is an entry of the stream.
LEMMA HereOnStream ==
    ASSUME IInv, NEW w \in Workers, hand[w] # <<>>
    PROVE  /\ Here(w) \in 1..read[GroupOf[w]]
           /\ Here(w) \in 1..Len(stream)
           /\ stream[Here(w)] \in Entry
           /\ Id(Here(w)) \in [event : Events, copy : Nat]
<1>1. hand[w] \in Seq(Nat) /\ GroupOf[w] \in Groups
  BY DeliveryAssumption DEF IInv, TypeOK
<1>2. Here(w) = hand[w][1] /\ 1 \in 1..Len(hand[w])
  BY <1>1 DEF Here
<1>3. Here(w) \in 1..read[GroupOf[w]]
  BY <1>2 DEF IInv, HeldIsDelivered
<1>4. Here(w) \in 1..Len(stream)
  BY <1>1, <1>3 DEF IInv, TypeOK
<1>5. stream[Here(w)] \in Entry
  BY <1>4 DEF IInv, TypeOK
<1> QED
  BY <1>3, <1>4, <1>5 DEF Id, Entry

\* A worker that is handling has an entry in hand.
LEMMA BusyOnStream ==
    ASSUME IInv, NEW w \in Workers, pc[w] \in {"handling", "acted", "committed"}
    PROVE  hand[w] # <<>>
BY DEF IInv, TypeOK

\* Appending to the stream changes no entry that was there.
LEMMA AddStep ==
    ASSUME IInv, NEW entry \in Entry, Add(entry)
    PROVE  IInv'
<1> USE DEF IInv
<1>1. /\ stream' = Append(stream, entry) /\ Len(stream) < MaxStream
      /\ UNCHANGED <<created, read, acked, pc, hand, done, written, sent, faults>>
  BY DEF Add
<1>2. stream \in Seq(Entry) /\ Len(stream) \in Nat
  BY DEF TypeOK
<1>3. /\ Len(stream') = Len(stream) + 1
      /\ \A i \in 1..Len(stream) : stream'[i] = stream[i]
  BY <1>1, <1>2
<1>4. TypeOK'
  <2>1. stream' \in Seq(Entry) /\ Len(stream') <= MaxStream
    BY <1>1, <1>2, <1>3, DeliveryAssumption
  <2>2. \A g \in Groups : read[g] <= Len(stream')
    BY <1>2, <1>3 DEF TypeOK
  <2> QED
    BY <1>1, <2>1, <2>2 DEF TypeOK
<1>5. HeldIsDelivered' /\ AckedIsDelivered'
  BY <1>1 DEF HeldIsDelivered, AckedIsDelivered
<1>6. \A i \in 1..Len(stream) : Id(i)' = Id(i) /\ \A g \in Groups : Refuses(g, i)' <=> Refuses(g, i)
  BY <1>3 DEF Id, IsReplay, Refuses
<1>7. \A w \in Workers :
        pc[w] \in {"handling", "acted", "committed"} =>
          /\ Id(Here(w))' = Id(Here(w))
          /\ Refuses(GroupOf[w], Here(w))' <=> Refuses(GroupOf[w], Here(w))
  BY <1>1, <1>6, HereOnStream, BusyOnStream, DeliveryAssumption DEF Here
<1>8. ClaimIsFirst' /\ ClaimIsAllowed' /\ ClaimIsAlone' /\ CommittedIsRecorded'
  BY <1>1, <1>7 DEF ClaimIsFirst, ClaimIsAllowed, ClaimIsAlone, CommittedIsRecorded, Claiming
<1>9. WrittenIsRecorded'
  BY <1>1 DEF WrittenIsRecorded
<1>10. \A g \in Groups, e \in Events : Answered(g, e) => Answered(g, e)'
  BY <1>1, <1>7 DEF Answered
<1>11. SentIsAnswered'
  BY <1>1, <1>10 DEF SentIsAnswered
<1>12. AckedIsHandled'
  <2> SUFFICES ASSUME NEW g \in Groups, NEW i \in acked[g]
               PROVE  (Id(i) \in done[g])' \/ Refuses(g, i)'
    BY <1>1 DEF AckedIsHandled
  <2>1. i \in 1..Len(stream)
    BY <1>2 DEF AckedIsDelivered, TypeOK
  <2> QED
    BY <1>1, <1>6, <2>1 DEF AckedIsHandled
<1> QED
  BY <1>4, <1>5, <1>8, <1>9, <1>11, <1>12

\* The action Subscribe preserves the invariant.
LEMMA SubscribeStep ==
    ASSUME IInv, NEW w \in Workers, Subscribe(w)
    PROVE  IInv'
<1> USE DEF IInv
<1> DEFINE g == GroupOf[w]
<1>0. g \in Groups /\ Len(stream) \in Nat
  BY DeliveryAssumption DEF TypeOK
<1>1. /\ pc[w] = "down" /\ pc' = [pc EXCEPT ![w] = "polling"]
      /\ created' = created \cup {g}
      /\ UNCHANGED <<stream, acked, hand, done, written, sent, faults>>
      /\ \A q \in Groups : /\ read'[q] = read[q] \/ read'[q] = Len(stream)
                           /\ read'[q] >= read[q]
      /\ read' \in [Groups -> Nat]
  BY <1>0 DEF Subscribe, TypeOK
<1>2. TypeOK'
  <2>1. \A q \in Groups : read'[q] <= Len(stream')
    BY <1>0, <1>1 DEF TypeOK
  <2>2. pc' \in [Workers -> PcStates]
    BY <1>1 DEF TypeOK, PcStates
  <2>3. \A v \in Workers : pc'[v] \in {"handling", "acted", "committed"} => hand'[v] # <<>>
    BY <1>1 DEF TypeOK
  <2> QED
    BY <1>0, <1>1, <2>1, <2>2, <2>3 DEF TypeOK
<1>3. HeldIsDelivered'
  <2> SUFFICES ASSUME NEW v \in Workers, NEW k \in 1..Len(hand[v])
               PROVE  hand[v][k] \in 1..read'[GroupOf[v]]
    BY <1>1 DEF HeldIsDelivered
  <2>1. GroupOf[v] \in Groups /\ hand[v][k] \in 1..read[GroupOf[v]]
    BY DeliveryAssumption DEF HeldIsDelivered
  <2> QED
    BY <1>1, <2>1 DEF TypeOK
<1>4. AckedIsDelivered'
  <2> SUFFICES ASSUME NEW q \in Groups, NEW i \in acked[q]
               PROVE  i \in 1..read'[q]
    BY <1>1 DEF AckedIsDelivered
  <2> QED
    BY <1>1 DEF AckedIsDelivered, TypeOK
<1>5. \A v \in Workers : /\ Claiming(v)' <=> Claiming(v)
                         /\ pc'[v] = pc[v] \/ (v = w /\ pc'[v] = "polling")
                         /\ Id(Here(v))' = Id(Here(v)) /\ Here(v)' = Here(v)
  BY <1>1 DEF Claiming, TypeOK, Id, IsReplay, Here
<1>6. ClaimIsFirst' /\ ClaimIsAlone' /\ CommittedIsRecorded'
  BY <1>1, <1>5 DEF ClaimIsFirst, ClaimIsAlone, CommittedIsRecorded
<1>7. ClaimIsAllowed'
  BY <1>1, <1>5 DEF ClaimIsAllowed, Refuses, IsReplay
<1>8. WrittenIsRecorded' /\ AckedIsHandled'
  BY <1>1 DEF WrittenIsRecorded, AckedIsHandled, Id, Refuses, IsReplay
<1>9. \A q \in Groups, e \in Events : Answered(q, e) => Answered(q, e)'
  BY <1>1, <1>5 DEF Answered
<1>10. SentIsAnswered'
  BY <1>1, <1>9 DEF SentIsAnswered
<1> QED
  BY <1>2, <1>3, <1>4, <1>6, <1>7, <1>8, <1>10

\* The action Read preserves the invariant.
LEMMA ReadStep ==
    ASSUME IInv, NEW w \in Workers, Read(w)
    PROVE  IInv'
<1> USE DEF IInv
<1> DEFINE g == GroupOf[w]
           T == [k \in 1..(ReadTo(g) - read[g]) |-> read[g] + k]
<1>0. g \in Groups /\ Len(stream) \in Nat /\ BatchSize \in Nat \ {0} /\ read[g] \in Nat
  BY DeliveryAssumption DEF TypeOK
<1>1. /\ pc[w] = "polling" /\ read[g] < Len(stream)
      /\ hand' = [hand EXCEPT ![w] = T]
      /\ read' = [read EXCEPT ![g] = ReadTo(g)]
      /\ UNCHANGED <<stream, created, acked, pc, done, written, sent, faults>>
  BY DEF Read, bus
<1>2. ReadTo(g) \in Nat /\ read[g] < ReadTo(g) /\ ReadTo(g) <= Len(stream)
  BY <1>0, <1>1 DEF ReadTo
<1>3. /\ T \in Seq(Nat) /\ Len(T) = ReadTo(g) - read[g] /\ T # <<>>
      /\ \A k \in 1..Len(T) : T[k] \in 1..ReadTo(g)
  <2>1. ReadTo(g) - read[g] \in Nat /\ ReadTo(g) - read[g] > 0
    BY <1>0, <1>2
  <2>2. \A k \in 1..(ReadTo(g) - read[g]) : read[g] + k \in 1..ReadTo(g)
    BY <1>0, <1>2
  <2> HIDE DEF g
  <2>3. T \in Seq(Nat) /\ Len(T) = ReadTo(g) - read[g]
    BY <1>2, <2>1, <2>2
  <2> QED
    BY <2>1, <2>2, <2>3
<1> HIDE DEF T
<1>4. TypeOK'
  BY <1>0, <1>1, <1>2, <1>3 DEF TypeOK
<1>5. \A q \in Groups : read'[q] \in Nat /\ read[q] \in Nat /\ read[q] <= read'[q]
  BY <1>0, <1>1, <1>2 DEF TypeOK
<1>6. HeldIsDelivered'
  <2> SUFFICES ASSUME NEW v \in Workers, NEW k \in 1..Len(hand'[v])
               PROVE  hand'[v][k] \in 1..read'[GroupOf[v]]
    BY DEF HeldIsDelivered
  <2>1. CASE v = w
    <3>1. hand'[v] = T /\ read'[GroupOf[v]] = ReadTo(g)
      BY <1>0, <1>1, <2>1 DEF TypeOK
    <3> QED
      BY <1>3, <3>1
  <2>2. CASE v # w
    <3>1. hand'[v] = hand[v] /\ GroupOf[v] \in Groups
      BY <1>1, <2>2, DeliveryAssumption DEF TypeOK
    <3>2. hand[v][k] \in 1..read[GroupOf[v]]
      BY <3>1 DEF HeldIsDelivered
    <3> QED
      BY <1>5, <3>1, <3>2
  <2> QED
    BY <2>1, <2>2
<1>7. AckedIsDelivered'
  <2> SUFFICES ASSUME NEW q \in Groups, NEW i \in acked[q]
               PROVE  i \in 1..read'[q]
    BY <1>1 DEF AckedIsDelivered
  <2>1. i \in 1..read[q]
    BY DEF AckedIsDelivered
  <2> QED
    BY <1>5, <2>1
<1>8. \A v \in Workers : pc[v] \in {"handling", "acted", "committed"} =>
        /\ v # w /\ Id(Here(v))' = Id(Here(v)) /\ Here(v)' = Here(v)
  BY <1>1 DEF Id, IsReplay, Here, TypeOK
<1>9. ClaimIsFirst' /\ ClaimIsAlone' /\ CommittedIsRecorded'
  BY <1>1, <1>8 DEF ClaimIsFirst, ClaimIsAlone, CommittedIsRecorded, Claiming
<1>10. ClaimIsAllowed'
  BY <1>1, <1>8 DEF ClaimIsAllowed, Refuses, IsReplay
<1>11. WrittenIsRecorded' /\ AckedIsHandled'
  BY <1>1 DEF WrittenIsRecorded, AckedIsHandled, Id, Refuses, IsReplay
<1>12. \A q \in Groups, e \in Events : Answered(q, e) => Answered(q, e)'
  BY <1>1, <1>8 DEF Answered
<1>13. SentIsAnswered'
  BY <1>1, <1>12 DEF SentIsAnswered
<1> QED
  BY <1>4, <1>6, <1>7, <1>9, <1>10, <1>11, <1>13

\* Acknowledging the entry at hand: nothing else changes hands.
LEMMA AcknowledgeFrame ==
    ASSUME IInv, NEW w \in Workers, hand[w] # <<>>, Acknowledge(w, Here(w)),
           read' = read
    PROVE  /\ hand' \in [Workers -> Seq(Nat)]
           /\ acked' \in [Groups -> SUBSET Nat]
           /\ HeldIsDelivered' /\ AckedIsDelivered'
<1> USE DEF IInv
<1> DEFINE g == GroupOf[w]
<1>1. /\ acked' = [acked EXCEPT ![g] = @ \cup {Here(w)}]
      /\ hand' = [hand EXCEPT ![w] = Tail(@)]
  BY DEF Acknowledge
<1>2. g \in Groups /\ hand[w] \in Seq(Nat) /\ Here(w) \in 1..read[g]
  BY DeliveryAssumption, HereOnStream DEF TypeOK
<1>3. hand' \in [Workers -> Seq(Nat)] /\ acked' \in [Groups -> SUBSET Nat]
  BY <1>1, <1>2 DEF TypeOK
<1>4. AckedIsDelivered'
  BY <1>1, <1>2 DEF AckedIsDelivered, TypeOK
<1>5. HeldIsDelivered'
  <2> SUFFICES ASSUME NEW v \in Workers, NEW k \in 1..Len(hand'[v])
               PROVE  hand'[v][k] \in 1..read[GroupOf[v]]
    BY DEF HeldIsDelivered
  <2>1. CASE v = w
    <3>1. hand'[v] = Tail(hand[w])
      BY <1>1, <2>1 DEF TypeOK
    <3>2. k + 1 \in 1..Len(hand[w]) /\ hand'[v][k] = hand[w][k + 1]
      BY <1>2, <3>1
    <3> QED
      BY <2>1, <3>2 DEF HeldIsDelivered
  <2>2. CASE v # w
    BY <1>1, <2>2 DEF HeldIsDelivered, TypeOK
  <2> QED
    BY <2>1, <2>2
<1> QED
  BY <1>3, <1>4, <1>5

\* The action Refuse preserves the invariant.
LEMMA RefuseStep ==
    ASSUME IInv, NEW w \in Workers, Refuse(w)
    PROVE  IInv'
<1> USE DEF IInv
<1>1. /\ pc[w] = "polling" /\ hand[w] # <<>>
      /\ Refuses(GroupOf[w], Here(w)) /\ Acknowledge(w, Here(w))
      /\ UNCHANGED <<stream, created, read, pc, done, written, sent, faults>>
  BY DEF Refuse, bus
<1>2. /\ acked' = [acked EXCEPT ![GroupOf[w]] = @ \cup {Here(w)}]
      /\ hand' = [hand EXCEPT ![w] = Tail(@)]
  BY <1>1 DEF Acknowledge
<1>3. HeldIsDelivered' /\ AckedIsDelivered'
  BY <1>1, AcknowledgeFrame
<1>4. TypeOK'
  <2>1. hand' \in [Workers -> Seq(Nat)] /\ acked' \in [Groups -> SUBSET Nat]
    BY <1>1, AcknowledgeFrame
  <2>2. \A v \in Workers : pc[v] \in {"handling", "acted", "committed"} => hand'[v] # <<>>
    BY <1>1, <1>2 DEF TypeOK
  <2> QED
    BY <1>1, <2>1, <2>2 DEF TypeOK
<1>5. \A v \in Workers : pc[v] \in {"handling", "acted", "committed"} =>
        /\ v # w /\ Id(Here(v))' = Id(Here(v)) /\ Here(v)' = Here(v)
  BY <1>1, <1>2 DEF Id, IsReplay, Here, TypeOK
<1>6. ClaimIsFirst' /\ ClaimIsAlone' /\ CommittedIsRecorded'
  BY <1>1, <1>5 DEF ClaimIsFirst, ClaimIsAlone, CommittedIsRecorded, Claiming
<1>7. ClaimIsAllowed'
  BY <1>1, <1>5 DEF ClaimIsAllowed, Refuses, IsReplay
<1>8. WrittenIsRecorded'
  BY <1>1 DEF WrittenIsRecorded
<1>9. AckedIsHandled'
  BY <1>1, <1>2 DEF AckedIsHandled, Id, Refuses, IsReplay, TypeOK
<1>10. \A q \in Groups, e \in Events : Answered(q, e) => Answered(q, e)'
  BY <1>1, <1>5 DEF Answered
<1>11. SentIsAnswered'
  BY <1>1, <1>10 DEF SentIsAnswered
<1> QED
  BY <1>3, <1>4, <1>6, <1>7, <1>8, <1>9, <1>11

\* The action Claim preserves the invariant.
LEMMA ClaimStep ==
    ASSUME IInv, NEW w \in Workers, Claim(w)
    PROVE  IInv'
<1> USE DEF IInv
<1>1. /\ AtClaim(w) /\ ~Recorded(w) /\ pc' = [pc EXCEPT ![w] = "handling"]
      /\ UNCHANGED <<stream, created, read, acked, hand, done, written, sent, faults>>
  BY DEF Claim, bus
<1>2. /\ pc[w] = "polling" /\ hand[w] # <<>>
      /\ ~Refuses(GroupOf[w], Here(w)) /\ ~Contended(w)
  BY <1>1 DEF AtClaim
<1>3. TypeOK'
  BY <1>1, <1>2 DEF TypeOK, PcStates
<1>4. HeldIsDelivered' /\ AckedIsDelivered'
  BY <1>1 DEF HeldIsDelivered, AckedIsDelivered
<1>5. \A v \in Workers : Id(Here(v))' = Id(Here(v)) /\ Here(v)' = Here(v)
  BY <1>1 DEF Id, IsReplay, Here
<1>6. \A v \in Workers : Claiming(v)' <=> (Claiming(v) \/ v = w)
  BY <1>1 DEF Claiming, TypeOK
<1>7. ClaimIsFirst'
  BY <1>1, <1>5, <1>6 DEF ClaimIsFirst, Recorded
<1>8. ClaimIsAlone'
  BY <1>2, <1>5, <1>6 DEF ClaimIsAlone, Contended, Claiming
<1>9. ClaimIsAllowed'
  BY <1>1, <1>2, <1>5 DEF ClaimIsAllowed, Refuses, IsReplay, TypeOK
<1>10. CommittedIsRecorded' /\ WrittenIsRecorded' /\ AckedIsHandled'
  BY <1>1, <1>5 DEF CommittedIsRecorded, WrittenIsRecorded, AckedIsHandled, Id, Refuses,
                    IsReplay, TypeOK
<1>11. \A q \in Groups, e \in Events : Answered(q, e) => Answered(q, e)'
  BY <1>1, <1>2, <1>5 DEF Answered, TypeOK
<1>12. SentIsAnswered'
  BY <1>1, <1>11 DEF SentIsAnswered
<1> QED
  BY <1>3, <1>4, <1>7, <1>8, <1>9, <1>10, <1>12

\* The action Duplicate preserves the invariant.
LEMMA DuplicateStep ==
    ASSUME IInv, NEW w \in Workers, Duplicate(w)
    PROVE  IInv'
<1> USE DEF IInv
<1>1. /\ AtClaim(w) /\ Recorded(w) /\ pc' = [pc EXCEPT ![w] = "committed"]
      /\ UNCHANGED <<stream, created, read, acked, hand, done, written, sent, faults>>
  BY DEF Duplicate, bus
<1>2. pc[w] = "polling" /\ hand[w] # <<>> /\ ~Refuses(GroupOf[w], Here(w))
  BY <1>1 DEF AtClaim
<1>3. TypeOK'
  BY <1>1, <1>2 DEF TypeOK, PcStates
<1>4. HeldIsDelivered' /\ AckedIsDelivered'
  BY <1>1 DEF HeldIsDelivered, AckedIsDelivered
<1>5. \A v \in Workers : Id(Here(v))' = Id(Here(v)) /\ Here(v)' = Here(v)
  BY <1>1 DEF Id, IsReplay, Here
<1>6. \A v \in Workers : Claiming(v)' <=> Claiming(v)
  BY <1>1, <1>2 DEF Claiming, TypeOK
<1>7. ClaimIsFirst' /\ ClaimIsAlone'
  BY <1>1, <1>5, <1>6 DEF ClaimIsFirst, ClaimIsAlone
<1>8. ClaimIsAllowed'
  BY <1>1, <1>2, <1>5 DEF ClaimIsAllowed, Refuses, IsReplay, TypeOK
<1>9. CommittedIsRecorded'
  BY <1>1, <1>5 DEF CommittedIsRecorded, Recorded, TypeOK
<1>10. WrittenIsRecorded' /\ AckedIsHandled'
  BY <1>1 DEF WrittenIsRecorded, AckedIsHandled, Id, Refuses, IsReplay
<1>11. \A q \in Groups, e \in Events : Answered(q, e) => Answered(q, e)'
  BY <1>1, <1>2, <1>5 DEF Answered, TypeOK
<1>12. SentIsAnswered'
  BY <1>1, <1>11 DEF SentIsAnswered
<1> QED
  BY <1>3, <1>4, <1>7, <1>8, <1>9, <1>10, <1>12

\* The action Act preserves the invariant.
LEMMA ActStep ==
    ASSUME IInv, NEW w \in Workers, Act(w)
    PROVE  IInv'
<1> USE DEF IInv
<1> DEFINE g == GroupOf[w]
           e == stream[Here(w)].event
<1>1. /\ pc[w] = "handling" /\ pc' = [pc EXCEPT ![w] = "acted"]
      /\ UNCHANGED <<stream, created, read, acked, hand, done, written, faults>>
  BY DEF Act, bus
<1>2. PICK n \in {0, 1} : sent' = [sent EXCEPT ![g][e] = @ + n]
  BY DEF Act
<1>3. hand[w] # <<>> /\ g \in Groups /\ e \in Events /\ Here(w) \in 1..Len(stream)
  BY <1>1, BusyOnStream, HereOnStream, DeliveryAssumption DEF Entry
<1>4. TypeOK'
  <2>1. sent[g] \in [Events -> Nat] /\ sent[g][e] + n \in Nat
    BY <1>3 DEF TypeOK
  <2>2. sent' = [sent EXCEPT ![g] = [sent[g] EXCEPT ![e] = sent[g][e] + n]]
    BY <1>2, <1>3 DEF TypeOK
  <2>3. [sent[g] EXCEPT ![e] = sent[g][e] + n] \in [Events -> Nat]
    BY <2>1
  <2>4. sent' \in [Groups -> [Events -> Nat]]
    BY <2>2, <2>3, <1>3 DEF TypeOK
  <2> QED
    BY <1>1, <1>3, <2>4 DEF TypeOK, PcStates
<1>5. HeldIsDelivered' /\ AckedIsDelivered'
  BY <1>1 DEF HeldIsDelivered, AckedIsDelivered
<1>6. \A v \in Workers : Id(Here(v))' = Id(Here(v)) /\ Here(v)' = Here(v)
  BY <1>1 DEF Id, IsReplay, Here
<1>7. \A v \in Workers : Claiming(v)' <=> Claiming(v)
  BY <1>1 DEF Claiming, TypeOK
<1>8. ClaimIsFirst' /\ ClaimIsAlone'
  BY <1>1, <1>6, <1>7 DEF ClaimIsFirst, ClaimIsAlone
<1>9. ClaimIsAllowed'
  BY <1>1, <1>6 DEF ClaimIsAllowed, Refuses, IsReplay, TypeOK
<1>10. CommittedIsRecorded' /\ WrittenIsRecorded' /\ AckedIsHandled'
  BY <1>1, <1>6 DEF CommittedIsRecorded, WrittenIsRecorded, AckedIsHandled, Id, Refuses,
                    IsReplay, TypeOK
<1>11. \A q \in Groups, d \in Events : Answered(q, d) => Answered(q, d)'
  BY <1>1, <1>6 DEF Answered, TypeOK
<1>12. SentIsAnswered'
  <2> SUFFICES ASSUME NEW q \in Groups \ Safe, NEW d \in Events
               PROVE  /\ sent'[q][d] <= 1 + faults
                      /\ ~Answered(q, d)' => sent'[q][d] <= faults
    BY <1>1 DEF SentIsAnswered
  <2>0. sent[q][d] \in Nat /\ faults \in Nat
    BY DeliveryAssumption DEF TypeOK
  <2>1. CASE q = g /\ d = e
    <3>1. Id(Here(w)) = First(d)
      BY <1>1, <2>1 DEF ClaimIsAllowed, Refuses, Id, First
    <3>2. First(d) \notin done[q]
      BY <1>1, <2>1, <3>1 DEF ClaimIsFirst, Claiming
    <3>3. ~Answered(q, d)
      BY <1>1, <2>1, <3>1, <3>2 DEF Answered, ClaimIsAlone, Claiming
    <3>4. sent[q][d] <= faults
      BY <3>3 DEF SentIsAnswered
    <3>5. sent'[q][d] = sent[q][d] + n
      BY <1>2, <1>3, <2>1 DEF TypeOK
    <3>6. Answered(q, d)'
      BY <1>1, <1>6, <2>1, <3>1 DEF Answered, TypeOK, First
    <3> QED
      BY <2>0, <3>4, <3>5, <3>6
  <2>2. CASE ~(q = g /\ d = e)
    <3>1. sent'[q][d] = sent[q][d]
      BY <1>2, <1>3, <2>2 DEF TypeOK
    <3> QED
      BY <1>11, <3>1 DEF SentIsAnswered
  <2> QED
    BY <2>1, <2>2
<1> QED
  BY <1>4, <1>5, <1>8, <1>9, <1>10, <1>12

\* The action Commit preserves the invariant.
LEMMA CommitStep ==
    ASSUME IInv, NEW w \in Workers, Commit(w)
    PROVE  IInv'
<1> USE DEF IInv
<1> DEFINE g == GroupOf[w]
           i == Here(w)
<1>1. /\ pc[w] = "acted" /\ pc' = [pc EXCEPT ![w] = "committed"]
      /\ done' = [done EXCEPT ![g] = @ \cup {Id(i)}]
      /\ written' = IF IsReplay(i) THEN written
                    ELSE [written EXCEPT ![g][stream[i].event] = @ + 1]
      /\ UNCHANGED <<stream, created, read, acked, hand, sent, faults>>
  BY DEF Commit, bus
<1>2. /\ hand[w] # <<>> /\ g \in Groups /\ i \in 1..Len(stream)
      /\ stream[i].event \in Events /\ Id(i) \in [event : Events, copy : Nat]
  BY <1>1, BusyOnStream, HereOnStream, DeliveryAssumption DEF Entry
<1>3. TypeOK'
  <2>1. done' \in [Groups -> SUBSET [event : Events, copy : Nat]]
    BY <1>1, <1>2 DEF TypeOK
  <2>2. written' \in [Groups -> [Events -> Nat]]
    <3> DEFINE e == stream[i].event
               one == [written[g] EXCEPT ![e] = @ + 1]
    <3>0. written[g] \in [Events -> Nat] /\ e \in Events
      BY <1>2 DEF TypeOK
    <3> HIDE DEF e, g
    <3>1. one \in [Events -> Nat]
      <4>1. \A x \in Events : one[x] \in Nat
        BY <3>0
      <4> QED
        BY <3>0, <4>1
    <3> USE DEF e, g
    <3>2. written' = written \/ written' = [written EXCEPT ![g] = one]
      BY <1>1, <1>2 DEF TypeOK
    <3> QED
      BY <1>2, <3>1, <3>2 DEF TypeOK
  <2> QED
    BY <1>1, <1>2, <2>1, <2>2 DEF TypeOK, PcStates
<1>4. HeldIsDelivered' /\ AckedIsDelivered'
  BY <1>1 DEF HeldIsDelivered, AckedIsDelivered
<1>5. \A v \in Workers : Id(Here(v))' = Id(Here(v)) /\ Here(v)' = Here(v)
  BY <1>1 DEF Id, IsReplay, Here
<1>6. \A v \in Workers : Claiming(v)' => Claiming(v) /\ v # w
  BY <1>1 DEF Claiming, TypeOK
<1>7. /\ Id(i) \in done'[g]
      /\ \A q \in Groups : \A x : x \in done'[q] <=> (x \in done[q] \/ (q = g /\ x = Id(i)))
  BY <1>1, <1>2 DEF TypeOK
<1>8. ClaimIsFirst'
  <2> SUFFICES ASSUME NEW v \in Workers, Claiming(v)'
               PROVE  Id(Here(v)) \notin done'[GroupOf[v]]
    BY <1>5 DEF ClaimIsFirst
  <2>1. Claiming(v) /\ v # w /\ Claiming(w) /\ GroupOf[v] \in Groups
    BY <1>1, <1>6, DeliveryAssumption DEF Claiming
  <2> QED
    BY <1>7, <2>1 DEF ClaimIsFirst, ClaimIsAlone
<1>9. ClaimIsAlone'
  BY <1>1, <1>5, <1>6 DEF ClaimIsAlone
<1>10. ClaimIsAllowed'
  BY <1>1, <1>5 DEF ClaimIsAllowed, Refuses, IsReplay, TypeOK
<1>11. CommittedIsRecorded'
  <2> SUFFICES ASSUME NEW v \in Workers, pc'[v] = "committed"
               PROVE  Id(Here(v)) \in done'[GroupOf[v]]
    BY <1>5 DEF CommittedIsRecorded
  <2>1. CASE v = w
    BY <1>7, <2>1
  <2>2. CASE v # w
    <3>1. pc[v] = "committed" /\ GroupOf[v] \in Groups
      BY <1>1, <2>2, DeliveryAssumption DEF TypeOK
    <3> QED
      BY <1>7, <3>1 DEF CommittedIsRecorded
  <2> QED
    BY <2>1, <2>2
<1>12. WrittenIsRecorded'
  <2> SUFFICES ASSUME NEW q \in Groups, NEW d \in Events
               PROVE  written'[q][d] = 0 \/ (written'[q][d] = 1 /\ First(d) \in done'[q])
    BY DEF WrittenIsRecorded
  <2>1. CASE q = g /\ d = stream[i].event /\ ~IsReplay(i)
    <3>1. Id(i) = First(d)
      BY <2>1 DEF Id, First
    <3>2. First(d) \notin done[q]
      BY <1>1, <2>1, <3>1 DEF ClaimIsFirst, Claiming
    <3>3. written[q][d] = 0
      BY <3>2 DEF WrittenIsRecorded
    <3>4. written'[q][d] = written[q][d] + 1
      BY <1>1, <1>2, <2>1 DEF TypeOK
    <3> QED
      BY <1>7, <2>1, <3>1, <3>3, <3>4
  <2>2. CASE ~(q = g /\ d = stream[i].event /\ ~IsReplay(i))
    <3>1. written'[q][d] = written[q][d]
      BY <1>1, <1>2, <2>2 DEF TypeOK
    <3> QED
      BY <1>7, <3>1 DEF WrittenIsRecorded
  <2> QED
    BY <2>1, <2>2
<1>13. AckedIsHandled'
  BY <1>1, <1>7 DEF AckedIsHandled, Id, Refuses, IsReplay
<1>14. \A q \in Groups, d \in Events : Answered(q, d) => Answered(q, d)'
  <2> SUFFICES ASSUME NEW q \in Groups, NEW d \in Events, Answered(q, d)
               PROVE  Answered(q, d)'
    OBVIOUS
  <2>1. CASE First(d) \in done[q]
    BY <1>7, <2>1 DEF Answered, First
  <2>2. CASE \E v \in Workers : GroupOf[v] = q /\ pc[v] = "acted" /\ Id(Here(v)) = First(d)
    <3>1. PICK v \in Workers : GroupOf[v] = q /\ pc[v] = "acted" /\ Id(Here(v)) = First(d)
      BY <2>2
    <3>2. CASE v = w
      BY <1>7, <3>1, <3>2 DEF Answered, First
    <3>3. CASE v # w
      <4>1. pc'[v] = "acted"
        BY <1>1, <3>1, <3>3 DEF TypeOK
      <4> QED
        BY <1>5, <3>1, <4>1 DEF Answered, First
    <3> QED
      BY <3>2, <3>3
  <2> QED
    BY <2>1, <2>2 DEF Answered
<1>15. SentIsAnswered'
  BY <1>1, <1>14 DEF SentIsAnswered
<1> QED
  BY <1>3, <1>4, <1>8, <1>9, <1>10, <1>11, <1>12, <1>13, <1>15

\* The action Ack preserves the invariant.
LEMMA AckStep ==
    ASSUME IInv, NEW w \in Workers, Ack(w)
    PROVE  IInv'
<1> USE DEF IInv
<1>1. /\ pc[w] = "committed" /\ pc' = [pc EXCEPT ![w] = "polling"]
      /\ Acknowledge(w, Here(w))
      /\ UNCHANGED <<stream, created, read, done, written, sent, faults>>
  BY DEF Ack, bus
<1>2. /\ acked' = [acked EXCEPT ![GroupOf[w]] = @ \cup {Here(w)}]
      /\ hand' = [hand EXCEPT ![w] = Tail(@)]
  BY <1>1 DEF Acknowledge
<1>3. hand[w] # <<>>
  BY <1>1, BusyOnStream
<1>4. HeldIsDelivered' /\ AckedIsDelivered'
  BY <1>1, <1>3, AcknowledgeFrame
<1>5. TypeOK'
  <2>1. hand' \in [Workers -> Seq(Nat)] /\ acked' \in [Groups -> SUBSET Nat]
    BY <1>1, <1>3, AcknowledgeFrame
  <2>2. \A v \in Workers : pc'[v] \in {"handling", "acted", "committed"} => hand'[v] # <<>>
    BY <1>1, <1>2 DEF TypeOK
  <2>3. pc' \in [Workers -> PcStates]
    BY <1>1 DEF TypeOK, PcStates
  <2> QED
    BY <1>1, <2>1, <2>2, <2>3 DEF TypeOK
<1>6. \A v \in Workers : pc'[v] \in {"handling", "acted", "committed"} =>
        /\ v # w /\ pc'[v] = pc[v] /\ Id(Here(v))' = Id(Here(v)) /\ Here(v)' = Here(v)
  BY <1>1, <1>2 DEF Id, IsReplay, Here, TypeOK
<1>7. ClaimIsFirst' /\ ClaimIsAlone' /\ CommittedIsRecorded'
  BY <1>1, <1>6 DEF ClaimIsFirst, ClaimIsAlone, CommittedIsRecorded, Claiming
<1>8. ClaimIsAllowed'
  BY <1>1, <1>6 DEF ClaimIsAllowed, Refuses, IsReplay
<1>9. WrittenIsRecorded'
  BY <1>1 DEF WrittenIsRecorded
<1>10. AckedIsHandled'
  BY <1>1, <1>2 DEF AckedIsHandled, CommittedIsRecorded, Id, Refuses, IsReplay, TypeOK
<1>11. \A q \in Groups, d \in Events : Answered(q, d) => Answered(q, d)'
  <2>1. \A v \in Workers : pc[v] = "acted" => pc'[v] = "acted"
    BY <1>1 DEF TypeOK
  <2> QED
    BY <1>1, <1>6, <2>1 DEF Answered, First
<1>12. SentIsAnswered'
  BY <1>1, <1>11 DEF SentIsAnswered
<1> QED
  BY <1>4, <1>5, <1>7, <1>8, <1>9, <1>10, <1>12

\* The action Die preserves the invariant.
LEMMA DieStep ==
    ASSUME IInv, NEW w \in Workers, Die(w)
    PROVE  IInv'
<1> USE DEF IInv
<1>1. /\ faults < MaxFaults /\ faults' = faults + 1
      /\ pc' = [pc EXCEPT ![w] = "down"] /\ hand' = [hand EXCEPT ![w] = <<>>]
      /\ UNCHANGED <<stream, created, read, done, written, sent>>
  BY DEF Die, bus
<1>2. acked' = acked
  BY DEF Die, AckedByExit, TypeOK
<1>3. TypeOK'
  BY <1>1, <1>2, DeliveryAssumption DEF TypeOK, PcStates
<1>4. HeldIsDelivered' /\ AckedIsDelivered'
  BY <1>1, <1>2 DEF HeldIsDelivered, AckedIsDelivered, TypeOK
<1>5. \A v \in Workers : pc'[v] \in {"handling", "acted", "committed"} =>
        /\ v # w /\ pc'[v] = pc[v] /\ Id(Here(v))' = Id(Here(v)) /\ Here(v)' = Here(v)
  BY <1>1 DEF Id, IsReplay, Here, TypeOK
<1>6. ClaimIsFirst' /\ ClaimIsAlone' /\ CommittedIsRecorded'
  BY <1>1, <1>5 DEF ClaimIsFirst, ClaimIsAlone, CommittedIsRecorded, Claiming
<1>7. ClaimIsAllowed'
  BY <1>1, <1>5 DEF ClaimIsAllowed, Refuses, IsReplay
<1>8. WrittenIsRecorded' /\ AckedIsHandled'
  BY <1>1, <1>2 DEF WrittenIsRecorded, AckedIsHandled, Id, Refuses, IsReplay
<1>9. SentIsAnswered'
  <2>1. faults \in Nat /\ \A q \in Groups, d \in Events : sent[q][d] \in Nat
    BY DeliveryAssumption DEF TypeOK
  <2> QED
    BY <1>1, <2>1 DEF SentIsAnswered
<1> QED
  BY <1>3, <1>4, <1>6, <1>7, <1>8, <1>9

\* A stuttering step changes nothing the invariant speaks of.
LEMMA StutterStep == ASSUME IInv, UNCHANGED vars PROVE IInv'
BY DEF IInv, vars, TypeOK, HeldIsDelivered, AckedIsDelivered, ClaimIsFirst, ClaimIsAllowed,
       ClaimIsAlone, CommittedIsRecorded, WrittenIsRecorded, SentIsAnswered, AckedIsHandled,
       Answered, Claiming, Id, IsReplay, Here, Refuses

\* Every step keeps the invariant.
LEMMA NextIInv == IInv /\ [Next]_vars => IInv'
<1> SUFFICES ASSUME IInv, [Next]_vars PROVE IInv'
  OBVIOUS
<1>1. ASSUME NEW e \in Events, Publish(e) PROVE IInv'
  <2>1. [event |-> e, target |-> Anyone] \in Entry
    BY DEF Entry
  <2> QED
    BY <1>1, <2>1, AddStep DEF Publish
<1>2. ASSUME NEW i \in 1..Len(stream), NEW g \in Groups, Replay(i, g) PROVE IInv'
  <2>1. stream[i] \in Entry
    BY DEF IInv, TypeOK
  <2>2. [event |-> stream[i].event, target |-> g] \in Entry
    BY <2>1 DEF Entry
  <2> QED
    BY <1>2, <2>2, AddStep DEF Replay
<1>3. ASSUME NEW w \in Workers, Subscribe(w) \/ Work(w) \/ Die(w) PROVE IInv'
  BY <1>3, SubscribeStep, ReadStep, RefuseStep, ClaimStep, DuplicateStep, ActStep, CommitStep,
     AckStep, DieStep DEF Work
<1>4. CASE UNCHANGED vars
  BY <1>4, StutterStep
<1> QED
  BY <1>1, <1>2, <1>3, <1>4 DEF Next

-------------------------------------------------------------------------------
\* The inductive invariant holds in every behaviour, fair or not.
THEOREM Invariance == Spec => []IInv
<1>1. Init => IInv
  BY InitIInv
<1>2. IInv /\ [Next]_vars => IInv'
  BY NextIInv
<1> QED
  BY <1>1, <1>2, PTL DEF Spec

\* A group's writes for an event commit at most once, whatever duplicates
\* arrive and however many workers race for them.
THEOREM EffectsCommitOnce == Spec => []WrittenOnce
<1>1. IInv => WrittenOnce
  BY DEF IInv, WrittenIsRecorded, WrittenOnce
<1> QED
  BY <1>1, Invariance, PTL

\* A consumer with side effects acts once per event plus once per crash; a
\* replay never makes it act again.
THEOREM MessagesArePaidByFaults == Spec => []SentOncePerFault
<1>1. IInv => SentOncePerFault
  BY DEF IInv, SentIsAnswered, SentOncePerFault
<1> QED
  BY <1>1, Invariance, PTL

\* Nothing is acknowledged before it is on record as handled, or refused.
THEOREM AcknowledgedWasHandled == Spec => []AckedIsHandled
<1>1. IInv => AckedIsHandled
  BY DEF IInv
<1> QED
  BY <1>1, Invariance, PTL

\* What a read puts into a hand is new to the group.
LEMMA ReadGives ==
    ASSUME IInv, NEW w \in Workers, Read(w)
    PROVE  LET g == GroupOf[w] IN
           /\ g \in Groups /\ read[g] \in Nat /\ acked' = acked
           /\ \A v \in Workers \ {w} : hand'[v] = hand[v]
           /\ \A k \in 1..Len(hand'[w]) : hand'[w][k] \in Nat /\ hand'[w][k] > read[g]
           /\ \A k, n \in 1..Len(hand'[w]) : hand'[w][k] = hand'[w][n] => k = n
           /\ \A h \in Groups : read[h] \in Nat /\ read'[h] \in Nat /\ read[h] <= read'[h]
<1> USE DEF IInv
<1> DEFINE g == GroupOf[w]
           T == [k \in 1..(ReadTo(g) - read[g]) |-> read[g] + k]
<1>0. g \in Groups /\ Len(stream) \in Nat /\ BatchSize \in Nat \ {0} /\ read[g] \in Nat
  BY DeliveryAssumption DEF TypeOK
<1>1. /\ read[g] < Len(stream)
      /\ hand' = [hand EXCEPT ![w] = T]
      /\ read' = [read EXCEPT ![g] = ReadTo(g)]
      /\ acked' = acked
  BY DEF Read
<1>2. ReadTo(g) \in Nat /\ read[g] < ReadTo(g)
  BY <1>0, <1>1 DEF ReadTo
<1>3. hand'[w] = T /\ \A v \in Workers \ {w} : hand'[v] = hand[v]
  BY <1>1 DEF TypeOK
<1>4. /\ \A k \in 1..Len(T) : T[k] \in Nat /\ T[k] > read[g]
      /\ \A k, n \in 1..Len(T) : T[k] = T[n] => k = n
  <2>1. ReadTo(g) - read[g] \in Nat
    BY <1>0, <1>2
  <2> HIDE DEF g
  <2>2. Len(T) = ReadTo(g) - read[g]
    BY <2>1
  <2> QED
    BY <1>0, <1>2, <2>1, <2>2
<1>5. \A h \in Groups : read[h] \in Nat /\ read'[h] \in Nat /\ read[h] <= read'[h]
  BY <1>0, <1>1, <1>2 DEF TypeOK
<1> HIDE DEF T
<1> QED
  BY <1>0, <1>1, <1>3, <1>4, <1>5

\* What an acknowledgement takes off a hand is its first entry.
LEMMA AcknowledgeTakes ==
    ASSUME IInv, NEW w \in Workers, hand[w] # <<>>, Acknowledge(w, Here(w))
    PROVE  /\ GroupOf[w] \in Groups /\ 1 \in 1..Len(hand[w])
           /\ \A v \in Workers \ {w} : hand'[v] = hand[v]
           /\ \A k \in 1..Len(hand'[w]) :
                 k \in Nat /\ k + 1 \in 1..Len(hand[w]) /\ hand'[w][k] = hand[w][k + 1]
           /\ \A q \in Groups :
                 acked'[q] = IF q = GroupOf[w] THEN acked[q] \cup {hand[w][1]} ELSE acked[q]
<1> USE DEF IInv
<1>1. hand[w] \in Seq(Nat) /\ GroupOf[w] \in Groups
  BY DeliveryAssumption DEF TypeOK
<1>2. hand'[w] = Tail(hand[w]) /\ \A v \in Workers \ {w} : hand'[v] = hand[v]
  BY DEF Acknowledge, TypeOK
<1>3. Here(w) = hand[w][1] /\ 1 \in 1..Len(hand[w])
  BY <1>1 DEF Here
<1>4. \A k \in 1..Len(hand'[w]) :
        k \in Nat /\ k + 1 \in 1..Len(hand[w]) /\ hand'[w][k] = hand[w][k + 1]
  BY <1>1, <1>2
<1>5. \A q \in Groups :
        acked'[q] = IF q = GroupOf[w] THEN acked[q] \cup {hand[w][1]} ELSE acked[q]
  BY <1>1, <1>3 DEF Acknowledge, TypeOK
<1> QED
  BY <1>1, <1>2, <1>3, <1>4, <1>5

\* The hands of a group's workers stay apart while entries are given out, taken
\* off and dropped.
LEMMA HandsStayApart ==
    ASSUME IInv, HandedOnce, [Next]_vars
    PROVE  HandedOnce'
<1> USE DEF IInv
<1>1. CASE UNCHANGED <<hand, acked>>
  BY <1>1 DEF HandedOnce
<1>2. ASSUME NEW w \in Workers, Read(w) PROVE HandedOnce'
  <2> DEFINE g == GroupOf[w]
  <2>1. /\ g \in Groups /\ read[g] \in Nat /\ acked' = acked
        /\ \A v \in Workers \ {w} : hand'[v] = hand[v]
        /\ \A k \in 1..Len(hand'[w]) : hand'[w][k] \in Nat /\ hand'[w][k] > read[g]
        /\ \A k, n \in 1..Len(hand'[w]) : hand'[w][k] = hand'[w][n] => k = n
    BY <1>2, ReadGives
  <2>2. \A v \in Workers : \A k \in 1..Len(hand[v]) :
           GroupOf[v] = g => hand[v][k] \in Nat /\ hand[v][k] <= read[g]
    BY <2>1 DEF HeldIsDelivered
  <2>3. \A k \in 1..Len(hand'[w]) : hand'[w][k] \notin acked[g]
    BY <2>1 DEF AckedIsDelivered
  <2>4. \A v \in Workers \ {w} : \A k \in 1..Len(hand[v]), n \in 1..Len(hand'[w]) :
           GroupOf[v] = g => hand[v][k] # hand'[w][n]
    <3> HIDE DEF g
    <3> QED
      BY <2>1, <2>2
  <2> SUFFICES ASSUME NEW u \in Workers, NEW v \in Workers,
                      NEW k \in 1..Len(hand'[u]), NEW n \in 1..Len(hand'[v]),
                      GroupOf[u] = GroupOf[v]
               PROVE  /\ hand'[u][k] = hand'[v][n] => u = v /\ k = n
                      /\ hand'[u][k] \notin acked'[GroupOf[u]]
    BY DEF HandedOnce
  <2>5. CASE u # w /\ v # w
    BY <2>1, <2>5 DEF HandedOnce
  <2>6. CASE u = w /\ v = w
    BY <2>1, <2>3, <2>6
  <2>7. CASE u = w /\ v # w
    BY <2>1, <2>3, <2>4, <2>7
  <2>8. CASE u # w /\ v = w
    <3>1. hand'[u][k] \notin acked[GroupOf[u]]
      BY <2>1, <2>8 DEF HandedOnce
    <3> QED
      BY <2>1, <2>4, <2>8, <3>1
  <2> QED
    BY <2>5, <2>6, <2>7, <2>8
<1>3. ASSUME NEW w \in Workers, hand[w] # <<>>, Acknowledge(w, Here(w)) PROVE HandedOnce'
  <2> DEFINE at(v, k) == IF v = w THEN k + 1 ELSE k
  <2>1. /\ GroupOf[w] \in Groups /\ 1 \in 1..Len(hand[w])
        /\ \A v \in Workers \ {w} : hand'[v] = hand[v]
        /\ \A k \in 1..Len(hand'[w]) :
              k \in Nat /\ k + 1 \in 1..Len(hand[w]) /\ hand'[w][k] = hand[w][k + 1]
        /\ \A q \in Groups :
              acked'[q] = IF q = GroupOf[w] THEN acked[q] \cup {hand[w][1]} ELSE acked[q]
    BY <1>3, AcknowledgeTakes
  <2>2. \A v \in Workers : \A k \in 1..Len(hand'[v]) :
          /\ at(v, k) \in 1..Len(hand[v])
          /\ hand'[v][k] = hand[v][at(v, k)]
          /\ v = w => at(v, k) # 1
    BY <2>1
  <2> SUFFICES ASSUME NEW u \in Workers, NEW v \in Workers,
                      NEW k \in 1..Len(hand'[u]), NEW n \in 1..Len(hand'[v]),
                      GroupOf[u] = GroupOf[v]
               PROVE  /\ hand'[u][k] = hand'[v][n] => u = v /\ k = n
                      /\ hand'[u][k] \notin acked'[GroupOf[u]]
    BY DEF HandedOnce
  <2>4. at(u, k) = at(v, n) /\ u = v => k = n
    OBVIOUS
  <2> HIDE DEF at
  <2>5. hand'[u][k] = hand'[v][n] => u = v /\ at(u, k) = at(v, n)
    <3>1. /\ at(u, k) \in 1..Len(hand[u]) /\ hand'[u][k] = hand[u][at(u, k)]
          /\ at(v, n) \in 1..Len(hand[v]) /\ hand'[v][n] = hand[v][at(v, n)]
      BY <2>2
    <3>2. \A a \in 1..Len(hand[u]), b \in 1..Len(hand[v]) :
             hand[u][a] = hand[v][b] => u = v /\ a = b
      BY DEF HandedOnce
    <3> QED
      BY <3>1, <3>2
  <2>6. GroupOf[u] = GroupOf[w] => hand'[u][k] # hand[w][1]
    <3>1. CASE hand'[u][k] = hand[w][1] /\ GroupOf[u] = GroupOf[w]
      <4>1. u = w /\ at(u, k) = 1
        BY <2>1, <2>2, <3>1 DEF HandedOnce
      <4> QED
        BY <2>2, <4>1
    <3> QED
      BY <3>1
  <2>7. hand'[u][k] \notin acked[GroupOf[u]]
    <3>1. at(u, k) \in 1..Len(hand[u]) /\ hand'[u][k] = hand[u][at(u, k)]
      BY <2>2
    <3>2. \A a \in 1..Len(hand[u]) : hand[u][a] \notin acked[GroupOf[u]]
      BY DEF HandedOnce
    <3> QED
      BY <3>1, <3>2
  <2>8. GroupOf[u] \in Groups
    BY DeliveryAssumption
  <2>9. hand'[u][k] \notin acked'[GroupOf[u]]
    <3>1. CASE GroupOf[u] = GroupOf[w]
      <4>1. acked'[GroupOf[u]] = acked[GroupOf[u]] \cup {hand[w][1]}
        BY <2>1, <2>8, <3>1
      <4> QED
        BY <2>6, <2>7, <3>1, <4>1
    <3>2. CASE GroupOf[u] # GroupOf[w]
      <4>1. acked'[GroupOf[u]] = acked[GroupOf[u]]
        BY <2>1, <2>8, <3>2
      <4> QED
        BY <2>7, <4>1
    <3> QED
      BY <3>1, <3>2
  <2>10. hand'[u][k] = hand'[v][n] => u = v /\ k = n
    BY <2>4, <2>5
  <2> QED
    BY <2>9, <2>10
<1>4. ASSUME NEW w \in Workers, Die(w) PROVE HandedOnce'
  <2>1. /\ hand \in [Workers -> Seq(Nat)] /\ acked \in [Groups -> SUBSET Nat]
        /\ GroupOf[w] \in Groups
    BY DeliveryAssumption DEF TypeOK
  <2>2. acked' = acked
    BY <1>4, <2>1 DEF Die, AckedByExit
  <2>3. /\ Len(hand'[w]) = 0
        /\ \A v \in Workers \ {w} : hand'[v] = hand[v]
    BY <1>4, <2>1 DEF Die
  <2>4. \A v \in Workers : v = w => 1..Len(hand'[v]) = {}
    BY <2>3
  <2>5. \A v \in Workers : v # w => hand'[v] = hand[v]
    BY <2>3
  <2> QED
    BY <2>2, <2>4, <2>5 DEF HandedOnce
<1>5. ASSUME NEW w \in Workers, Refuse(w) \/ Ack(w) PROVE HandedOnce'
  BY <1>3, <1>5, BusyOnStream DEF Refuse, Ack
<1>6. ASSUME NEW w \in Workers, Subscribe(w) \/ Work(w) PROVE HandedOnce'
  BY <1>1, <1>2, <1>5, <1>6 DEF Work, Subscribe, Claim, Duplicate, Act, Commit
<1> QED
  BY <1>1, <1>4, <1>6 DEF Next, Publish, Replay, Add, vars

\* An entry is in one worker's hand of its group at most, and in none once it
\* is acknowledged.
THEOREM EntriesAreHandedOnce == Spec => []HandedOnce
<1>1. Init => HandedOnce
  BY DEF Init, HandedOnce
<1>2. IInv /\ HandedOnce /\ [Next]_vars => HandedOnce'
  BY HandsStayApart
<1> QED
  BY <1>1, <1>2, Invariance, PTL DEF Spec

\* What a worker held when it died, or what was added before its group existed,
\* no worker of the group ever handles.
THEOREM LostIsNeverFound == Spec => LostStaysLost
<1> DEFINE Stays == \A g \in Groups : \A i \in 1..Len(stream) : Gone(g, i) => Gone(g, i)'
<1>1. ASSUME IInv, Next PROVE Stays
  <2> USE DEF IInv
  <2> SUFFICES ASSUME NEW g \in Groups, NEW i \in 1..Len(stream), Gone(g, i)
               PROVE  Gone(g, i)'
    OBVIOUS
  <2>1. CASE UNCHANGED <<read, acked, hand>>
    BY <2>1 DEF Gone, Holds
  <2>2. ASSUME NEW w \in Workers, Subscribe(w) PROVE Gone(g, i)'
    <3>1. UNCHANGED <<acked, hand>> /\ read'[g] \in {read[g], Len(stream)}
      BY <2>2 DEF Subscribe, TypeOK
    <3>2. i \in 1..read'[g] \ acked[g]
      BY <1>1, <3>1 DEF Gone
    <3> QED
      BY <3>1, <3>2 DEF Gone, Holds
  <2>3. ASSUME NEW w \in Workers, Read(w) PROVE Gone(g, i)'
    <3>1. /\ acked' = acked
          /\ \A v \in Workers \ {w} : hand'[v] = hand[v]
          /\ read[GroupOf[w]] \in Nat
          /\ \A k \in 1..Len(hand'[w]) :
                hand'[w][k] \in Nat /\ hand'[w][k] > read[GroupOf[w]]
          /\ read[g] \in Nat /\ read'[g] \in Nat /\ read[g] <= read'[g]
      BY <1>1, <2>3, ReadGives
    <3>2. i \in 1..read[g] /\ i \in 1..read'[g] /\ i \notin acked[g]
      BY <3>1 DEF Gone
    <3>3. ASSUME NEW v \in Workers, GroupOf[v] = g PROVE ~Holds(v, i)'
      <4>1. CASE v = w
        BY <3>1, <3>2, <3>3, <4>1 DEF Holds
      <4>2. CASE v # w
        BY <3>1, <3>3, <4>2 DEF Gone, Holds
      <4> QED
        BY <4>1, <4>2
    <3> QED
      BY <3>1, <3>2, <3>3 DEF Gone
  <2>4. ASSUME NEW w \in Workers, hand[w] # <<>>, Acknowledge(w, Here(w)), read' = read
        PROVE  Gone(g, i)'
    <3>1. /\ 1 \in 1..Len(hand[w])
          /\ \A v \in Workers \ {w} : hand'[v] = hand[v]
          /\ \A k \in 1..Len(hand'[w]) :
                k \in Nat /\ k + 1 \in 1..Len(hand[w]) /\ hand'[w][k] = hand[w][k + 1]
          /\ acked'[g] = IF g = GroupOf[w] THEN acked[g] \cup {hand[w][1]} ELSE acked[g]
      BY <1>1, <2>4, AcknowledgeTakes
    <3>2. GroupOf[w] = g => i # hand[w][1]
      BY <3>1 DEF Gone, Holds
    <3>3. ASSUME NEW v \in Workers, GroupOf[v] = g PROVE ~Holds(v, i)'
      <4>1. CASE v = w
        <5>1. ~Holds(w, i)
          BY <3>3, <4>1 DEF Gone
        <5> QED
          BY <3>1, <4>1, <5>1 DEF Holds
      <4>2. CASE v # w
        BY <3>1, <3>3, <4>2 DEF Gone, Holds
      <4> QED
        BY <4>1, <4>2
    <3> QED
      BY <2>4, <3>1, <3>2, <3>3 DEF Gone
  <2>5. ASSUME NEW w \in Workers, Die(w) PROVE Gone(g, i)'
    BY <2>5 DEF Die, AckedByExit, Gone, Holds, TypeOK
  <2>6. ASSUME NEW w \in Workers, Refuse(w) \/ Ack(w) PROVE Gone(g, i)'
    <3>1. hand[w] # <<>> /\ Acknowledge(w, Here(w)) /\ read' = read
      BY <1>1, <2>6, BusyOnStream DEF Refuse, Ack
    <3> QED
      BY <2>4, <3>1
  <2>7. ASSUME NEW w \in Workers, Subscribe(w) \/ Work(w) PROVE Gone(g, i)'
    BY <2>1, <2>2, <2>3, <2>6, <2>7 DEF Work, Claim, Duplicate, Act, Commit
  <2> QED
    BY <1>1, <2>1, <2>5, <2>7 DEF Next, Publish, Replay, Add
<1>2. IInv /\ [Next]_vars => [Stays]_vars
  BY <1>1
<1> QED
  BY <1>2, Invariance, PTL DEF Spec, LostStaysLost

\* Type correctness, the bounds on every group's position included.
THEOREM TypeCorrect == Spec => []TypeOK
<1>1. IInv => TypeOK
  BY DEF IInv
<1> QED
  BY <1>1, Invariance, PTL
==============================================================================
