------------------------ MODULE KafkaInspectorProofs -------------------------
(* Machine-checked proofs about KafkaInspector, for any number of inspectors,  *)
(* requests, models and bounds.                                                *)
EXTENDS KafkaInspector, SequenceTheorems, FiniteSetTheorems, TLAPS

------------------------------------------------------------------------------
(* How a step changes what is handled.                                         *)

(* A verdict more in the log handles exactly the request it answers.           *)
LEMMA AppendHandles ==
  ASSUME TypeOK, NEW v, verdicts' = Append(verdicts, v), UNCHANGED lost
  PROVE  Handled' = Handled \cup {v.request}
<1>1. /\ Len(verdicts') = Len(verdicts) + 1
      /\ \A k \in 1 .. Len(verdicts) : verdicts'[k] = verdicts[k]
      /\ verdicts'[Len(verdicts) + 1] = v
      /\ Len(verdicts) \in Nat
      /\ DOMAIN verdicts = 1 .. Len(verdicts)
      /\ DOMAIN verdicts' = 1 .. (Len(verdicts) + 1)
  BY DEF TypeOK
<1>2. Served' = Served \cup {v.request}
  BY <1>1 DEF Served
<1>3. QED BY <1>2 DEF Handled

(* An answer handles the request in hand.                                      *)
LEMMA AnswerHandles ==
  ASSUME TypeOK, NEW p \in Inspectors, Answer(p)
  PROVE  Handled' = Handled \cup {pos[p]}
<1>1. VerdictOf(p).request = pos[p]
  BY DEF VerdictOf
<1>2. QED BY <1>1, AppendHandles DEF Answer

(* The verdict in hand is a verdict on a request of the topic.                 *)
LEMMA VerdictType ==
  ASSUME TypeOK, PositionHandled, NEW p \in Inspectors, CanDecide(p)
  PROVE  /\ pos[p] \in DOMAIN requests /\ pos[p] \in Nat \ {0}
         /\ loaded[p] \in Models /\ requests[pos[p]] \in Requests
         /\ VerdictOf(p) \in [request : Nat \ {0}, message : Message]
<1>1. pos[p] \in DOMAIN requests /\ pos[p] \in Nat \ {0}
  BY DEF TypeOK, PositionHandled, CanDecide
<1>2. requests[pos[p]] \in Requests /\ loaded[p] \in Models
  BY <1>1 DEF TypeOK
<1>3. VerdictOf(p) \in [request : Nat \ {0}, message : Message]
  BY <1>1, <1>2 DEF VerdictOf, Message
<1>4. QED BY <1>1, <1>2, <1>3

(* The initial states satisfy the invariant.                                   *)
LEMMA InitInv == Init => IInv
<1> SUFFICES ASSUME Init PROVE IInv
  OBVIOUS
<1>1. Handled = {}
  BY DEF Init, Handled, Served
<1>2. TypeOK
  BY DEF Init, TypeOK
<1>3. QED
  BY <1>1, <1>2, InspectorAssumption
  DEF Init, IInv, PositionHandled, OwnerAhead, CommittedHandled, HandledInOrder, HandledAsked,
      CopiesDue

(* A step that leaves both the verdict topic and the lost sends alone handles  *)
(* nothing new.                                                                *)
LEMMA SameHandled ==
  ASSUME UNCHANGED <<verdicts, lost>>
  PROVE  Handled' = Handled
BY DEF Handled, Served

(* A copy stays due while requests are only appended and nothing handled is    *)
(* forgotten.                                                                  *)
LEMMA StillDue ==
  ASSUME IInv, unacked' \subseteq unacked, Handled \subseteq Handled',
         UNCHANGED requests \/ \E r : requests' = Append(requests, r)
  PROVE  CopiesDue'
<1>1. \A i \in DOMAIN requests : i \in DOMAIN requests' /\ requests'[i] = requests[i]
  <2>1. requests \in Seq(Requests)
    BY DEF IInv, TypeOK
  <2>2. ASSUME NEW r, requests' = Append(requests, r)
        PROVE  \A i \in DOMAIN requests : i \in DOMAIN requests' /\ requests'[i] = requests[i]
    <3>1. requests \in Seq(Requests \cup {r})
      BY <2>1
    <3>2. /\ DOMAIN requests = 1 .. Len(requests) /\ Len(requests) \in Nat
          /\ DOMAIN requests' = 1 .. (Len(requests) + 1)
          /\ \A i \in 1 .. Len(requests) : requests'[i] = requests[i]
      BY <2>2, <3>1
    <3>3. QED BY <3>2
  <2>3. QED BY <2>2
<1>2. SUFFICES ASSUME NEW copy \in unacked'
               PROVE  LET i == copy.verdict.request
                      IN  /\ i \in DOMAIN requests' /\ 1 .. (i - 1) \subseteq Handled'
                          /\ \E m \in Models :
                               copy.verdict.message = Decide(Policy, Detectors, m, requests'[i])
  BY DEF CopiesDue
<1> DEFINE i == copy.verdict.request
<1>3. /\ i \in DOMAIN requests /\ 1 .. (i - 1) \subseteq Handled
      /\ \E m \in Models : copy.verdict.message = Decide(Policy, Detectors, m, requests[i])
  BY DEF IInv, CopiesDue
<1> HIDE DEF i
<1>4. QED BY <1>1, <1>3 DEF i

(* Sending the verdict in hand, arrived or not, keeps the order: everything    *)
(* before the record was handled already.                                      *)
LEMMA SendInv ==
  ASSUME IInv, NEW p \in Inspectors, CanDecide(p), TypeOK',
         Handled' = Handled \cup {pos[p]}, pc' = [pc EXCEPT ![p] = "polling"],
         UNCHANGED <<requests, unacked, groupVars, pos, buffered>>
  PROVE  IInv'
<1>1. /\ pos[p] \in DOMAIN requests
      /\ 1 .. (pos[p] - 1) \subseteq Handled
      /\ DOMAIN requests = 1 .. Len(requests) /\ Len(requests) \in Nat
  BY DEF IInv, PositionHandled, CanDecide, TypeOK
<1>2. 1 .. pos[p] \subseteq Handled'
  BY <1>1
<1>3. PositionHandled'
  BY <1>2 DEF IInv, PositionHandled, TypeOK, groupVars
<1>4. OwnerAhead'
  BY DEF IInv, OwnerAhead, TypeOK, groupVars
<1>5. CommittedHandled' /\ HandledAsked'
  BY <1>1 DEF IInv, CommittedHandled, HandledAsked, groupVars
<1>6. HandledInOrder'
  BY <1>2 DEF IInv, HandledInOrder
<1>7. CopiesDue'
  BY StillDue
<1>8. QED BY <1>3, <1>4, <1>5, <1>6, <1>7 DEF IInv

(* Every step keeps the invariant.                                             *)
LEMMA StepInv == IInv /\ [Next]_vars => IInv'
<1> SUFFICES ASSUME IInv, [Next]_vars PROVE IInv'
  OBVIOUS
<1> USE DEF topicVars, groupVars, procVars, boundVars
<1>15. (UNCHANGED <<unacked, requests, verdicts, lost>>) => CopiesDue'
  BY SameHandled, StillDue
<1>1. CASE Submit
  <2>1. PICK r \in Requests : requests' = Append(requests, r)
    BY <1>1 DEF Submit
  <2>2. /\ requests' \in Seq(Requests)
        /\ Len(requests') = Len(requests) + 1
        /\ Len(requests) \in Nat
        /\ DOMAIN requests = 1 .. Len(requests)
        /\ DOMAIN requests' = 1 .. (Len(requests) + 1)
    BY <2>1 DEF IInv, TypeOK
  <2>3. Handled' = Handled
    BY <1>1, SameHandled DEF Submit
  <2>4. TypeOK'
    BY <1>1, <2>2 DEF IInv, TypeOK, Submit
  <2>6. CopiesDue'
    BY <1>1, <2>1, <2>3, StillDue DEF Submit
  <2>5. QED
    BY <1>1, <2>2, <2>3, <2>4, <2>6
    DEF IInv, Submit, PositionHandled, OwnerAhead, CommittedHandled, HandledInOrder, HandledAsked
<1>2. CASE Retrain
  <2>1. Handled' = Handled
    BY <1>2, SameHandled DEF Retrain
  <2>2. TypeOK'
    BY <1>2 DEF IInv, TypeOK, Retrain
  <2>3. QED
    BY <1>2, <1>15, <2>1, <2>2
    DEF IInv, Retrain, PositionHandled, OwnerAhead, CommittedHandled, HandledInOrder, HandledAsked
<1>3. ASSUME NEW p \in Inspectors, Start(p) PROVE IInv'
  <2>1. Handled' = Handled
    BY <1>3, SameHandled DEF Start
  <2>2. TypeOK'
    BY <1>3 DEF IInv, TypeOK, Start
  <2>3. owner # p
    BY <1>3, InspectorAssumption DEF IInv, OwnerAhead, Start, TypeOK
  <2>4. PositionHandled'
    BY <1>3, <2>1 DEF IInv, PositionHandled, Start, TypeOK
  <2>5. QED
    BY <1>3, <1>15, <2>1, <2>2, <2>3, <2>4
    DEF IInv, Start, OwnerAhead, CommittedHandled, HandledInOrder, HandledAsked, TypeOK
<1>4. ASSUME NEW p \in Inspectors, Assign(p) PROVE IInv'
  <2>1. Handled' = Handled
    BY <1>4, SameHandled DEF Assign
  <2>2. TypeOK'
    BY <1>4 DEF IInv, TypeOK, Assign, AssignableTo, StartPosition
  <2>3. PositionHandled'
    BY <1>4, <2>1 DEF IInv, PositionHandled, CommittedHandled, Assign, AssignableTo, Drained, StartPosition, TypeOK
  <2>4. OwnerAhead'
    BY <1>4 DEF IInv, OwnerAhead, Assign, AssignableTo, Drained, StartPosition, TypeOK
  <2>5. QED
    BY <1>4, <1>15, <2>1, <2>2, <2>3, <2>4
    DEF IInv, Assign, CommittedHandled, HandledInOrder, HandledAsked
<1>5. ASSUME NEW p \in Inspectors, Poll(p) PROVE IInv'
  <2>1. Handled' = Handled
    BY <1>5, SameHandled DEF Poll
  <2>2. PICK n \in (pos[p] + 1) .. Len(requests) : buffered' = [buffered EXCEPT ![p] = n]
    BY <1>5 DEF Poll, BatchEnds
  <2>3. TypeOK'
    BY <1>5, <2>2 DEF IInv, TypeOK, Poll
  <2>4. PositionHandled'
    BY <1>5, <2>1, <2>2 DEF IInv, PositionHandled, Poll, TypeOK
  <2>5. QED
    BY <1>5, <1>15, <2>1, <2>3, <2>4
    DEF IInv, Poll, OwnerAhead, CommittedHandled, HandledInOrder, HandledAsked
<1>6. ASSUME NEW p \in Inspectors, Fetch(p) PROVE IInv'
  <2>1. Handled' = Handled
    BY <1>6, SameHandled DEF Fetch
  <2>2. TypeOK'
    BY <1>6 DEF IInv, TypeOK, Fetch
  <2>3. PositionHandled'
    BY <1>6, <2>1 DEF IInv, PositionHandled, Fetch, TypeOK
  <2>4. OwnerAhead'
    BY <1>6 DEF IInv, OwnerAhead, Fetch, TypeOK
  <2>5. QED
    BY <1>6, <1>15, <2>1, <2>2, <2>3, <2>4
    DEF IInv, Fetch, CommittedHandled, HandledInOrder, HandledAsked
<1>7. ASSUME NEW p \in Inspectors, Answer(p) PROVE IInv'
  <2>1. TypeOK'
    BY <1>7, VerdictType DEF IInv, TypeOK, Answer
  <2>2. QED
    BY <1>7, <2>1, AnswerHandles, SendInv DEF IInv, Answer
<1>8. ASSUME NEW p \in Inspectors, AnswerLost(p) PROVE IInv'
  <2>1. Handled' = Handled \cup {pos[p]}
    BY <1>8 DEF AnswerLost, Handled, Served
  <2>2. pos[p] \in DOMAIN requests
    BY <1>8 DEF IInv, PositionHandled, AnswerLost, CanDecide
  <2>3. TypeOK'
    BY <1>8, <2>2 DEF IInv, TypeOK, AnswerLost
  <2>4. QED
    BY <1>8, <2>1, <2>3, SendInv DEF AnswerLost
<1>9. ASSUME NEW p \in Inspectors, Raise(p) PROVE IInv'
  <2>1. Handled' = Handled
    BY <1>9, SameHandled DEF Raise
  <2>2. TypeOK'
    BY <1>9 DEF IInv, TypeOK, Raise, Released
  <2>3. QED
    BY <1>9, <1>15, <2>1, <2>2, InspectorAssumption
    DEF IInv, Raise, Released, PositionHandled, OwnerAhead, CommittedHandled,
        HandledInOrder, HandledAsked, TypeOK
<1>10. ASSUME NEW p \in Inspectors, AutoCommit(p) PROVE IInv'
  <2>1. Handled' = Handled
    BY <1>10, SameHandled DEF AutoCommit
  <2>2. 1 .. pos[p] \subseteq Handled /\ pos[p] \in 0 .. Len(requests)
    BY <1>10 DEF IInv, PositionHandled, AutoCommit, Committable, Drained, TypeOK
  <2>3. TypeOK'
    BY <1>10, <2>2 DEF IInv, TypeOK, AutoCommit
  <2>4. OwnerAhead'
    BY <1>10, <2>2 DEF IInv, OwnerAhead, AutoCommit, Committable, Drained
  <2>5. QED
    BY <1>10, <1>15, <2>1, <2>2, <2>3, <2>4
    DEF IInv, AutoCommit, PositionHandled, CommittedHandled, HandledInOrder, HandledAsked
<1>11. ASSUME NEW p \in Inspectors, Evict(p) PROVE IInv'
  <2>1. Handled' = Handled
    BY <1>11, SameHandled DEF Evict
  <2>2. TypeOK'
    BY <1>11 DEF IInv, TypeOK, Evict
  <2>3. QED
    BY <1>11, <1>15, <2>1, <2>2
    DEF IInv, Evict, PositionHandled, OwnerAhead, CommittedHandled, HandledInOrder, HandledAsked
<1>12. ASSUME NEW p \in Inspectors, Crash(p) PROVE IInv'
  <2>1. Handled' = Handled
    BY <1>12, SameHandled DEF Crash
  <2>2. TypeOK'
    BY <1>12 DEF IInv, TypeOK, Crash, Released
  <2>3. QED
    BY <1>12, <1>15, <2>1, <2>2, InspectorAssumption
    DEF IInv, Crash, Released, PositionHandled, OwnerAhead, CommittedHandled,
        HandledInOrder, HandledAsked, TypeOK
<1>16. ASSUME NEW p \in Inspectors, Resend(p) PROVE IInv'
  <2> DEFINE copy == [number |-> resends + 1, verdict |-> VerdictOf(p)]
  <2>1. Handled' = Handled
    BY <1>16, SameHandled DEF Resend
  <2>2. /\ unacked' = unacked \cup {copy} /\ resends' = resends + 1 /\ resends \in Nat
        /\ CanDecide(p)
    BY <1>16 DEF Resend, IInv, TypeOK
  <2>3. copy \in [number : 1 .. resends', verdict : [request : Nat \ {0}, message : Message]]
    BY <2>2, VerdictType DEF IInv
  <2>4. [number : 1 .. resends, verdict : [request : Nat \ {0}, message : Message]]
          \subseteq [number : 1 .. resends', verdict : [request : Nat \ {0}, message : Message]]
    BY <2>2
  <2>5. copy.verdict.request = pos[p]
        /\ copy.verdict.message = Decide(Policy, Detectors, loaded[p], requests[pos[p]])
    BY DEF VerdictOf
  <2> HIDE DEF copy
  <2>6. unacked' \subseteq [number : 1 .. resends',
                           verdict : [request : Nat \ {0}, message : Message]]
    BY <2>2, <2>3, <2>4 DEF IInv, TypeOK
  <2>7. TypeOK'
    BY <1>16, <2>2, <2>6 DEF IInv, TypeOK, Resend
  <2>8. CopiesDue'
    <3>1. pos[p] \in DOMAIN requests /\ 1 .. (pos[p] - 1) \subseteq Handled /\ loaded[p] \in Models
      BY <2>2, VerdictType DEF IInv, PositionHandled, CanDecide
    <3>2. UNCHANGED requests
      BY <1>16 DEF Resend
    <3>3. QED BY <2>1, <2>2, <2>5, <3>1, <3>2 DEF IInv, CopiesDue
  <2>9. QED
    BY <1>16, <2>1, <2>7, <2>8
    DEF IInv, Resend, PositionHandled, OwnerAhead, CommittedHandled, HandledInOrder, HandledAsked
<1>17. CASE Arrive
  <2>1. PICK copy \in unacked : /\ verdicts' = Append(verdicts, copy.verdict)
                               /\ unacked' = unacked \ {copy}
    BY <1>17 DEF Arrive
  <2> DEFINE i == copy.verdict.request
  <2>2. /\ i \in DOMAIN requests /\ 1 .. (i - 1) \subseteq Handled
        /\ DOMAIN requests = 1 .. Len(requests) /\ Len(requests) \in Nat
    BY DEF IInv, CopiesDue, TypeOK
  <2>3. Handled' = Handled \cup {i}
    BY <1>17, <2>1, AppendHandles DEF Arrive, IInv
  <2>4. copy.verdict \in [request : Nat \ {0}, message : Message]
    BY DEF IInv, TypeOK
  <2>5. verdicts' \in Seq([request : Nat \ {0}, message : Message])
    BY <2>1, <2>4 DEF IInv, TypeOK
  <2> HIDE DEF i
  <2>6. TypeOK'
    BY <1>17, <2>1, <2>5 DEF IInv, TypeOK, Arrive
  <2>7. CopiesDue'
    BY <1>17, <2>1, <2>3, StillDue DEF Arrive
  <2>8. 1 .. i \subseteq Handled'
    BY <2>2, <2>3
  <2>9. HandledInOrder' /\ HandledAsked'
    BY <1>17, <2>2, <2>3, <2>8 DEF IInv, HandledInOrder, HandledAsked, Arrive
  <2>10. PositionHandled' /\ OwnerAhead' /\ CommittedHandled'
    BY <1>17, <2>3 DEF IInv, Arrive, PositionHandled, OwnerAhead, CommittedHandled
  <2>11. QED BY <2>6, <2>7, <2>9, <2>10 DEF IInv
<1>13. CASE UNCHANGED vars
  <2>1. Handled' = Handled
    BY <1>13, SameHandled DEF vars
  <2>2. QED
    BY <1>13, <1>15, <2>1
    DEF vars, IInv, TypeOK, PositionHandled, OwnerAhead, CommittedHandled,
        HandledInOrder, HandledAsked
<1>14. QED
  BY <1>1, <1>2, <1>3, <1>4, <1>5, <1>6, <1>7, <1>8, <1>9, <1>10, <1>11, <1>12, <1>13,
     <1>16, <1>17
  DEF Next, Step

(* Type correctness, for every number of inspectors, requests and models.      *)
THEOREM TypeCorrect == Spec => []TypeOK
<1>1. IInv => TypeOK
  BY DEF IInv
<1>2. QED BY <1>1, InitInv, StepInv, PTL DEF Spec

(* No committed request is left without a decision and a send.                 *)
THEOREM AtLeastOnce == Spec => []CommittedHandled
<1>1. IInv => CommittedHandled
  BY DEF IInv
<1>2. QED BY <1>1, InitInv, StepInv, PTL DEF Spec

(* Requests are handled in the order they were asked, zombies included.        *)
THEOREM InOrder == Spec => []HandledInOrder
<1>1. IInv => HandledInOrder
  BY DEF IInv
<1>2. QED BY <1>1, InitInv, StepInv, PTL DEF Spec

(* No step moves the committed offset backwards.                               *)
THEOREM CommitMonotone == Spec => CommitNeverRegresses
<1>1. IInv /\ [Next]_vars => [committed' >= committed]_vars
  <2> SUFFICES ASSUME IInv, Next PROVE committed' >= committed
    BY DEF vars, IInv
  <2>1. committed \in Nat
    BY DEF IInv, TypeOK
  <2>2. ASSUME NEW p \in Inspectors, AutoCommit(p) PROVE committed' >= committed
    <3>1. owner = p /\ owner # NoOwner /\ committed' = pos[p]
      BY <2>2, InspectorAssumption DEF AutoCommit, Committable
    <3>2. committed <= pos[p] /\ pos[p] \in Nat
      BY <3>1 DEF IInv, OwnerAhead, TypeOK
    <3>3. QED BY <2>1, <3>1, <3>2
  <2>3. ASSUME committed' = committed PROVE committed' >= committed
    BY <2>1, <2>3
  <2>4. QED
    BY <2>2, <2>3
    DEF Next, Step, Submit, Retrain, Arrive, Start, Assign, Poll, Fetch, Answer, AnswerLost,
        Resend, Raise, Evict, Crash, groupVars
<1>2. QED BY <1>1, InitInv, StepInv, PTL DEF Spec, CommitNeverRegresses

------------------------------------------------------------------------------
(* How often a request is answered.                                            *)

(* Whatever is readable after a step was readable before it.                   *)
LEMMA ReadableBefore ==
  ASSUME IInv, [Next]_vars, Readable(Len(requests))'
  PROVE  Readable(Len(requests))
<1> USE DEF topicVars
<1>1. CASE Submit
  <2>1. PICK r \in Requests : requests' = Append(requests, r)
    BY <1>1 DEF Submit
  <2>2. /\ Len(requests') = Len(requests) + 1 /\ Len(requests) \in Nat
        /\ \A i \in 1 .. Len(requests) : requests'[i] = requests[i]
    BY <2>1 DEF IInv, TypeOK
  <2>3. QED BY <2>2 DEF Readable
<1>2. CASE UNCHANGED requests
  BY <1>2 DEF Readable
<1>3. QED
  BY <1>1, <1>2
  DEF Next, Step, Retrain, Arrive, Start, Assign, Poll, Fetch, Answer, AnswerLost, Resend, Raise,
      AutoCommit, Evict, Crash, vars

(* What the log holds are verdicts.                                            *)
LEMMA VerdictsTyped ==
  ASSUME TypeOK, NEW k \in DOMAIN verdicts
  PROVE  verdicts[k] \in [request : Nat \ {0}, message : Message]
<1> DEFINE V == [request : Nat \ {0}, message : Message]
<1>1. verdicts \in Seq(V)
  BY DEF TypeOK
<1> HIDE DEF V
<1>2. verdicts[k] \in V
  BY <1>1, ElementOfSeq, LenProperties
<1>3. QED BY <1>2 DEF V

(* The answers to a request are finitely many.                                 *)
LEMMA AnswersFinite ==
  ASSUME TypeOK, NEW i
  PROVE  IsFiniteSet(Answers(i)) /\ Cardinality(Answers(i)) \in Nat
<1>1. DOMAIN verdicts = 1 .. Len(verdicts) /\ Len(verdicts) \in Nat
  BY DEF TypeOK
<1>2. IsFiniteSet(1 .. Len(verdicts))
  BY <1>1, FS_Interval
<1>3. Answers(i) \subseteq 1 .. Len(verdicts)
  BY <1>1 DEF Answers
<1>4. QED BY <1>2, <1>3, FS_Subset, FS_CardinalityType

(* A budget stays balanced when fewer are pending.                             *)
LEMMA FewerPending ==
  ASSUME NEW P, NEW Q, IsFiniteSet(P), Q \subseteq P, NEW a \in Nat, NEW d \in Nat,
         a + Cardinality(P) <= 1 + d
  PROVE  IsFiniteSet(Q) /\ a + Cardinality(Q) <= 1 + d
<1>1. IsFiniteSet(Q) /\ Cardinality(Q) <= Cardinality(P)
  BY FS_Subset
<1>2. Cardinality(P) \in Nat /\ Cardinality(Q) \in Nat
  BY <1>1, FS_CardinalityType
<1>3. QED BY <1>1, <1>2

(* It does when one that was pending has answered.                             *)
LEMMA OneAnswered ==
  ASSUME NEW P, NEW Q, NEW p \in P, IsFiniteSet(P), Q \subseteq P \ {p},
         NEW a \in Nat, NEW d \in Nat, a + Cardinality(P) <= 1 + d
  PROVE  IsFiniteSet(Q) /\ (a + 1) + Cardinality(Q) <= 1 + d
<1>1. IsFiniteSet(P \ {p}) /\ Cardinality(P \ {p}) = Cardinality(P) - 1
  BY FS_RemoveElement
<1>2. IsFiniteSet(Q) /\ Cardinality(Q) <= Cardinality(P \ {p})
  BY <1>1, FS_Subset
<1>3. Cardinality(P) \in Nat /\ Cardinality(Q) \in Nat
  BY <1>2, FS_CardinalityType
<1>4. QED BY <1>1, <1>2, <1>3

(* It does when a disruption pays for one more.                                *)
LEMMA OneMorePaid ==
  ASSUME NEW P, NEW Q, NEW q, IsFiniteSet(P), Q \subseteq P \cup {q},
         NEW a \in Nat, NEW d \in Nat, a + Cardinality(P) <= 1 + d
  PROVE  IsFiniteSet(Q) /\ a + Cardinality(Q) <= 1 + (d + 1)
<1>1. /\ IsFiniteSet(P \cup {q})
      /\ Cardinality(P \cup {q}) = Cardinality(P) \/ Cardinality(P \cup {q}) = Cardinality(P) + 1
  BY FS_AddElement
<1>2. IsFiniteSet(Q) /\ Cardinality(Q) <= Cardinality(P \cup {q})
  BY <1>1, FS_Subset
<1>3. Cardinality(P) \in Nat /\ Cardinality(Q) \in Nat
  BY <1>2, FS_CardinalityType
<1>4. QED BY <1>1, <1>2, <1>3

(* It does when a process takes over what nobody owned.                        *)
LEMMA OneSwapped ==
  ASSUME NEW P, NEW Q, NEW p, NEW q \in P, IsFiniteSet(P), Q \subseteq (P \ {q}) \cup {p},
         NEW a \in Nat, NEW d \in Nat, a + Cardinality(P) <= 1 + d
  PROVE  IsFiniteSet(Q) /\ a + Cardinality(Q) <= 1 + d
<1>1. IsFiniteSet(P \ {q}) /\ Cardinality(P \ {q}) = Cardinality(P) - 1
  BY FS_RemoveElement
<1>2. /\ IsFiniteSet((P \ {q}) \cup {p})
      /\ \/ Cardinality((P \ {q}) \cup {p}) = Cardinality(P \ {q})
         \/ Cardinality((P \ {q}) \cup {p}) = Cardinality(P \ {q}) + 1
  BY <1>1, FS_AddElement
<1>3. IsFiniteSet(Q) /\ Cardinality(Q) <= Cardinality((P \ {q}) \cup {p})
  BY <1>2, FS_Subset
<1>4. Cardinality(P) \in Nat /\ Cardinality(Q) \in Nat
  BY <1>3, FS_CardinalityType
<1>5. QED BY <1>1, <1>2, <1>3, <1>4

(* A step of the client or the broker leaves nobody new to answer.             *)
LEMMA QuietPending ==
  ASSUME IInv, IInv', [Next]_vars, NEW i \in Nat \ {0},
         \/ UNCHANGED vars \/ Submit \/ Retrain \/ Arrive
         \/ \E p \in Inspectors : \/ Start(p) \/ Poll(p) \/ Fetch(p)
                                  \/ AnswerLost(p) \/ Resend(p) \/ AutoCommit(p)
  PROVE  Pending(i)' \subseteq Pending(i)
<1> USE DEF topicVars, groupVars, procVars, boundVars
<1>1. \A q \in Inspectors : pos[q] \in Nat /\ buffered[q] \in Nat
  BY DEF IInv, TypeOK
<1>2. CASE UNCHANGED <<owner, committed, pc, pos, buffered>>
  BY <1>2 DEF Pending, MayAnswer
<1>3. ASSUME NEW p \in Inspectors, Start(p)
      PROVE  Pending(i)' \subseteq Pending(i)
  <2>1. owner # p
    BY <1>3, InspectorAssumption DEF IInv, OwnerAhead, Start, TypeOK
  <2>2. ~MayAnswer(p, i)'
    BY <1>3, <2>1 DEF IInv, TypeOK, Start, MayAnswer
  <2>3. \A q \in Inspectors \ {p} : MayAnswer(q, i)' => MayAnswer(q, i)
    BY <1>3 DEF IInv, TypeOK, Start, MayAnswer
  <2>4. QED BY <1>3, <2>2, <2>3 DEF Start, Pending
<1>4. ASSUME NEW p \in Inspectors, Poll(p)
      PROVE  Pending(i)' \subseteq Pending(i)
  <2>1. \A q \in Inspectors : MayAnswer(q, i)' => MayAnswer(q, i)
    BY <1>4 DEF IInv, TypeOK, Poll, MayAnswer
  <2>2. QED BY <1>4, <2>1 DEF Poll, Pending
<1>5. ASSUME NEW p \in Inspectors, Fetch(p)
      PROVE  Pending(i)' \subseteq Pending(i)
  <2>1. MayAnswer(p, i)' => MayAnswer(p, i)
    BY <1>1, <1>5 DEF IInv, TypeOK, Fetch, MayAnswer
  <2>2. \A q \in Inspectors \ {p} : MayAnswer(q, i)' => MayAnswer(q, i)
    BY <1>5 DEF IInv, TypeOK, Fetch, MayAnswer
  <2>3. QED BY <1>5, <2>1, <2>2 DEF Fetch, Pending
<1>6. ASSUME NEW p \in Inspectors, AnswerLost(p)
      PROVE  Pending(i)' \subseteq Pending(i)
  <2>1. \A q \in Inspectors : MayAnswer(q, i)' => MayAnswer(q, i)
    BY <1>6 DEF IInv, TypeOK, AnswerLost, CanDecide, MayAnswer
  <2>2. QED BY <1>6, <2>1 DEF AnswerLost, Pending
<1>7. ASSUME NEW p \in Inspectors, AutoCommit(p)
      PROVE  Pending(i)' \subseteq Pending(i)
  <2>1. owner # NoOwner
    BY <1>7, InspectorAssumption DEF AutoCommit, Committable
  <2>2. QED BY <1>7, <2>1 DEF AutoCommit, Pending, MayAnswer
<1>8. QED
  BY <1>2, <1>3, <1>4, <1>5, <1>6, <1>7 DEF vars, Submit, Retrain, Arrive, Resend

(* A process that is given the partition takes the place of the next owner.    *)
LEMMA AssignPending ==
  ASSUME IInv, NEW p \in Inspectors, Assign(p), NEW i \in Nat \ {0}
  PROVE  IF committed < i
         THEN NoOwner \in Pending(i) /\ Pending(i)' \subseteq (Pending(i) \ {NoOwner}) \cup {p}
         ELSE Pending(i)' \subseteq Pending(i)
<1>1. \A q \in Inspectors \ {p} : MayAnswer(q, i)' => MayAnswer(q, i)
  BY InspectorAssumption DEF IInv, TypeOK, Assign, AssignableTo, MayAnswer
<1>2. MayAnswer(p, i)' => committed < i
  BY DEF IInv, TypeOK, Assign, AssignableTo, Drained, StartPosition, MayAnswer
<1>3. owner = NoOwner /\ owner' # NoOwner
  BY InspectorAssumption DEF Assign, AssignableTo
<1>4. CASE committed < i
  <2>1. NoOwner \in Pending(i)
    BY <1>3, <1>4 DEF Pending
  <2>2. Pending(i)' \subseteq (Pending(i) \ {NoOwner}) \cup {p}
    BY <1>1, <1>3, InspectorAssumption DEF Pending
  <2>3. QED BY <1>4, <2>1, <2>2
<1>5. CASE ~(committed < i)
  <2>1. Pending(i)' \subseteq Pending(i)
    BY <1>1, <1>2, <1>3, <1>5 DEF Pending
  <2>2. QED BY <1>5, <2>1
<1>6. QED BY <1>4, <1>5

(* An inspector that has a record in hand may answer it.                       *)
LEMMA HolderPending ==
  ASSUME IInv, NEW p \in Inspectors, pc[p] = "holding"
  PROVE  p \in Pending(pos[p])
<1>1. pos[p] \in Nat /\ pos[p] <= buffered[p]
  BY DEF IInv, TypeOK, PositionHandled
<1>2. MayAnswer(p, pos[p])
  BY <1>1 DEF MayAnswer
<1>3. QED BY <1>2 DEF Pending

(* An answer is one that was pending, and is not pending twice.                *)
LEMMA AnswerPending ==
  ASSUME IInv, NEW p \in Inspectors, Answer(p), NEW i \in Nat \ {0}
  PROVE  \/ pos[p] = i /\ p \in Pending(i) /\ Pending(i)' \subseteq Pending(i) \ {p}
         \/ pos[p] # i /\ Pending(i)' \subseteq Pending(i)
<1> USE DEF groupVars
<1>1. pos[p] \in Nat /\ pos[p] <= buffered[p] /\ pc[p] = "holding"
  BY DEF IInv, TypeOK, PositionHandled, Answer, CanDecide
<1>2. \A q \in Inspectors : MayAnswer(q, i)' => MayAnswer(q, i)
  BY DEF IInv, TypeOK, Answer, CanDecide, MayAnswer
<1>3. Pending(i)' \subseteq Pending(i)
  BY <1>2 DEF Answer, Pending
<1>4. CASE pos[p] = i
  <2>1. MayAnswer(p, i)
    BY <1>1, <1>4 DEF MayAnswer
  <2>2. ~MayAnswer(p, i)'
    BY <1>1, <1>4 DEF IInv, TypeOK, Answer, MayAnswer
  <2>3. p # NoOwner
    BY InspectorAssumption
  <2>4. QED BY <1>3, <1>4, <2>1, <2>2, <2>3 DEF Pending
<1>5. QED BY <1>3, <1>4

(* A verdict more in the log is one answer more to its request and none to     *)
(* another.                                                                    *)
LEMMA AppendCounts ==
  ASSUME IInv, NEW v, verdicts' = Append(verdicts, v), NEW i
  PROVE  IF v.request = i THEN Cardinality(Answers(i)') = Cardinality(Answers(i)) + 1
                          ELSE Answers(i)' = Answers(i)
<1> DEFINE n == Len(verdicts) + 1
<1>1. /\ \A k \in 1 .. Len(verdicts) : verdicts'[k] = verdicts[k]
      /\ verdicts'[n] = v
      /\ Len(verdicts) \in Nat
      /\ DOMAIN verdicts = 1 .. Len(verdicts)
      /\ DOMAIN verdicts' = 1 .. n
  BY DEF IInv, TypeOK
<1>2. CASE v.request = i
  <2>1. Answers(i)' = Answers(i) \cup {n}
    BY <1>1, <1>2 DEF Answers
  <2>2. n \notin Answers(i)
    BY <1>1 DEF Answers
  <2>3. IsFiniteSet(Answers(i))
    BY AnswersFinite DEF IInv
  <2>4. QED BY <1>2, <2>1, <2>2, <2>3, FS_AddElement
<1>3. CASE v.request # i
  <2>1. Answers(i)' = Answers(i)
    BY <1>1, <1>3 DEF Answers
  <2>2. QED BY <1>3, <2>1
<1>4. QED BY <1>2, <1>3

(* A copy that arrives turns into an answer.                                   *)
LEMMA ArriveCounts ==
  ASSUME IInv, NEW i, IsFiniteSet(Copies(i)), Arrive
  PROVE  /\ IsFiniteSet(Copies(i)')
         /\ Cardinality(Answers(i)') + Cardinality(Copies(i)')
              = Cardinality(Answers(i)) + Cardinality(Copies(i))
<1>1. PICK copy \in unacked : /\ verdicts' = Append(verdicts, copy.verdict)
                             /\ unacked' = unacked \ {copy}
  BY DEF Arrive
<1>2. Cardinality(Answers(i)) \in Nat /\ Cardinality(Copies(i)) \in Nat
  BY AnswersFinite, FS_CardinalityType DEF IInv
<1>3. CASE copy.verdict.request = i
  <2>1. Cardinality(Answers(i)') = Cardinality(Answers(i)) + 1
    BY <1>1, <1>3, AppendCounts
  <2>2. copy \in Copies(i) /\ Copies(i)' = Copies(i) \ {copy}
    BY <1>1, <1>3 DEF Copies
  <2>3. IsFiniteSet(Copies(i)') /\ Cardinality(Copies(i)') = Cardinality(Copies(i)) - 1
    BY <2>2, FS_RemoveElement
  <2>4. QED BY <1>2, <2>1, <2>3
<1>4. CASE copy.verdict.request # i
  <2>1. Answers(i)' = Answers(i)
    BY <1>1, <1>4, AppendCounts
  <2>2. Copies(i)' = Copies(i)
    BY <1>1, <1>4 DEF Copies
  <2>3. QED BY <2>1, <2>2
<1>5. QED BY <1>3, <1>4

(* Nothing is pending in the beginning but the request's first delivery.       *)
LEMMA InitPending ==
  ASSUME Init, NEW i \in Nat \ {0}
  PROVE  Pending(i) = {NoOwner}
<1>1. \A p \in Inspectors : ~MayAnswer(p, i)
  BY DEF Init, MayAnswer
<1>2. owner = NoOwner /\ committed < i
  BY DEF Init
<1>3. QED BY <1>1, <1>2 DEF Pending

(* The budget pays for the first delivery.                                     *)
LEMMA InitBudget == Init => AnswersBudgeted
<1> SUFFICES ASSUME Init, NEW i \in Nat \ {0}
             PROVE  /\ IsFiniteSet(Copies(i)) /\ IsFiniteSet(Pending(i))
                    /\ Cardinality(Answers(i)) + Cardinality(Copies(i)) + Cardinality(Pending(i))
                         <= 1 + (disruptions + resends)
  BY DEF AnswersBudgeted
<1>1. IsFiniteSet(Pending(i)) /\ Cardinality(Pending(i)) = 1
  <2>1. IsFiniteSet({NoOwner}) /\ Cardinality({NoOwner}) = 1
    BY FS_Singleton
  <2>2. QED BY <2>1, InitPending
<1>2. Answers(i) = {} /\ Copies(i) = {}
  BY DEF Init, Answers, Copies
<1>3. /\ Cardinality(Answers(i)) = 0 /\ Cardinality(Copies(i)) = 0
      /\ IsFiniteSet(Copies(i))
  BY <1>2, FS_EmptySet
<1>4. QED BY <1>1, <1>3 DEF Init

(* Every step keeps the budget: only a crash, an eviction or a repeated send   *)
(* adds to it, and a request that raises is excluded by the hypothesis.        *)
LEMMA StepBudget ==
  IInv /\ IInv' /\ AnswersBudgeted /\ [Next]_vars => AnswersBudgeted'
<1> DEFINE A(i) == Cardinality(Answers(i)) + Cardinality(Copies(i))
           paid == disruptions + resends
           Goal(i) == /\ IsFiniteSet(Copies(i)') /\ IsFiniteSet(Pending(i)')
                      /\ A(i)' + Cardinality(Pending(i)') <= 1 + paid'
<1> SUFFICES ASSUME IInv, IInv', AnswersBudgeted, [Next]_vars, Readable(Len(requests))',
                    NEW i \in Nat \ {0}
             PROVE  Goal(i)
  BY DEF AnswersBudgeted
<1> USE DEF topicVars, groupVars, procVars, boundVars
<1> DEFINE a == A(i)
<1>1. Readable(Len(requests))
  BY ReadableBefore
<1>2. /\ IsFiniteSet(Copies(i)) /\ IsFiniteSet(Pending(i))
      /\ a + Cardinality(Pending(i)) <= 1 + paid
      /\ a \in Nat /\ paid \in Nat
      /\ Cardinality(Answers(i)) \in Nat /\ Cardinality(Copies(i)) \in Nat
  <2>1. /\ IsFiniteSet(Copies(i)) /\ IsFiniteSet(Pending(i))
        /\ a + Cardinality(Pending(i)) <= 1 + paid
    BY <1>1 DEF AnswersBudgeted
  <2>2. Cardinality(Answers(i)) \in Nat /\ Cardinality(Copies(i)) \in Nat
    BY <2>1, AnswersFinite, FS_CardinalityType DEF IInv
  <2>3. disruptions \in Nat /\ resends \in Nat
    BY DEF IInv, TypeOK
  <2>4. QED BY <2>1, <2>2, <2>3
<1>3. ASSUME UNCHANGED <<verdicts, unacked>>
      PROVE  IsFiniteSet(Copies(i)') /\ A(i)' = a
  <2>1. Answers(i)' = Answers(i) /\ Copies(i)' = Copies(i)
    BY <1>3 DEF Answers, Copies
  <2>2. QED BY <1>2, <2>1
<1>4. CASE \/ UNCHANGED vars \/ Submit \/ Retrain
           \/ \E p \in Inspectors : \/ Start(p) \/ Poll(p) \/ Fetch(p)
                                    \/ AnswerLost(p) \/ AutoCommit(p)
  <2>1. Pending(i)' \subseteq Pending(i)
    BY <1>4, QuietPending
  <2>2. UNCHANGED <<verdicts, unacked, disruptions, resends>>
    BY <1>4 DEF vars, Submit, Retrain, Start, Poll, Fetch, AnswerLost, AutoCommit
  <2>3. IsFiniteSet(Copies(i)') /\ A(i)' = a /\ paid' = paid
    BY <1>3, <2>2
  <2> HIDE DEF a, A, paid
  <2>4. QED BY <1>2, <2>1, <2>3, FewerPending DEF Goal
<1>5. ASSUME NEW p \in Inspectors, Assign(p) PROVE Goal(i)
  <2>1. UNCHANGED <<verdicts, unacked, disruptions, resends>>
    BY <1>5 DEF Assign
  <2>2. IsFiniteSet(Copies(i)') /\ A(i)' = a /\ paid' = paid
    BY <1>3, <2>1
  <2> HIDE DEF a, A, paid
  <2>3. CASE committed < i
    <3>1. NoOwner \in Pending(i) /\ Pending(i)' \subseteq (Pending(i) \ {NoOwner}) \cup {p}
      BY <1>5, <2>3, AssignPending
    <3>2. QED BY <1>2, <2>2, <3>1, OneSwapped DEF Goal
  <2>4. CASE ~(committed < i)
    <3>1. Pending(i)' \subseteq Pending(i)
      BY <1>5, <2>4, AssignPending
    <3>2. QED BY <1>2, <2>2, <3>1, FewerPending DEF Goal
  <2>5. QED BY <2>3, <2>4
<1>6. ASSUME NEW p \in Inspectors, Answer(p) PROVE Goal(i)
  <2>1. UNCHANGED <<unacked, disruptions, resends>> /\ verdicts' = Append(verdicts, VerdictOf(p))
    BY <1>6 DEF Answer
  <2>2. Copies(i)' = Copies(i) /\ IsFiniteSet(Copies(i)') /\ paid' = paid
    BY <1>2, <2>1 DEF Copies
  <2>3. VerdictOf(p).request = pos[p]
    BY DEF VerdictOf
  <2>4. CASE pos[p] = i
    <3>1. p \in Pending(i) /\ Pending(i)' \subseteq Pending(i) \ {p}
      BY <1>6, <2>4, AnswerPending
    <3>2. Cardinality(Answers(i)') = Cardinality(Answers(i)) + 1
      BY <2>1, <2>3, <2>4, AppendCounts
    <3>3. A(i)' = a + 1
      BY <1>2, <2>2, <3>2
    <3> HIDE DEF a, A, paid
    <3>4. QED BY <1>2, <2>2, <3>1, <3>3, OneAnswered DEF Goal
  <2>5. CASE pos[p] # i
    <3>1. Pending(i)' \subseteq Pending(i)
      BY <1>6, <2>5, AnswerPending
    <3>2. A(i)' = a
      BY <2>1, <2>2, <2>3, <2>5, AppendCounts
    <3> HIDE DEF a, A, paid
    <3>3. QED BY <1>2, <2>2, <3>1, <3>2, FewerPending DEF Goal
  <2>6. QED BY <2>4, <2>5
<1>7. ASSUME NEW p \in Inspectors, Raise(p)
      PROVE  FALSE
  <2>1. pos[p] \in 1 .. Len(requests) /\ ~requests[pos[p]].encodable
    BY <1>7 DEF IInv, PositionHandled, TypeOK, Raise, CanDecide, Raises
  <2>2. QED BY <1>1, <2>1 DEF Readable
<1>8. ASSUME NEW p \in Inspectors, Evict(p) \/ Crash(p) PROVE Goal(i)
  <2>1. UNCHANGED <<verdicts, unacked>> /\ disruptions' = disruptions + 1 /\ resends' = resends
    BY <1>8 DEF Evict, Crash
  <2>2. IsFiniteSet(Copies(i)') /\ A(i)' = a /\ paid' = paid + 1
    BY <1>3, <2>1 DEF IInv, TypeOK
  <2>3. \A q \in Inspectors : MayAnswer(q, i)' => MayAnswer(q, i)
    BY <1>8, InspectorAssumption DEF IInv, TypeOK, Evict, Crash, Released, MayAnswer
  <2>4. Pending(i)' \subseteq Pending(i) \cup {NoOwner}
    BY <2>3 DEF Pending
  <2> HIDE DEF a, A, paid
  <2>5. QED BY <1>2, <2>2, <2>4, OneMorePaid DEF Goal
<1>9. ASSUME NEW p \in Inspectors, Resend(p) PROVE Goal(i)
  <2>1. PICK copy : unacked' = unacked \cup {copy}
    BY <1>9 DEF Resend
  <2>2. UNCHANGED <<verdicts, disruptions>> /\ resends' = resends + 1
    BY <1>9 DEF Resend
  <2>3. Pending(i)' \subseteq Pending(i)
    BY <1>9, QuietPending
  <2>4. Answers(i)' = Answers(i) /\ Copies(i)' \subseteq Copies(i) \cup {copy}
    BY <2>1, <2>2 DEF Answers, Copies
  <2>5. /\ IsFiniteSet(Copies(i) \cup {copy})
        /\ Cardinality(Copies(i) \cup {copy}) <= Cardinality(Copies(i)) + 1
    <3>1. IsFiniteSet(Copies(i)) /\ Cardinality(Copies(i)) \in Nat
      BY <1>2
    <3>2. /\ IsFiniteSet(Copies(i) \cup {copy})
          /\ \/ Cardinality(Copies(i) \cup {copy}) = Cardinality(Copies(i))
             \/ Cardinality(Copies(i) \cup {copy}) = Cardinality(Copies(i)) + 1
      BY <3>1, FS_AddElement
    <3>3. QED BY <3>1, <3>2
  <2>6. IsFiniteSet(Copies(i)') /\ Cardinality(Copies(i)') <= Cardinality(Copies(i) \cup {copy})
    BY <2>4, <2>5, FS_Subset
  <2>7. Cardinality(Copies(i)') \in Nat /\ Cardinality(Copies(i) \cup {copy}) \in Nat
    BY <2>5, <2>6, FS_CardinalityType
  <2>8. A(i)' \in Nat /\ A(i)' <= a + 1 /\ paid' = paid + 1
    <3>1. paid' = paid + 1
      BY <2>2 DEF IInv, TypeOK
    <3>2. Cardinality(Answers(i)') = Cardinality(Answers(i))
      BY <2>4
    <3>3. QED BY <1>2, <2>5, <2>6, <2>7, <3>1, <3>2
  <2>9. IsFiniteSet(Pending(i)') /\ Cardinality(Pending(i)') <= Cardinality(Pending(i))
    BY <1>2, <2>3, FS_Subset
  <2>10. Cardinality(Pending(i)') \in Nat /\ Cardinality(Pending(i)) \in Nat
    BY <1>2, <2>9, FS_CardinalityType
  <2> HIDE DEF a, A, paid
  <2>11. QED BY <1>2, <2>6, <2>8, <2>9, <2>10 DEF Goal
<1>10. CASE Arrive
  <2>1. Pending(i)' \subseteq Pending(i)
    BY <1>10, QuietPending
  <2>2. IsFiniteSet(Copies(i)') /\ A(i)' = a
    BY <1>2, <1>10, ArriveCounts
  <2>3. paid' = paid
    BY <1>10 DEF Arrive
  <2> HIDE DEF a, A, paid
  <2>4. QED BY <1>2, <2>1, <2>2, <2>3, FewerPending DEF Goal
<1>11. QED
  BY <1>4, <1>5, <1>6, <1>7, <1>8, <1>9, <1>10 DEF Next, Step

(* The budget bounds the answers given so far.                                 *)
LEMMA BudgetBoundsAnswers == IInv /\ AnswersBudgeted => DuplicatesBounded
<1> SUFFICES ASSUME IInv, AnswersBudgeted, Readable(Len(requests)), NEW i \in Served
             PROVE  Cardinality(Answers(i)) <= 1 + disruptions + resends
  BY DEF DuplicatesBounded
<1>1. i \in Nat \ {0}
  <2>1. PICK k \in DOMAIN verdicts : i = verdicts[k].request
    BY DEF Served
  <2>2. verdicts[k] \in [request : Nat \ {0}, message : Message]
    BY VerdictsTyped DEF IInv
  <2>3. QED BY <2>1, <2>2
<1>2. /\ IsFiniteSet(Copies(i)) /\ IsFiniteSet(Pending(i))
      /\ Cardinality(Answers(i)) + Cardinality(Copies(i)) + Cardinality(Pending(i))
           <= 1 + (disruptions + resends)
  BY <1>1 DEF AnswersBudgeted
<1>3. /\ Cardinality(Answers(i)) \in Nat /\ Cardinality(Copies(i)) \in Nat
      /\ Cardinality(Pending(i)) \in Nat
  BY <1>2, AnswersFinite, FS_CardinalityType DEF IInv
<1>4. QED BY <1>2, <1>3 DEF IInv, TypeOK

(* A readable request is answered at most once, and once more for every crash, *)
(* eviction and repeated send: at-least-once delivery repeats no more than it  *)
(* must.                                                                       *)
THEOREM DuplicatesAreBounded == Spec => []DuplicatesBounded
<1>1. QED
  BY BudgetBoundsAnswers, InitInv, StepInv, InitBudget, StepBudget, PTL DEF Spec

------------------------------------------------------------------------------
(* Which model a verdict comes from.                                           *)

(* What is sent answers a request that was asked.                              *)
LEMMA SentAsked ==
  ASSUME IInv, NEW v \in AllSent
  PROVE  v.request \in DOMAIN requests
<1>1. CASE \E k \in DOMAIN verdicts : v = verdicts[k]
  BY <1>1 DEF IInv, HandledAsked, Handled, Served
<1>2. CASE \E copy \in unacked : v = copy.verdict
  BY <1>2 DEF IInv, CopiesDue
<1>3. QED BY <1>1, <1>2 DEF AllSent

(* Only an answer or a repeated send says something new, and that is the       *)
(* verdict in hand.                                                            *)
LEMMA SentGrows ==
  ASSUME IInv, [Next]_vars
  PROVE  \/ AllSent' \subseteq AllSent
         \/ \E p \in Inspectors : /\ Answer(p) \/ Resend(p)
                                  /\ AllSent' = AllSent \cup {VerdictOf(p)}
<1> USE DEF topicVars
<1>1. ASSUME NEW v, verdicts' = Append(verdicts, v)
      PROVE  {verdicts'[k] : k \in DOMAIN verdicts'} = {verdicts[k] : k \in DOMAIN verdicts} \cup {v}
  <2>1. /\ \A k \in 1 .. Len(verdicts) : verdicts'[k] = verdicts[k]
        /\ verdicts'[Len(verdicts) + 1] = v
        /\ Len(verdicts) \in Nat
        /\ DOMAIN verdicts = 1 .. Len(verdicts)
        /\ DOMAIN verdicts' = 1 .. (Len(verdicts) + 1)
    BY <1>1 DEF IInv, TypeOK
  <2>2. QED BY <2>1
<1>2. ASSUME NEW p \in Inspectors, Answer(p) PROVE AllSent' = AllSent \cup {VerdictOf(p)}
  <2>1. verdicts' = Append(verdicts, VerdictOf(p)) /\ UNCHANGED unacked
    BY <1>2 DEF Answer
  <2>2. QED BY <1>1, <2>1 DEF AllSent
<1>3. ASSUME NEW p \in Inspectors, Resend(p) PROVE AllSent' = AllSent \cup {VerdictOf(p)}
  <2> DEFINE copy == [number |-> resends + 1, verdict |-> VerdictOf(p)]
  <2>1. unacked' = unacked \cup {copy} /\ UNCHANGED verdicts
    BY <1>3 DEF Resend
  <2>2. copy.verdict = VerdictOf(p)
    OBVIOUS
  <2> HIDE DEF copy
  <2>3. QED BY <2>1, <2>2 DEF AllSent
<1>4. CASE Arrive
  <2>1. PICK copy \in unacked : /\ verdicts' = Append(verdicts, copy.verdict)
                               /\ unacked' = unacked \ {copy}
    BY <1>4 DEF Arrive
  <2>2. {verdicts'[k] : k \in DOMAIN verdicts'}
          = {verdicts[k] : k \in DOMAIN verdicts} \cup {copy.verdict}
    BY <1>1, <2>1
  <2>3. QED BY <2>1, <2>2 DEF AllSent
<1>5. CASE UNCHANGED <<verdicts, unacked>>
  BY <1>5 DEF AllSent
<1>6. QED
  BY <1>2, <1>3, <1>4, <1>5
  DEF Next, Step, Submit, Retrain, Start, Assign, Poll, Fetch, AnswerLost, Raise, AutoCommit,
      Evict, Crash, vars

(* A request that was asked stays what it is.                                  *)
LEMMA RequestsKept ==
  ASSUME IInv, [Next]_vars, NEW i \in DOMAIN requests
  PROVE  requests'[i] = requests[i]
<1> USE DEF topicVars
<1>1. CASE Submit
  <2>1. PICK r \in Requests : requests' = Append(requests, r)
    BY <1>1 DEF Submit
  <2>2. QED BY <2>1 DEF IInv, TypeOK
<1>2. CASE UNCHANGED requests
  BY <1>2
<1>3. QED
  BY <1>1, <1>2
  DEF Next, Step, Retrain, Arrive, Start, Assign, Poll, Fetch, Answer, AnswerLost, Resend, Raise,
      AutoCommit, Evict, Crash, vars

(* Every step keeps the one model: a process starts with the stored one, and   *)
(* the topics only grow at their ends.                                         *)
LEMMA StepModel ==
  IInv /\ OneModelUntilRetrain /\ [Next]_vars => OneModelUntilRetrain'
<1> SUFFICES ASSUME IInv, OneModelUntilRetrain, [Next]_vars, retrains' = 0
             PROVE  /\ \A p \in Inspectors : loaded'[p] = store'
                    /\ \A v \in AllSent' :
                         v.message = Decide(Policy, Detectors, store', requests'[v.request])
  BY DEF OneModelUntilRetrain
<1> USE DEF topicVars, groupVars, procVars, boundVars
<1>1. ~Retrain
  BY DEF Retrain, IInv, TypeOK
<1>2. retrains' = retrains /\ store' = store
  BY <1>1
  DEF Next, Step, Submit, Arrive, Start, Assign, Poll, Fetch, Answer, AnswerLost, Resend, Raise,
      AutoCommit, Evict, Crash, vars
<1>3. /\ \A p \in Inspectors : loaded[p] = store
      /\ \A v \in AllSent : v.message = Decide(Policy, Detectors, store, requests[v.request])
  BY <1>2 DEF OneModelUntilRetrain
<1>4. \A p \in Inspectors : loaded'[p] = store
  <2>1. CASE UNCHANGED loaded
    BY <1>3, <2>1
  <2>2. ASSUME NEW p \in Inspectors, Start(p)
        PROVE  \A q \in Inspectors : loaded'[q] = store
    BY <1>3, <2>2 DEF Start, ModelRead, IInv, TypeOK
  <2>3. QED
    BY <1>1, <2>1, <2>2
    DEF Next, Step, Submit, Arrive, Assign, Poll, Fetch, Answer, AnswerLost, Resend, Raise,
        AutoCommit, Evict, Crash, vars
<1>5. ASSUME NEW v \in AllSent'
      PROVE  v.message = Decide(Policy, Detectors, store, requests'[v.request])
  <2>1. CASE v \in AllSent
    <3>1. requests'[v.request] = requests[v.request]
      BY <2>1, SentAsked, RequestsKept
    <3>2. QED BY <1>3, <2>1, <3>1
  <2>2. CASE v \notin AllSent
    <3>1. PICK p \in Inspectors : /\ Answer(p) \/ Resend(p)
                                 /\ AllSent' = AllSent \cup {VerdictOf(p)}
      BY <1>5, <2>2, SentGrows
    <3>2. v = VerdictOf(p)
      BY <1>5, <2>2, <3>1
    <3>3. UNCHANGED requests
      BY <3>1 DEF Answer, Resend
    <3>4. v.request = pos[p] /\ v.message = Decide(Policy, Detectors, loaded[p], requests[pos[p]])
      BY <3>2 DEF VerdictOf
    <3>5. QED BY <1>3, <3>3, <3>4
  <2>3. QED BY <2>1, <2>2
<1>6. QED BY <1>2, <1>4, <1>5

(* Whoever may still answer a request it has in hand has it in hand still, and *)
(* will say the same.                                                          *)
LEMMA HolderKept ==
  ASSUME IInv, [Next]_vars, NEW p \in Inspectors, NEW i, pc[p] = "holding", pos[p] = i,
         MayAnswer(p, i)', disruptions' = disruptions, ~Raise(p)
  PROVE  pc'[p] = "holding" /\ pos'[p] = pos[p] /\ VerdictOf(p)' = VerdictOf(p)
<1> USE DEF topicVars, groupVars, procVars, boundVars
<1>1. pos[p] \in DOMAIN requests /\ pos[p] \in Nat /\ requests'[pos[p]] = requests[pos[p]]
  BY RequestsKept DEF IInv, PositionHandled, TypeOK
<1>2. disruptions \in Nat
  BY DEF IInv, TypeOK
<1>3. CASE UNCHANGED <<pc, pos, loaded>>
  BY <1>1, <1>3 DEF VerdictOf
<1>4. ASSUME NEW q \in Inspectors,
             Start(q) \/ Assign(q) \/ Fetch(q) \/ Answer(q) \/ AnswerLost(q) \/ Raise(q)
      PROVE  pc'[p] = pc[p] /\ pos'[p] = pos[p] /\ loaded'[p] = loaded[p]
  <2>1. CASE q = p
    <3>1. Answer(p) \/ AnswerLost(p)
      BY <1>4, <2>1 DEF Start, Assign, AssignableTo, Drained, Fetch
    <3>2. pc'[p] = "polling" /\ pos'[p] = pos[p]
      BY <3>1 DEF Answer, AnswerLost, IInv, TypeOK
    <3>3. ~MayAnswer(p, i)'
      BY <1>1, <3>2 DEF MayAnswer
    <3>4. QED BY <3>3
  <2>2. CASE q # p
    BY <1>4, <2>2 DEF Start, Assign, Fetch, Answer, AnswerLost, Raise, IInv, TypeOK
  <2>3. QED BY <2>1, <2>2
<1>5. ASSUME NEW q \in Inspectors, Evict(q) \/ Crash(q) PROVE FALSE
  BY <1>2, <1>5 DEF Evict, Crash
<1>6. (pc'[p] = pc[p] /\ pos'[p] = pos[p] /\ loaded'[p] = loaded[p]) => VerdictOf(p)' = VerdictOf(p)
  BY <1>1 DEF VerdictOf
<1>7. QED
  BY <1>3, <1>4, <1>5, <1>6
  DEF Next, Step, Submit, Retrain, Arrive, Poll, Resend, AutoCommit, vars

(* Nobody has said anything in the beginning.                                  *)
LEMMA InitVoice == Init => OneVoice
<1> SUFFICES ASSUME Init PROVE OneVoice
  OBVIOUS
<1>1. AllSent = {}
  BY DEF Init, AllSent
<1>2. \A i : Sent(i) = {}
  BY <1>1 DEF Sent
<1>3. QED BY <1>2, InitPending DEF OneVoice

(* Every step keeps that one voice speaks for a request: whoever repeats a     *)
(* send or answers is the only one that may, and no other comes after it.      *)
LEMMA StepVoice == IInv /\ IInv' /\ OneVoice /\ [Next]_vars => OneVoice'
<1> DEFINE Alone(P)    == \A p, q \in P : p = q
           Voice(p, i) == p \in Inspectors /\ pc[p] = "holding" /\ pos[p] = i
<1> SUFFICES ASSUME IInv, IInv', OneVoice, [Next]_vars, Readable(Len(requests))',
                    disruptions' = 0, NEW i \in Nat \ {0}
             PROVE  /\ Alone(Pending(i)')
                    /\ \A v, w \in Sent(i)' : v = w
                    /\ \A v \in Sent(i)', p \in Pending(i)' :
                         p \in Inspectors /\ pc'[p] = "holding" /\ pos'[p] = i /\ v = VerdictOf(p)'
  BY DEF OneVoice
<1>1. Readable(Len(requests)) /\ \A p \in Inspectors : ~Raise(p)
  <2>1. Readable(Len(requests))
    BY ReadableBefore
  <2>2. ASSUME NEW p \in Inspectors, Raise(p) PROVE FALSE
    <3>1. pos[p] \in 1 .. Len(requests) /\ ~requests[pos[p]].encodable
      BY <2>2 DEF IInv, PositionHandled, TypeOK, Raise, CanDecide, Raises
    <3>2. QED BY <2>1, <3>1 DEF Readable
  <2>3. QED BY <2>1, <2>2
<1>2. disruptions = 0 /\ \A p \in Inspectors : ~Evict(p) /\ ~Crash(p)
  <2>1. disruptions \in Nat
    BY DEF IInv, TypeOK
  <2>2. ASSUME NEW p \in Inspectors, Evict(p) \/ Crash(p) PROVE FALSE
    BY <2>1, <2>2 DEF Evict, Crash
  <2>3. disruptions' = disruptions
    BY <2>2
    DEF Next, Step, Submit, Retrain, Arrive, Start, Assign, Poll, Fetch, Answer, AnswerLost,
        Resend, Raise, AutoCommit, vars, boundVars
  <2>4. QED BY <2>2, <2>3
<1>3. /\ Alone(Pending(i))
      /\ \A v, w \in Sent(i) : v = w
      /\ \A v \in Sent(i), p \in Pending(i) : Voice(p, i) /\ v = VerdictOf(p)
  BY <1>1, <1>2 DEF OneVoice
<1>4. ASSUME NEW v, NEW p \in Pending(i)', Voice(p, i), v = VerdictOf(p)
      PROVE  p \in Inspectors /\ pc'[p] = "holding" /\ pos'[p] = i /\ v = VerdictOf(p)'
  <2>1. MayAnswer(p, i)'
    BY <1>4, InspectorAssumption DEF Pending
  <2>2. QED BY <1>1, <1>2, <1>4, <2>1, HolderKept
<1>5. CASE Sent(i)' \subseteq Sent(i) /\ Pending(i)' \subseteq Pending(i)
  BY <1>3, <1>4, <1>5
<1>6. ASSUME NEW p \in Inspectors, Answer(p) \/ Resend(p), AllSent' = AllSent \cup {VerdictOf(p)}
      PROVE  /\ Alone(Pending(i)')
             /\ \A v, w \in Sent(i)' : v = w
             /\ \A v \in Sent(i)', q \in Pending(i)' :
                  q \in Inspectors /\ pc'[q] = "holding" /\ pos'[q] = i /\ v = VerdictOf(q)'
  <2>1. Pending(i)' \subseteq Pending(i)
    BY <1>6, AnswerPending, QuietPending
  <2>2. VerdictOf(p).request = pos[p] /\ pc[p] = "holding"
    BY <1>6 DEF VerdictOf, Answer, Resend, CanDecide
  <2>3. CASE pos[p] # i
    <3>1. Sent(i)' \subseteq Sent(i)
      BY <1>6, <2>2, <2>3 DEF Sent
    <3>2. QED BY <1>5, <2>1, <3>1
  <2>4. CASE pos[p] = i
    <3>1. p \in Pending(i)
      BY <2>2, <2>4, HolderPending
    <3>2. \A v \in Sent(i)' : v = VerdictOf(p)
      BY <1>3, <1>6, <3>1 DEF Sent
    <3>3. \A q \in Pending(i)' : q = p
      BY <1>3, <2>1, <3>1
    <3>4. \A v \in Sent(i)', q \in Pending(i)' :
            q \in Inspectors /\ pc'[q] = "holding" /\ pos'[q] = i /\ v = VerdictOf(q)'
      <4>1. Voice(p, i)
        BY <2>2, <2>4
      <4>2. QED BY <1>4, <3>2, <3>3, <4>1
    <3>5. QED BY <3>2, <3>3, <3>4
  <2>5. QED BY <2>3, <2>4
<1>7. CASE ~(\E p \in Inspectors : Answer(p) \/ Resend(p))
  <2>1. Sent(i)' \subseteq Sent(i)
    BY <1>7, SentGrows DEF Sent
  <2>2. ASSUME NEW p \in Inspectors, Assign(p), committed < i
        PROVE  /\ Alone(Pending(i)')
               /\ \A v, w \in Sent(i)' : v = w
               /\ \A v \in Sent(i)', q \in Pending(i)' :
                    q \in Inspectors /\ pc'[q] = "holding" /\ pos'[q] = i /\ v = VerdictOf(q)'
    <3>1. NoOwner \in Pending(i) /\ Pending(i)' \subseteq (Pending(i) \ {NoOwner}) \cup {p}
      BY <2>2, AssignPending
    <3>2. Sent(i) = {} /\ Pending(i)' \subseteq {p}
      BY <1>3, <3>1, InspectorAssumption
    <3>3. QED BY <2>1, <3>2
  <2>3. CASE ~(\E p \in Inspectors : Assign(p) /\ committed < i)
    <3>1. Pending(i)' \subseteq Pending(i)
      <4>1. CASE \E p \in Inspectors : Assign(p)
        BY <2>3, <4>1, AssignPending
      <4>2. CASE ~(\E p \in Inspectors : Assign(p))
        BY <1>1, <1>2, <1>7, <4>2, QuietPending DEF Next, Step
      <4>3. QED BY <4>1, <4>2
    <3>2. QED BY <1>5, <2>1, <3>1
  <2>4. QED BY <2>2, <2>3
<1>8. CASE \E p \in Inspectors : Answer(p) \/ Resend(p)
  <2>1. CASE AllSent' \subseteq AllSent
    <3>1. Sent(i)' \subseteq Sent(i)
      BY <2>1 DEF Sent
    <3>2. Pending(i)' \subseteq Pending(i)
      BY <1>8, AnswerPending, QuietPending
    <3>3. QED BY <1>5, <3>1, <3>2
  <2>2. QED BY <1>6, <2>1, SentGrows
<1>9. QED BY <1>7, <1>8

(* Two verdicts for one request differ only if the model was replaced and the  *)
(* request was delivered again; a send that was repeated repeats its verdict.  *)
THEOREM ContradictionNeedsTwoModels == Spec => []ContradictionNeedsRetrain
<1>1. Init => OneModelUntilRetrain
  <2>1. Init => AllSent = {}
    BY DEF Init, AllSent
  <2>2. QED BY <2>1 DEF Init, OneModelUntilRetrain
<1>2. IInv /\ OneVoice /\ OneModelUntilRetrain => ContradictionNeedsRetrain
  <2> SUFFICES ASSUME IInv, OneVoice, OneModelUntilRetrain,
                      NEW j \in DOMAIN verdicts, NEW k \in DOMAIN verdicts,
                      verdicts[j].request = verdicts[k].request,
                      verdicts[j].message # verdicts[k].message
               PROVE  retrains > 0 /\ (disruptions > 0 \/ ~Readable(Len(requests)))
    BY DEF ContradictionNeedsRetrain
  <2>1. verdicts[j] \in AllSent /\ verdicts[k] \in AllSent
    BY DEF AllSent
  <2>2. retrains # 0
    BY <2>1 DEF OneModelUntilRetrain
  <2>3. ASSUME Readable(Len(requests)), disruptions = 0 PROVE FALSE
    <3> DEFINE i == verdicts[j].request
    <3>1. verdicts[j] \in Sent(i) /\ verdicts[k] \in Sent(i)
      BY <2>1 DEF Sent
    <3>2. i \in Nat \ {0}
      BY VerdictsTyped DEF IInv
    <3> HIDE DEF i
    <3>3. verdicts[j] = verdicts[k]
      BY <2>3, <3>1, <3>2 DEF OneVoice
    <3>4. QED BY <3>3
  <2>4. QED BY <2>2, <2>3 DEF IInv, TypeOK
<1>3. QED
  BY <1>1, <1>2, InitInv, StepInv, InitVoice, StepVoice, StepModel, PTL DEF Spec

------------------------------------------------------------------------------
(* The refinement: what is handled is what the service has settled.            *)

(* The service and the processes decide alike.                                 *)
LEMMA SameDecision ==
  ASSUME NEW model, NEW r
  PROVE  Service!Decide(Policy, Detectors, model, r) = Decide(Policy, Detectors, model, r)
<1>1. Service!RuleSetInspect(r) = RuleSetInspect(r)
  BY DEF Service!RuleSetInspect, RuleSetInspect, Service!FirstRule, FirstRule
<1>2. Service!HmmInspect(model, r) = HmmInspect(model, r)
  BY DEF Service!HmmInspect, HmmInspect, Service!IsTrained, IsTrained,
         Service!Anomalous, Anomalous, Service!Covered, Covered
<1>3. Service!Signals(Detectors, model, r) = Signals(Detectors, model, r)
  BY <1>1, <1>2 DEF Service!Signals, Signals, Service!Inspect, Inspect
<1>4. ASSUME NEW signals
      PROVE  /\ Service!ShouldBlock(Policy, signals) = ShouldBlock(Policy, signals)
             /\ Service!Reason(Policy, signals) = Reason(Policy, signals)
  BY DEF Service!ShouldBlock, ShouldBlock, Service!Reason, Reason, Service!Blocking, Blocking
<1>5. QED BY <1>3, <1>4 DEF Service!Decide, Decide

(* Sending a verdict settles the request if it was due, and repeats an answer  *)
(* otherwise.                                                                  *)
LEMMA SendRefines ==
  ASSUME NEW i \in DOMAIN requests, 1 .. (i - 1) \subseteq Handled,
         Handled' = Handled \cup {i}, UNCHANGED requests,
         \/ UNCHANGED verdicts
         \/ Service!Publish(i)
  PROVE  Service!Next \/ UNCHANGED Service!vars
<1>1. CASE i \in Handled
  BY <1>1 DEF Service!Next, Service!Repeat, Service!vars
<1>2. CASE i \notin Handled
  <2>1. Service!Due(i)
    BY <1>2 DEF Service!Due
  <2>2. Service!Settle(i)
    BY <2>1 DEF Service!Settle
  <2>3. QED BY <2>2 DEF Service!Next
<1>3. QED BY <1>1, <1>2

(* Every step of the processes is a step of the service or a stutter.          *)
LEMMA StepRefines ==
  IInv /\ [Next]_vars => Service!Next \/ UNCHANGED Service!vars
<1> SUFFICES ASSUME IInv, [Next]_vars PROVE Service!Next \/ UNCHANGED Service!vars
  OBVIOUS
<1>6. \A p \in Inspectors : CanDecide(p) => /\ pos[p] \in DOMAIN requests
                                           /\ 1 .. (pos[p] - 1) \subseteq Handled
  BY DEF IInv, PositionHandled, CanDecide
<1>1. CASE Submit
  <2>1. Service!Submit
    BY <1>1, SameHandled DEF Submit, Service!Submit
  <2>2. QED BY <2>1 DEF Service!Next
<1>2. ASSUME NEW p \in Inspectors, Answer(p)
      PROVE  Service!Next \/ UNCHANGED Service!vars
  <2>1. Service!Publish(pos[p])
    BY <1>2, SameDecision DEF IInv, TypeOK, Answer, VerdictOf, Service!Publish
  <2>2. QED
    BY <1>2, <1>6, <2>1, AnswerHandles, SendRefines DEF IInv, Answer
<1>3. ASSUME NEW p \in Inspectors, AnswerLost(p)
      PROVE  Service!Next \/ UNCHANGED Service!vars
  <2>1. Handled' = Handled \cup {pos[p]}
    BY <1>3 DEF AnswerLost, Handled, Served
  <2>2. QED
    BY <1>3, <1>6, <2>1, SendRefines DEF AnswerLost
<1>7. CASE Arrive
  <2>1. PICK copy \in unacked : verdicts' = Append(verdicts, copy.verdict)
    BY <1>7 DEF Arrive
  <2> DEFINE i == copy.verdict.request
  <2>2. i \in DOMAIN requests /\ 1 .. (i - 1) \subseteq Handled
    BY DEF IInv, CopiesDue
  <2>3. PICK m \in Models : copy.verdict.message = Decide(Policy, Detectors, m, requests[i])
    BY DEF IInv, CopiesDue
  <2>4. copy.verdict = [request |-> i, message |-> copy.verdict.message]
    BY DEF IInv, TypeOK
  <2>5. Handled' = Handled \cup {i} /\ UNCHANGED requests
    BY <1>7, <2>1, AppendHandles DEF Arrive, IInv
  <2> HIDE DEF i
  <2>6. Service!Publish(i)
    BY <2>1, <2>3, <2>4, SameDecision DEF Service!Publish
  <2>7. QED BY <2>2, <2>5, <2>6, SendRefines
<1>4. CASE UNCHANGED <<requests, verdicts, lost>>
  BY <1>4, SameHandled DEF Service!vars
<1>5. QED
  BY <1>1, <1>2, <1>3, <1>4, <1>7
  DEF Next, Step, Retrain, Start, Assign, Poll, Fetch, Resend, Raise, AutoCommit, Evict, Crash,
      vars, topicVars

(* The processes implement the in-order, at-least-once service.                *)
THEOREM Implementation == Spec => ServiceSafety
<1>1. Init => Service!Init
  BY DEF Init, Service!Init, Handled, Served
<1>2. IInv /\ [Next]_vars => [Service!Next]_Service!vars
  BY StepRefines
<1>3. QED
  BY <1>1, <1>2, InitInv, StepInv, PTL DEF Spec, ServiceSafety, Service!Safety
==============================================================================
