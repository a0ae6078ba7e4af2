------------------------- MODULE MemoryChannelProofs -------------------------
(* Machine-checked proofs about MemoryChannel, for any requests, models and    *)
(* bounds.                                                                     *)
EXTENDS MemoryChannel, SequenceTheorems, TLAPS

(* What is appended to a log comes last, and nothing else in it moves.         *)
LEMMA AppendFacts ==
  ASSUME NEW S, NEW s \in Seq(S), NEW e \in S
  PROVE  /\ Append(s, e) \in Seq(S)
         /\ Len(Append(s, e)) = Len(s) + 1 /\ Len(s) \in Nat
         /\ \A i \in 1 .. Len(s) : Append(s, e)[i] = s[i]
         /\ Append(s, e)[Len(s) + 1] = e
         /\ DOMAIN s = 1 .. Len(s) /\ DOMAIN Append(s, e) = 1 .. (Len(s) + 1)
OBVIOUS

(* The record the loop takes next is the first one not counted yet, and it is  *)
(* in the topic.                                                               *)
LEMMA NextInHand ==
  ASSUME IInv, looping, backlog # <<>>
  PROVE  /\ Head(backlog) = processed + 1
         /\ processed < asked
         /\ Head(backlog) \in DOMAIN requests
         /\ requests[Head(backlog)] \in Requests
         /\ Left = [j \in 1 .. asked - (processed + 1) |-> (processed + 1) + j]
<1> DEFINE n == asked - processed
<1>1. /\ processed \in Nat /\ asked \in Nat /\ asked <= Len(requests) /\ Len(requests) \in Nat
      /\ DOMAIN requests = 1 .. Len(requests)
      /\ processed <= asked
  BY DEF IInv, TypeOK, RunAnswersPile
<1>2. backlog = [j \in 1 .. n |-> processed + j] /\ n \in Nat
  BY <1>1 DEF IInv, BacklogIsRest
<1>3. Len(backlog) = n /\ n # 0
  <2>1. backlog \in Seq(Nat) /\ DOMAIN backlog = 1 .. n
    BY <1>2 DEF IInv, TypeOK
  <2>2. Len(backlog) = n
    BY <1>2, <2>1
  <2>3. Len(backlog) # 0
    BY <2>1, EmptySeq
  <2>4. QED BY <2>2, <2>3
<1>4. Head(backlog) = processed + 1
  BY <1>1, <1>2, <1>3
<1>5. /\ Left \in Seq(Nat) /\ Len(Left) = n - 1
      /\ \A j \in 1 .. n - 1 : Left[j] = backlog[j + 1]
  BY <1>3, HeadTailProperties DEF Left, IInv, TypeOK
<1>6. \A j \in 1 .. n - 1 : Left[j] = (processed + 1) + j
  BY <1>1, <1>2, <1>5
<1>7. n - 1 = asked - (processed + 1)
  BY <1>1
<1>8. Left = [j \in 1 .. asked - (processed + 1) |-> (processed + 1) + j]
  <2>1. Left = [j \in 1 .. n - 1 |-> Left[j]]
    BY <1>5
  <2>2. QED BY <1>6, <1>7, <2>1
<1>9. Head(backlog) \in DOMAIN requests /\ processed < asked
  BY <1>1, <1>2, <1>3, <1>4
<1>10. requests[Head(backlog)] \in Requests
  BY <1>9 DEF IInv, TypeOK
<1>11. QED BY <1>4, <1>8, <1>9, <1>10

------------------------------------------------------------------------------
(* The initial states satisfy the invariant.                                   *)
LEMMA InitInv == Init => IInv
<1> SUFFICES ASSUME Init PROVE IInv
  OBVIOUS
<1>1. requests \in Seq(Requests) /\ Len(requests) = 0 /\ backlog \in Seq(Nat)
  BY DEF Init
<1>2. verdicts \in Seq([request : Nat \ {0}, message : Message]) /\ polled = verdicts
  BY DEF Init
<1>3. TypeOK
  <2>1. looping \in BOOLEAN /\ model \in Models
    BY DEF Init
  <2>2. QED BY <1>1, <1>2, <2>1 DEF Init, TypeOK
<1>4. processed = 0 /\ asked = 0 /\ looping = FALSE /\ Len(verdicts) = 0
  BY DEF Init
<1>5. BacklogIsRest
  BY <1>4 DEF BacklogIsRest
<1>6. RunAnswersPile
  BY <1>4 DEF RunAnswersPile
<1>7. QED BY <1>3, <1>5, <1>6 DEF IInv

(* The verdict of the record in hand extends what the run has answered.        *)
LEMMA AnswerInv ==
  ASSUME IInv, Answer
  PROVE  IInv'
<1> DEFINE v == [request |-> Head(backlog),
                 message |-> Decide(Policy, Detectors, model, requests[Head(backlog)])]
<1>1. /\ looping /\ backlog # <<>>
      /\ verdicts' = Append(verdicts, v)
      /\ backlog' = Left /\ processed' = processed + 1
      /\ UNCHANGED <<requests, model, looping, asked, runs, polled, polls>>
  BY DEF Answer
<1>2. /\ Head(backlog) = processed + 1 /\ processed < asked
      /\ requests[Head(backlog)] \in Requests
      /\ Left = [j \in 1 .. asked - (processed + 1) |-> (processed + 1) + j]
  BY <1>1, NextInHand
<1>3. /\ processed \in Nat /\ asked \in Nat /\ Len(verdicts) \in Nat
      /\ processed <= Len(verdicts)
      /\ \A j \in 1 .. processed : verdicts[(Len(verdicts) - processed) + j].request = j
  BY DEF IInv, TypeOK, BacklogIsRest, RunAnswersPile
<1>4. v.request = processed + 1
  BY <1>2
<1>5. v \in [request : Nat \ {0}, message : Message]
  <2>1. Head(backlog) \in Nat \ {0}
    BY <1>2, <1>3
  <2>2. QED BY <1>2, <2>1 DEF Message, IInv, TypeOK
<1> HIDE DEF v
<1>6. /\ verdicts' \in Seq([request : Nat \ {0}, message : Message])
      /\ Len(verdicts') = Len(verdicts) + 1
      /\ \A i \in 1 .. Len(verdicts) : verdicts'[i] = verdicts[i]
      /\ verdicts'[Len(verdicts) + 1] = v
  BY <1>1, <1>5, AppendFacts DEF IInv, TypeOK
<1>7. BacklogIsRest'
  BY <1>1, <1>2, <1>3, <1>6 DEF BacklogIsRest
<1>8. backlog' \in Seq(Nat) /\ Len(backlog') = asked - (processed + 1)
  BY <1>1, <1>2, <1>3
<1>9. TypeOK'
  BY <1>1, <1>3, <1>6, <1>8 DEF IInv, TypeOK
<1>10. \A j \in 1 .. processed' :
         verdicts'[(Len(verdicts') - processed') + j].request = j
  <2> TAKE j \in 1 .. processed'
  <2>1. Len(verdicts') - processed' = Len(verdicts) - processed
    BY <1>1, <1>3, <1>6
  <2>2. CASE j = processed + 1
    <3>1. (Len(verdicts) - processed) + j = Len(verdicts) + 1
      BY <1>3, <2>2
    <3>2. QED BY <1>4, <1>6, <2>1, <2>2, <3>1
  <2>3. CASE j # processed + 1
    <3>1. j \in 1 .. processed /\ (Len(verdicts) - processed) + j \in 1 .. Len(verdicts)
      BY <1>1, <1>3, <2>3
    <3>2. QED BY <1>3, <1>6, <2>1, <3>1
  <2>4. QED BY <2>2, <2>3
<1>11. RunAnswersPile'
  <2>1. processed' <= asked' /\ processed' + Len(backlog') = asked' /\ looping'
    BY <1>1, <1>2, <1>3, <1>8
  <2>2. QED BY <1>10, <2>1 DEF RunAnswersPile
<1>12. QED BY <1>7, <1>9, <1>11 DEF IInv

(* Every step keeps the invariant.                                             *)
LEMMA StepInv == IInv /\ [Next]_vars => IInv'
<1> SUFFICES ASSUME IInv, [Next]_vars PROVE IInv'
  OBVIOUS
<1> USE DEF runVars
<1>1. CASE Submit
  <2>1. PICK r \in Requests : requests' = Append(requests, r)
    BY <1>1 DEF Submit
  <2>2. /\ requests' \in Seq(Requests)
        /\ Len(requests') = Len(requests) + 1 /\ Len(requests) \in Nat
        /\ \A i \in 1 .. Len(requests) : requests'[i] = requests[i]
    BY <2>1, AppendFacts DEF IInv, TypeOK
  <2>3. TypeOK'
    BY <1>1, <2>2 DEF IInv, TypeOK, Submit
  <2>4. BacklogIsRest'
    BY <1>1 DEF IInv, BacklogIsRest, Submit
  <2>5. (~looping /\ processed < asked) => ~requests'[processed + 1].encodable
    <3>1. processed < asked => processed + 1 \in 1 .. Len(requests)
      BY <2>2 DEF IInv, TypeOK
    <3>2. QED BY <2>2, <3>1 DEF IInv, RunAnswersPile
  <2>6. RunAnswersPile'
    BY <1>1, <2>5 DEF IInv, RunAnswersPile, Submit
  <2>7. QED BY <2>3, <2>4, <2>6 DEF IInv
<1>2. CASE Run
  <2>1. /\ Len(requests) \in Nat /\ Len(verdicts) \in Nat
        /\ DOMAIN requests = 1 .. Len(requests)
    BY DEF IInv, TypeOK
  <2>2. Pile \in Seq(Nat) /\ Len(Pile) = Len(requests)
        /\ Pile = [j \in 1 .. Len(requests) - 0 |-> 0 + j]
    BY <2>1 DEF Pile
  <2>3. TypeOK'
    BY <1>2, <2>1, <2>2 DEF IInv, TypeOK, Run
  <2>4. BacklogIsRest'
    BY <1>2, <2>1, <2>2 DEF BacklogIsRest, Run
  <2>5. RunAnswersPile'
    BY <1>2, <2>1, <2>2 DEF RunAnswersPile, Run
  <2>6. QED BY <2>3, <2>4, <2>5 DEF IInv
<1>3. CASE Answer
  BY <1>3, AnswerInv
<1>4. CASE Return
  <2>1. processed = asked
    BY <1>4 DEF IInv, TypeOK, RunAnswersPile, Return
  <2>2. TypeOK' /\ BacklogIsRest'
    BY <1>4 DEF IInv, TypeOK, BacklogIsRest, Return, Stop
  <2>3. RunAnswersPile'
    BY <1>4, <2>1 DEF IInv, TypeOK, RunAnswersPile, Return, Stop
  <2>4. QED BY <2>2, <2>3 DEF IInv
<1>5. CASE Raise
  <2>1. ~requests[processed + 1].encodable
    BY <1>5, NextInHand DEF Raise, Raises
  <2>2. Stop /\ looping
    BY <1>5 DEF Raise
  <2>3. TypeOK'
    <3>1. looping' \in BOOLEAN
      BY <2>2, Zenon DEF Stop
    <3>2. QED BY <2>2, <3>1 DEF IInv, TypeOK, Stop
  <2>4. BacklogIsRest'
    BY <2>2 DEF IInv, TypeOK, BacklogIsRest, Stop
  <2>5. RunAnswersPile'
    BY <2>1, <2>2 DEF IInv, RunAnswersPile, Stop
  <2>6. QED BY <2>3, <2>4, <2>5 DEF IInv
<1>6. CASE Retrain
  BY <1>6 DEF IInv, TypeOK, BacklogIsRest, RunAnswersPile, Retrain
<1>7. CASE Poll
  BY <1>7 DEF IInv, TypeOK, BacklogIsRest, RunAnswersPile, Poll
<1>8. CASE Consume
  <2>1. polled' \in Seq([request : Nat \ {0}, message : Message])
    BY <1>8 DEF IInv, TypeOK, Consume
  <2>2. QED
    BY <1>8, <2>1 DEF IInv, TypeOK, BacklogIsRest, RunAnswersPile, Consume, Kept
<1>9. CASE UNCHANGED vars
  BY <1>9 DEF vars, IInv, TypeOK, BacklogIsRest, RunAnswersPile
<1>10. QED
  BY <1>1, <1>2, <1>3, <1>4, <1>5, <1>6, <1>7, <1>8, <1>9 DEF Next

(* Type correctness, for every number of requests, runs and polls.             *)
THEOREM TypeCorrect == Spec => []TypeOK
<1>1. IInv => TypeOK
  BY DEF IInv
<1>2. QED BY <1>1, InitInv, StepInv, PTL DEF Spec

(* A run answers in order what had piled up when it was called, up to a        *)
(* request that raises: inference.py:33, whoever publishes during the run.     *)
THEOREM PileAnswered == Spec => []RunAnswersPile
<1>1. IInv => RunAnswersPile
  BY DEF IInv
<1>2. QED BY <1>1, InitInv, StepInv, PTL DEF Spec

------------------------------------------------------------------------------
(* The refinement: what has a verdict is what the service has settled.         *)

(* The service and the loop decide alike.                                      *)
LEMMA SameDecision ==
  ASSUME NEW m, NEW r
  PROVE  Service!Decide(Policy, Detectors, m, r) = Decide(Policy, Detectors, m, r)
<1>1. Service!RuleSetInspect(r) = RuleSetInspect(r)
  BY DEF Service!RuleSetInspect, RuleSetInspect, Service!FirstRule, FirstRule
<1>2. Service!HmmInspect(m, r) = HmmInspect(m, r)
  BY DEF Service!HmmInspect, HmmInspect, Service!IsTrained, IsTrained,
         Service!Anomalous, Anomalous, Service!Covered, Covered
<1>3. Service!Signals(Detectors, m, r) = Signals(Detectors, m, r)
  BY <1>1, <1>2 DEF Service!Signals, Signals, Service!Inspect, Inspect
<1>4. ASSUME NEW signals
      PROVE  /\ Service!ShouldBlock(Policy, signals) = ShouldBlock(Policy, signals)
             /\ Service!Reason(Policy, signals) = Reason(Policy, signals)
  BY DEF Service!ShouldBlock, ShouldBlock, Service!Reason, Reason, Service!Blocking, Blocking
<1>5. QED BY <1>3, <1>4 DEF Service!Decide, Decide

(* What a run has counted is served: its verdicts are the last of the topic.   *)
LEMMA CountedServed ==
  ASSUME IInv
  PROVE  1 .. processed \subseteq Served
<1> SUFFICES ASSUME NEW j \in 1 .. processed PROVE j \in Served
  OBVIOUS
<1> DEFINE k == (Len(verdicts) - processed) + j
<1>1. verdicts[k].request = j
  BY DEF IInv, RunAnswersPile
<1>2. k \in DOMAIN verdicts
  BY DEF IInv, TypeOK, BacklogIsRest
<1>3. QED BY <1>1, <1>2 DEF Served

(* Answering settles the request, or repeats an answer of an earlier run.      *)
LEMMA AnswerRefines ==
  ASSUME IInv, Answer
  PROVE  Service!Next
<1> DEFINE i == Head(backlog)
           v == [request |-> i, message |-> Decide(Policy, Detectors, model, requests[i])]
<1>1. looping /\ backlog # <<>> /\ verdicts' = Append(verdicts, v) /\ UNCHANGED requests
  BY DEF Answer
<1>2. i = processed + 1 /\ i \in DOMAIN requests /\ requests[i] \in Requests
  BY <1>1, NextInHand
<1>3. v \in [request : Nat \ {0}, message : Message] /\ v.request = i
  BY <1>2 DEF IInv, TypeOK, Message
<1>4. Service!Publish(i)
  BY <1>1, SameDecision DEF IInv, TypeOK, Service!Publish
<1> HIDE DEF v
<1>5. /\ \A k \in 1 .. Len(verdicts) : verdicts'[k] = verdicts[k]
      /\ verdicts'[Len(verdicts) + 1] = v
      /\ Len(verdicts) \in Nat
      /\ DOMAIN verdicts = 1 .. Len(verdicts)
      /\ DOMAIN verdicts' = 1 .. (Len(verdicts) + 1)
  BY <1>1, <1>3, AppendFacts DEF IInv, TypeOK
<1>6. Served' = Served \cup {i}
  BY <1>3, <1>5 DEF Served
<1>7. 1 .. (i - 1) \subseteq Served
  BY <1>2, CountedServed DEF IInv, TypeOK
<1>8. CASE i \in Served
  <2>1. Service!Repeat(i)
    BY <1>1, <1>4, <1>6, <1>8 DEF Service!Repeat
  <2>2. QED BY <1>2, <2>1 DEF Service!Next
<1>9. CASE i \notin Served
  <2>1. Service!Settle(i)
    BY <1>1, <1>2, <1>4, <1>6, <1>7, <1>9 DEF Service!Settle, Service!Due
  <2>2. QED BY <1>2, <2>1 DEF Service!Next
<1>10. QED BY <1>8, <1>9

(* Every step on the channel is a step of the service or a stutter.            *)
LEMMA StepRefines ==
  IInv /\ [Next]_vars => Service!Next \/ UNCHANGED Service!vars
<1> SUFFICES ASSUME IInv, [Next]_vars PROVE Service!Next \/ UNCHANGED Service!vars
  OBVIOUS
<1>1. CASE Submit
  <2>1. Service!Submit
    BY <1>1 DEF Submit, Service!Submit, Served
  <2>2. QED BY <2>1 DEF Service!Next
<1>2. CASE Answer
  BY <1>2, AnswerRefines
<1>3. CASE UNCHANGED <<requests, verdicts>>
  BY <1>3 DEF Service!vars, Served
<1>4. QED
  BY <1>1, <1>2, <1>3
  DEF Next, Run, Return, Raise, Stop, Retrain, Poll, Consume, Kept, vars

(* The channel in memory carries the same in-order service as the one over     *)
(* Kafka: consuming from a poll loses nothing, another run overtakes nothing.  *)
THEOREM Implementation == Spec => ServiceSafety
<1>1. Init => Service!Init
  BY DEF Init, Service!Init, Served
<1>2. IInv /\ [Next]_vars => [Service!Next]_Service!vars
  BY StepRefines
<1>3. QED
  BY <1>1, <1>2, InitInv, StepInv, PTL DEF Spec, ServiceSafety, Service!Safety
==============================================================================
