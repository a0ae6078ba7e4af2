---------------------------- MODULE KafkaInspector ---------------------------
(* StreamingInspector on KafkaChannel: inspector processes of one consumer     *)
(* group read the single-partition request topic, decide, and publish to the   *)
(* verdict topic.  Offsets are committed by the client in the background, the  *)
(* result of a send is never looked at, a send that is not acknowledged in     *)
(* time is repeated, and the model is read once, when a process starts.        *)
(* Bounds: MaxRequests, MaxVerdicts (log lengths), MaxSendFailures (requests   *)
(* whose send is given up), MaxDisruptions (crashes, evictions and repeated    *)
(* sends), MaxRetrains (saves of another model).                               *)
EXTENDS BlockDecision, FiniteSets

CONSTANTS Inspectors, NoOwner, Requests, Models, Policy, Detectors,
          MaxRequests, MaxVerdicts, MaxSendFailures, MaxDisruptions, MaxRetrains

ASSUME InspectorAssumption ==
  /\ NoOwner \notin Inspectors
  /\ Requests \subseteq Request
  /\ Models \subseteq Model
  /\ Policy \in Policies
  /\ Detectors \in DetectorTuple

VARIABLES
  requests,    \* the request topic; an offset is a position in it
  verdicts,    \* the verdict topic: the message, and the offset it answers (which
               \* the message itself does not carry)
  lost,        \* offsets whose verdict was sent and given up
  unacked,     \* copies of verdicts that the client no longer waits for, and that
               \* the broker may still get; numbered
  committed,   \* the group's committed offset: everything up to it is consumed
  owner,       \* the group member the partition is assigned to
  store,       \* the model in the repository
  pc,          \* per process: "down", "polling" (inside next()) or "holding"
  pos,         \* per process: offset of the last record yielded to the loop
  buffered,    \* per process: last offset the client already fetched
  loaded,      \* per process: the model read at start
  disruptions, \* crashes and evictions so far
  resends,     \* sends repeated so far
  retrains     \* models saved so far

topicVars == <<requests, verdicts, lost, unacked>>
groupVars == <<committed, owner>>
procVars  == <<pc, pos, buffered, loaded>>
boundVars == <<disruptions, resends, retrains>>
vars      == <<topicVars, groupVars, procVars, store, boundVars>>

Init ==
  /\ requests = <<>> /\ verdicts = <<>> /\ lost = {} /\ unacked = {}
  /\ committed = 0 /\ owner = NoOwner
  /\ store \in Models
  /\ pc       = [p \in Inspectors |-> "down"]
  /\ pos      = [p \in Inspectors |-> 0]
  /\ buffered = [p \in Inspectors |-> 0]
  /\ loaded   \in [Inspectors -> {store}]
  /\ disruptions = 0 /\ resends = 0 /\ retrains = 0

(* Someone in front of the WAF publishes an encoded request.                   *)
Submit ==
  /\ Len(requests) < MaxRequests
  /\ \E r \in Requests : requests' = Append(requests, r)
  /\ UNCHANGED <<verdicts, lost, unacked, groupVars, procVars, store, boundVars>>

(* A training run replaces the stored model.                                   *)
Retrain ==
  /\ retrains < MaxRetrains
  /\ store' \in Models \ {store}
  /\ retrains' = retrains + 1
  /\ UNCHANGED <<topicVars, groupVars, procVars, disruptions, resends>>

(* Mutant: a process picks up any model file that is lying around.             *)
MutModelRead(m) == m \in Models

ModelRead(m) == m = store

(* Load the model, build the service, subscribe.                               *)
Start(p) ==
  /\ pc[p] = "down"
  /\ pc' = [pc EXCEPT ![p] = "polling"]
  /\ \E m \in Models : ModelRead(m) /\ loaded' = [loaded EXCEPT ![p] = m]
  /\ pos' = [pos EXCEPT ![p] = 0]
  /\ buffered' = [buffered EXCEPT ![p] = 0]
  /\ UNCHANGED <<topicVars, groupVars, store, boundVars>>

Disruptable == disruptions + resends < MaxDisruptions

Drained(p) == pc[p] = "polling" /\ pos[p] = buffered[p]

(* Mutant: auto_offset_reset is "latest", and no offset was committed yet.     *)
MutStartPosition == IF committed = 0 THEN Len(requests) ELSE committed

(* The committed offset; with none, the earliest record of the topic.          *)
StartPosition == committed

(* Mutant: the inspectors join no common group, so each is given the partition.*)
MutAssignableTo(p) == Drained(p)

AssignableTo(p) == Drained(p) /\ owner = NoOwner

(* The coordinator gives the free partition to a member that polls.            *)
Assign(p) ==
  /\ AssignableTo(p)
  /\ owner' = p
  /\ pos' = [pos EXCEPT ![p] = StartPosition]
  /\ buffered' = [buffered EXCEPT ![p] = StartPosition]
  /\ UNCHANGED <<topicVars, committed, pc, loaded, store, boundVars>>

(* Mutant: the end of a batch is one offset too far.                           *)
MutBatchEnds(p) == (pos[p] + 1) .. (Len(requests) + 1)

BatchEnds(p) == (pos[p] + 1) .. Len(requests)

(* A poll of the broker fetches some of the records after the position.        *)
Poll(p) ==
  /\ Drained(p) /\ owner = p
  /\ \E n \in BatchEnds(p) : buffered' = [buffered EXCEPT ![p] = n]
  /\ UNCHANGED <<topicVars, groupVars, pc, pos, loaded, store, boundVars>>

(* next() yields a buffered record, without asking who owns the partition now. *)
Fetch(p) ==
  /\ pc[p] = "polling" /\ pos[p] < buffered[p]
  /\ pos' = [pos EXCEPT ![p] = @ + 1]
  /\ pc' = [pc EXCEPT ![p] = "holding"]
  /\ UNCHANGED <<topicVars, groupVars, buffered, loaded, store, boundVars>>

CanDecide(p) == pc[p] = "holding" /\ ~Raises(Detectors, loaded[p], requests[pos[p]])

VerdictOf(p) ==
  [request |-> pos[p],
   message |-> Decide(Policy, Detectors, loaded[p], requests[pos[p]])]

(* Decide and publish; flush() returns once the broker has acknowledged it.    *)
Answer(p) ==
  /\ CanDecide(p) /\ Len(verdicts) < MaxVerdicts
  /\ verdicts' = Append(verdicts, VerdictOf(p))
  /\ pc' = [pc EXCEPT ![p] = "polling"]
  /\ UNCHANGED <<requests, lost, unacked, groupVars, pos, buffered, loaded, store, boundVars>>

(* The send fails; its future is dropped, so the loop goes on all the same.    *)
AnswerLost(p) ==
  /\ CanDecide(p) /\ Cardinality(lost \cup {pos[p]}) <= MaxSendFailures
  /\ lost' = lost \cup {pos[p]}
  /\ pc' = [pc EXCEPT ![p] = "polling"]
  /\ UNCHANGED <<requests, verdicts, unacked, groupVars, pos, buffered, loaded, store, boundVars>>

(* No acknowledgement in time: the client, which neither gives up at once nor  *)
(* numbers its sends, writes the verdict once more, and flush() waits on.      *)
Resend(p) ==
  /\ CanDecide(p) /\ Disruptable
  /\ unacked' = unacked \cup {[number |-> resends + 1, verdict |-> VerdictOf(p)]}
  /\ resends' = resends + 1
  /\ UNCHANGED <<requests, verdicts, lost, groupVars, procVars, store, disruptions, retrains>>

(* The broker writes an earlier copy after all, whatever became of the sender. *)
Arrive ==
  /\ Len(verdicts) < MaxVerdicts
  /\ \E copy \in unacked : /\ verdicts' = Append(verdicts, copy.verdict)
                            /\ unacked' = unacked \ {copy}
  /\ UNCHANGED <<requests, lost, groupVars, procVars, store, boundVars>>

Released(p) == IF owner = p THEN NoOwner ELSE owner

(* The decision raises: nothing catches it, run() ends and so does the process.*)
Raise(p) ==
  /\ pc[p] = "holding" /\ ~CanDecide(p)
  /\ pc' = [pc EXCEPT ![p] = "down"]
  /\ owner' = Released(p)
  /\ UNCHANGED <<topicVars, committed, pos, buffered, loaded, store, boundVars>>

(* Mutants: the client commits while the loop body still has the record; it    *)
(* commits although the partition was taken away.                              *)
MutCommittable(p) == pc[p] # "down" /\ pos[p] = buffered[p] /\ owner = p
MutUnfencedCommittable(p) == Drained(p)

(* The position is committed from inside next() only, and a member of an older *)
(* generation is refused.                                                      *)
Committable(p) == Drained(p) /\ owner = p

AutoCommit(p) ==
  /\ Committable(p)
  /\ committed' = pos[p]
  /\ UNCHANGED <<topicVars, owner, procVars, store, boundVars>>

(* A rebalance takes the partition from a member that is alive but late.       *)
Evict(p) ==
  /\ owner = p /\ Disruptable
  /\ owner' = NoOwner
  /\ disruptions' = disruptions + 1
  /\ UNCHANGED <<topicVars, committed, procVars, store, resends, retrains>>

(* The process dies anywhere; the group notices.                               *)
Crash(p) ==
  /\ pc[p] # "down" /\ Disruptable
  /\ pc' = [pc EXCEPT ![p] = "down"]
  /\ owner' = Released(p)
  /\ disruptions' = disruptions + 1
  /\ UNCHANGED <<topicVars, committed, pos, buffered, loaded, store, resends, retrains>>

Step(p) == Start(p) \/ Assign(p) \/ Poll(p) \/ Fetch(p) \/ Answer(p) \/ Raise(p)

Next == \/ Submit \/ Retrain \/ Arrive
        \/ \E p \in Inspectors :
             \/ Step(p) \/ AnswerLost(p) \/ Resend(p)
             \/ AutoCommit(p) \/ Evict(p) \/ Crash(p)

Spec == Init /\ [][Next]_vars

(* Processes are scheduled and restarted, brokers answer polls; nothing makes  *)
(* clients commit, requests or late copies arrive, sends fail or members leave.*)
FairSpec == Spec /\ \A p \in Inspectors : WF_vars(Step(p))

------------------------------------------------------------------------------
(* What the properties are about.                                              *)

Served  == {verdicts[k].request : k \in DOMAIN verdicts}
Handled == Served \cup lost

Answers(i) == {k \in DOMAIN verdicts : verdicts[k].request = i}

(* What can be published: the verdict of some model on some request.           *)
Message == {Decide(Policy, Detectors, m, r) : m \in Models, r \in Requests}

(* The types of the variables, and bounds that no step exceeds.                *)
TypeOK ==
  /\ requests \in Seq(Requests)
  /\ verdicts \in Seq([request : Nat \ {0}, message : Message])
  /\ lost \subseteq DOMAIN requests
  /\ unacked \subseteq [number : 1 .. resends,
                       verdict : [request : Nat \ {0}, message : Message]]
  /\ committed \in 0 .. Len(requests)
  /\ owner \in Inspectors \cup {NoOwner}
  /\ store \in Models
  /\ pc \in [Inspectors -> {"down", "polling", "holding"}]
  /\ pos \in [Inspectors -> 0 .. Len(requests)]
  /\ buffered \in [Inspectors -> 0 .. Len(requests)]
  /\ loaded \in [Inspectors -> Models]
  /\ disruptions \in Nat /\ resends \in Nat /\ retrains \in Nat

(* The group never counts a request as consumed that no inspector has decided  *)
(* and sent a verdict for: at-least-once, up to sends that fail unnoticed.     *)
CommittedHandled == 1 .. committed \subseteq Handled

(* No request overtakes an earlier one, even when an evicted inspector works   *)
(* through its buffer beside its successor.                                    *)
HandledInOrder == \A i \in Handled : 1 .. i \subseteq Handled

(* An inspector that is ready to read on has handled everything up to its      *)
(* position; one that holds a record, everything before it.  This is what ties *)
(* the position the client commits to the verdicts the loop has sent.          *)
PositionHandled ==
  \A p \in Inspectors :
    /\ pos[p] <= buffered[p]
    /\ pc[p] = "polling" => 1 .. pos[p] \subseteq Handled
    /\ pc[p] = "holding" => /\ pos[p] \in DOMAIN requests
                            /\ 1 .. (pos[p] - 1) \subseteq Handled

(* The owner never stands before the committed offset, so committing its       *)
(* position moves the offset forward.                                          *)
OwnerAhead ==
  owner # NoOwner => /\ pc[owner] # "down"
                     /\ committed <= pos[owner]

HandledAsked == Handled \subseteq DOMAIN requests

(* A copy that may still arrive is some model's verdict on a request whose     *)
(* turn had come.                                                              *)
CopiesDue ==
  \A copy \in unacked :
    LET i == copy.verdict.request
    IN  /\ i \in DOMAIN requests /\ 1 .. (i - 1) \subseteq Handled
        /\ \E m \in Models : copy.verdict.message = Decide(Policy, Detectors, m, requests[i])

(* The inductive invariant the proofs rest on.                                 *)
IInv == /\ TypeOK /\ PositionHandled /\ OwnerAhead
        /\ CommittedHandled /\ HandledInOrder /\ HandledAsked /\ CopiesDue

(* A rebalance or a late member never moves the group's offset backwards.      *)
CommitNeverRegresses == [][committed' >= committed]_vars

(* Whether all requests up to the n-th have a form a detector can read.        *)
Readable(n) == \A i \in 1 .. n : requests[i].encodable

(* As long as no request raises, each is answered once, and once more for every *)
(* crash, eviction or repeated send at most: two inspectors of one group never *)
(* answer the same request for any other reason.                               *)
DuplicatesBounded ==
  Readable(Len(requests)) =>
    \A i \in Served : Cardinality(Answers(i)) <= 1 + disruptions + resends

(* Two verdicts for one request contradict each other only if it was delivered *)
(* twice and the model was replaced in between: a send that was repeated says  *)
(* the same again, however late its first copy arrives.                        *)
ContradictionNeedsRetrain ==
  \A j, k \in DOMAIN verdicts :
    (/\ verdicts[j].request = verdicts[k].request
     /\ verdicts[j].message # verdicts[k].message)
      => /\ retrains > 0
         /\ disruptions > 0 \/ ~Readable(Len(requests))

(* Who may still answer request i without being disturbed: an owner that has   *)
(* not passed it, an inspector with the record in its buffer or in hand, and,  *)
(* while nobody owns the partition, the next owner.                            *)
MayAnswer(p, i) ==
  /\ pc[p] # "down"
  /\ pos[p] < i \/ (pc[p] = "holding" /\ pos[p] = i)
  /\ owner = p \/ i <= buffered[p]

Pending(i) == {p \in Inspectors : MayAnswer(p, i)}
              \cup {q \in {NoOwner} : owner = NoOwner /\ committed < i}

Copies(i) == {copy \in unacked : copy.verdict.request = i}

(* Answers given, copies of them under way and answers still to come are paid  *)
(* for by disruptions and repeated sends: this is what bounds the duplicates,  *)
(* and is inductive where that bound is not.                                   *)
AnswersBudgeted ==
  Readable(Len(requests)) =>
    \A i \in Nat \ {0} :
      /\ IsFiniteSet(Copies(i)) /\ IsFiniteSet(Pending(i))
      /\ Cardinality(Answers(i)) + Cardinality(Copies(i)) + Cardinality(Pending(i))
           <= 1 + (disruptions + resends)

(* All verdicts that arrived or may still arrive.                              *)
AllSent == {verdicts[k] : k \in DOMAIN verdicts} \cup {copy.verdict : copy \in unacked}

Sent(i) == {v \in AllSent : v.request = i}

(* Without a crash or an eviction one delivery is all a request gets: nobody   *)
(* else may answer it, and all that was sent for it, arrived or not, is what   *)
(* the inspector that has it in hand says.                                     *)
OneVoice ==
  (Readable(Len(requests)) /\ disruptions = 0) =>
    \A i \in Nat \ {0} :
      /\ \A p, q \in Pending(i) : p = q
      /\ \A v, w \in Sent(i) : v = w
      /\ \A v \in Sent(i), p \in Pending(i) :
           p \in Inspectors /\ pc[p] = "holding" /\ pos[p] = i /\ v = VerdictOf(p)

(* Until a model is saved, everyone decides with the one in the repository.    *)
OneModelUntilRetrain ==
  retrains = 0 =>
    /\ \A p \in Inspectors : loaded[p] = store
    /\ \A v \in AllSent : v.message = Decide(Policy, Detectors, store, requests[v.request])

(* Every request is decided and sent in the end, unless one before it raises.  *)
EveryRequestHandled ==
  \A i \in 1 .. MaxRequests :
    (i \in DOMAIN requests /\ Readable(i)) ~> i \in Handled

(* The pipe implements the in-order, at-least-once inspection service.         *)
Service == INSTANCE InspectionService WITH settled <- Handled
ServiceSafety == Service!Safety

(* channel.py:17, inference.py:31: a verdict is published for every request    *)
(* consumed, one by one.                                                       *)
NoVerdictLost == 1 .. committed \subseteq Served

(* inference.py:33-34: over Kafka the loop keeps consuming new requests: one   *)
(* that can be decided gets its verdict.                                       *)
DecidableRequestServed ==
  \A i \in 1 .. MaxRequests :
    (i \in DOMAIN requests /\ requests[i].encodable) ~> i \in Served
==============================================================================
