---------------------------- MODULE MemoryChannel ----------------------------
(* StreamingInspector on InMemoryChannel: a topic is a list in one process,    *)
(* stream() goes once over a copy of it, poll() hands out a copy.  There are   *)
(* no offsets: what was read is known to the generator only, and dies with it. *)
(* Bounds: MaxRequests (length of the request topic), MaxRuns (calls of run),  *)
(* MaxPolls (calls of poll).                                                   *)
EXTENDS BlockDecision, FiniteSets

CONSTANTS Requests, Models, Policy, Detectors, MaxRequests, MaxRuns, MaxPolls

ASSUME MemoryAssumption ==
  /\ Requests \subseteq Request /\ Models \subseteq Model
  /\ Policy \in Policies /\ Detectors \in DetectorTuple

VARIABLES
  requests,   \* the request topic
  verdicts,   \* the verdict topic, with the request each message answers
  model,      \* the model of the one detector object
  looping,    \* whether run() is in its loop
  backlog,    \* the requests the generator has still to yield, by number
  processed,  \* the counter of run()
  asked,      \* requests in the topic when run() was called (history)
  polled,     \* the list the last poll() of the verdicts returned
  runs, polls \* calls so far

runVars == <<looping, backlog, processed, asked, runs>>
vars    == <<requests, verdicts, model, runVars, polled, polls>>

Init ==
  /\ requests = <<>> /\ verdicts = <<>> /\ model \in Models
  /\ looping = FALSE /\ backlog = <<>> /\ processed = 0 /\ asked = 0
  /\ polled = <<>> /\ runs = 0 /\ polls = 0

(* Whoever shares the channel publishes, between two runs or during one.       *)
Submit ==
  /\ Len(requests) < MaxRequests
  /\ \E r \in Requests : requests' = Append(requests, r)
  /\ UNCHANGED <<verdicts, model, runVars, polled, polls>>

Pile == [i \in DOMAIN requests |-> i]

(* run(): the first next() copies the list.                                    *)
Run ==
  /\ ~looping /\ runs < MaxRuns
  /\ looping' = TRUE /\ runs' = runs + 1
  /\ backlog' = Pile
  /\ processed' = 0 /\ asked' = Len(requests)
  /\ UNCHANGED <<requests, verdicts, model, polled, polls>>

(* Mutant: the generator goes over the list itself and meets what is appended. *)
MutLeft == [i \in 1 .. Len(requests) - Head(backlog) |-> Head(backlog) + i]

Left == Tail(backlog)

(* Decide, publish, count.                                                     *)
Answer ==
  /\ looping /\ backlog # <<>>
  /\ LET i == Head(backlog)
     IN  /\ ~Raises(Detectors, model, requests[i])
         /\ verdicts' = Append(verdicts,
                          [request |-> i,
                           message |-> Decide(Policy, Detectors, model, requests[i])])
  /\ backlog' = Left /\ processed' = processed + 1
  /\ UNCHANGED <<requests, model, looping, asked, runs, polled, polls>>

Stop == /\ looping' = FALSE /\ backlog' = <<>>
        /\ UNCHANGED <<requests, verdicts, model, processed, asked, runs, polled, polls>>

Return == looping /\ backlog = <<>> /\ Stop

(* The decision raises through run(); the generator is dropped.                *)
Raise == /\ looping /\ backlog # <<>>
         /\ Raises(Detectors, model, requests[Head(backlog)])
         /\ Stop

(* The detector object is trained again, in the same process.                  *)
Retrain ==
  /\ ~looping
  /\ model' \in Models \ {model}
  /\ UNCHANGED <<requests, verdicts, runVars, polled, polls>>

Poll ==
  /\ polls < MaxPolls
  /\ polled' = verdicts /\ polls' = polls + 1
  /\ UNCHANGED <<requests, verdicts, model, runVars>>

(* Mutant: poll() returned the list of the channel.                            *)
MutKept == Tail(verdicts)

Kept == verdicts

(* The caller of poll() takes messages out of its list.                        *)
Consume ==
  /\ polled # <<>>
  /\ polled' = Tail(polled) /\ verdicts' = Kept
  /\ UNCHANGED <<requests, model, runVars, polls>>

Next == Submit \/ Run \/ Answer \/ Return \/ Raise \/ Retrain \/ Poll \/ Consume

Spec == Init /\ [][Next]_vars

------------------------------------------------------------------------------
Served == {verdicts[k].request : k \in DOMAIN verdicts}

(* The channel in memory carries the same in-order inspection service as the   *)
(* one over Kafka: a caller that consumes what poll() returned takes nothing   *)
(* away from it, and a second run repeats but never overtakes.                 *)
Service       == INSTANCE InspectionService WITH settled <- Served
ServiceSafety == Service!Safety

(* inference.py:33: a run answers, in order, exactly what had piled up when it *)
(* was called, and stops short of that only at a request that raises.          *)
RunAnswersPile ==
  LET before == Len(verdicts) - processed
  IN  /\ processed <= asked
      /\ \A j \in 1 .. processed : verdicts[before + j].request = j
      /\ looping => processed + Len(backlog) = asked
      /\ (~looping /\ processed < asked)
           => ~requests[processed + 1].encodable
------------------------------------------------------------------------------
(* What can be published: the verdict of some model on some request.           *)
Message == {Decide(Policy, Detectors, m, r) : m \in Models, r \in Requests}

(* The types of the variables; a run never asks for more than was submitted.   *)
TypeOK ==
  /\ requests \in Seq(Requests)
  /\ verdicts \in Seq([request : Nat \ {0}, message : Message])
  /\ polled \in Seq([request : Nat \ {0}, message : Message])
  /\ model \in Models /\ looping \in BOOLEAN
  /\ backlog \in Seq(Nat) /\ processed \in Nat /\ asked \in 0 .. Len(requests)
  /\ runs \in Nat /\ polls \in Nat

(* The generator has still to yield what was asked and is not counted yet, and *)
(* what is counted is at the end of the verdict topic.                         *)
BacklogIsRest ==
  /\ processed <= Len(verdicts)
  /\ looping => backlog = [j \in 1 .. asked - processed |-> processed + j]

(* The inductive invariant.                                                    *)
IInv == TypeOK /\ BacklogIsRest /\ RunAnswersPile
==============================================================================
