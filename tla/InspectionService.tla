-------------------------- MODULE InspectionService --------------------------
(* What the inspection pipe promises, without processes, offsets or groups:    *)
(* requests are settled in the order they were asked.  Settling publishes the  *)
(* verdict of some model the system had, or loses it; a settled request may be *)
(* answered again, an unsettled one may not be overtaken.                      *)
EXTENDS BlockDecision

CONSTANTS Requests, Models, Policy, Detectors

VARIABLES requests,  \* the request topic
          verdicts,  \* the verdict topic
          settled    \* offsets that will not be answered for the first time

vars == <<requests, verdicts, settled>>

Init == requests = <<>> /\ verdicts = <<>> /\ settled = {}

Submit == /\ \E r \in Requests : requests' = Append(requests, r)
          /\ UNCHANGED <<verdicts, settled>>

Publish(i) == \E m \in Models :
  verdicts' = Append(verdicts, [request |-> i,
                                message |-> Decide(Policy, Detectors, m, requests[i])])

Due(i) == i \in DOMAIN requests \ settled /\ 1 .. (i - 1) \subseteq settled

Settle(i) == /\ Due(i)
             /\ settled' = settled \cup {i}
             /\ Publish(i) \/ UNCHANGED verdicts
             /\ UNCHANGED requests

Repeat(i) == i \in settled /\ Publish(i) /\ UNCHANGED <<requests, settled>>

Next == Submit \/ (\E i \in DOMAIN requests : Settle(i) \/ Repeat(i))

Safety == Init /\ [][Next]_vars
==============================================================================
