-------------------------- MODULE MCZWaveScenarios --------------------------
(* No request survives all that may go wrong in ZWaveSystem at once.  A       *)
(* scenario is what goes wrong together: which requests are made and which    *)
(* reports, and how many faults happen, to requests and the ACKs that answer  *)
(* them, to frames of the dongle, or to the ACKs of the host.                 *)
EXTENDS MCZWaveSystem

VARIABLE scenario

Scenarios == {
  [calls |-> Requests, reported |-> {}, faults |-> 1, kinds |-> {"request", "frame"}],
  [calls |-> {info1, info2, send1}, reported |-> Reports, faults |-> 0, kinds |-> {}],
  [calls |-> {info1, info2}, reported |-> {report}, faults |-> 1,
   kinds |-> {"request", "frame"}],
  [calls |-> {info1, send1}, reported |-> {report}, faults |-> 2,
   kinds |-> {"frame", "hostAck"}],
  [calls |-> {send1, send2}, reported |-> {report}, faults |-> 2, kinds |-> {"frame"}]}

\* A step stays in the scenario; if it is a fault it is of this kind.
Within(kind) ==
  /\ scenario' = scenario
  /\ {r \in Requests : outcome'[r] # "new"} \subseteq scenario.calls
  /\ Reports \ reports' \subseteq scenario.reported
  /\ faults' # faults => faults' <= scenario.faults /\ kind \in scenario.kinds

ScenarioInit == scenario \in Scenarios /\ SystemInit

\* The steps of SystemNext.
ScenarioNext ==
  \/ Loop /\ Within("none")
  \/ Call /\ Within("none")
  \/ TakeRequest /\ Within("request")
  \/ MissRequest /\ Within("request")
  \/ CancelRequest /\ Within("none")
  \/ TakeAck /\ Within("hostAck")
  \/ TakeNack /\ Within("none")
  \/ SendFrame /\ Within("frame")
  \/ SendAgain /\ Within("frame")
  \/ StatusReturns /\ Within("none")
  \/ MakeReport /\ Within("none")

\* A step that is fair has an alternative without a fault.
ScenarioSpec ==
  /\ ScenarioInit /\ [][ScenarioNext]_<<systemVars, scenario>>
  /\ WF_systemVars(Loop) /\ WF_systemVars(DongleStep)
=============================================================================
