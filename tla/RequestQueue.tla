---------------------------- MODULE RequestQueue ----------------------------
(***************************************************************************)
(* What ZWaveProtocol::sendRequest promises to its callers, with the wire, *)
(* the timer and the retries left out: accepted requests form one FIFO     *)
(* queue, and each leaves it exactly once, from the front, either because  *)
(* its procedure ended (the callback of the request ran) or because it was *)
(* given up (onError ran).  ZWaveProtocol implements this specification.   *)
(***************************************************************************)
EXTENDS Naturals, Sequences

CONSTANT Requests      \* request objects callers may submit

VARIABLES
  queue,               \* accepted requests, oldest first
  outcome              \* what became of each request

abstractVars == <<queue, outcome>>

Outcomes == {"new", "queued", "done", "failed"}

Init ==
  /\ queue = <<>>
  /\ outcome = [r \in Requests |-> "new"]

Submit(r) ==
  /\ outcome[r] = "new"
  /\ queue' = Append(queue, r)
  /\ outcome' = [outcome EXCEPT ![r] = "queued"]

Leave(how) ==
  /\ queue # <<>>
  /\ queue' = Tail(queue)
  /\ outcome' = [outcome EXCEPT ![Head(queue)] = how]

Complete == Leave("done")
GiveUp   == Leave("failed")

Next == (\E r \in Requests : Submit(r)) \/ Complete \/ GiveUp

Spec == Init /\ [][Next]_abstractVars

-----------------------------------------------------------------------------
(* Properties *)

QueueTypeOK ==
  /\ queue \in Seq(Requests)
  /\ outcome \in [Requests -> Outcomes]

\* The queue holds exactly the requests that were accepted and have not left,
\* each once.
QueueIsUnfinished ==
  /\ \A i, j \in 1..Len(queue) : queue[i] = queue[j] => i = j
  /\ \A r \in Requests :
       outcome[r] = "queued" <=> \E i \in 1..Len(queue) : queue[i] = r
=============================================================================
