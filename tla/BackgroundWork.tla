----------------------------- MODULE BackgroundWork -----------------------------
(***************************************************************************)
(* What the cutover promises, whoever runs the background jobs: the loops  *)
(* embedded in the API and the external worker never work at the same      *)
(* time, and external work of unknown outcome is neither repeated nor      *)
(* followed by the loops.                                                  *)
(***************************************************************************)
CONSTANTS Apis, Requests, JobOf

VARIABLES
    loops,    \* API instances whose embedded loops run
    flights   \* external executions that are under way, or whose outcome is unknown

vars == <<loops, flights>>

Init == loops = {} /\ flights = {}

StartLoops(i) ==
    /\ flights = {}
    /\ loops' = loops \cup {i}
    /\ UNCHANGED flights

StopLoops(i) ==
    /\ loops' = loops \ {i}
    /\ UNCHANGED flights

TakeOff(r) ==
    /\ loops = {}
    /\ \A s \in flights : JobOf[s] # JobOf[r]
    /\ flights' = flights \cup {r}
    /\ UNCHANGED loops

\* By a completion on record, or by an operator.
Land(r) ==
    /\ flights' = flights \ {r}
    /\ UNCHANGED loops

Next ==
    \/ \E i \in Apis : StartLoops(i) \/ StopLoops(i)
    \/ \E r \in Requests : TakeOff(r) \/ Land(r)

Spec == Init /\ [][Next]_vars
=============================================================================
