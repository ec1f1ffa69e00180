--------------------------- MODULE MCPostCallHandoff ---------------------------
(* Two histories: one call whose streams close, with a sweeper and an        *)
(* operator ("closing"), and an outbox of two calls that streams have filled *)
(* and left, which the sweeper has to empty ("left"); each with the worker   *)
(* (w1) and with the embedded loop (l1). Where the worker sweeps, one stream *)
(* closes, where the loop does, two.                                         *)
EXTENDS PostCallHandoff, TLC

CONSTANTS s1, s2, w1, l1, o1

VARIABLE history

LeftInit ==
    /\ row \in [Calls -> [status : {"pending"}, owned : {TRUE},
                          aged : {FALSE}, leased : {FALSE}]]
    /\ call \in [Calls -> [ended : BOOLEAN, contractor : {"ours"}]]
    /\ mirror = [c \in Calls |-> "none"]
    /\ \E external \in BOOLEAN : proc = Sweeping(external)
    /\ sweep = [s \in Sweepers |-> Restarted(Start, FALSE)]
    /\ late = {}
    /\ effects = [c \in Calls |-> 0]
    /\ faults = 0

MCInit ==
    \/ history = "closing" /\ Init /\ call[2].contractor = "none"
    \/ history = "left" /\ LeftInit

Worker == proc[w1].at # "done"

\* Nothing happens to the second call. The streams are alike: s1 is the one that closes first.
Closing ==
    /\ UNCHANGED <<row[2], call[2]>>
    /\ \A p \in Procs : proc'[p].call \in {None, 1}
    /\ Worker \/ proc[s1].at = "idle" => proc'[s2].at = "idle"

Left == \A p \in Streams \cup Operators : UNCHANGED proc[p]

MCNext ==
    /\ Next
    /\ history = "closing" => Closing
    /\ history = "left" => Left
    /\ UNCHANGED history

MCSpec == MCInit /\ [][MCNext]_<<history, vars>> /\ Fairness
=============================================================================
