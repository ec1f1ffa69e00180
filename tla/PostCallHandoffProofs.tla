------------------------- MODULE PostCallHandoffProofs -------------------------
(***************************************************************************)
(* Proofs about PostCallHandoff for any number of calls, streams, sweepers *)
(* and operators, any page size and any number of faults. Two facts carry  *)
(* them: a row only moves on (Evolves), so that what a process has seen of *)
(* it remains true; and of all processes at most one has claimed a call    *)
(* without having begun its effects (ClaimedOnce).                         *)
(***************************************************************************)
EXTENDS PostCallHandoff, TLAPS

\* A process that deals with a call has one, and finishes it one of two ways.
WellPlaced ==
    \A p \in Procs :
        /\ proc[p].at \notin {"idle", "sweep", "done"} => proc[p].call \in Calls
        /\ proc[p].at = "finish" => proc[p].status \in {"completed", "needs_attention"}

\* A row that nobody has claimed has had no effects; one that is not there has no owner.
Fresh ==
    \A c \in Calls :
        /\ Status(c) \in {"absent", "pending"} => effects[c] = 0
        /\ Status(c) = "absent" => ~row[c].owned

ClaimedOnce ==
    \A p \in Procs : proc[p].at = "claimed" =>
        /\ effects[proc[p].call] = 0
        /\ Status(proc[p].call) \notin {"absent", "pending"}
        /\ \A q \in Procs : proc[q].at = "claimed" /\ proc[q].call = proc[p].call => q = p

Cleared == \A p \in Procs : proc[p].at \in {"claim", "claimed"} => Ready(proc[p].call)

\* What a process is about to mirror as settled is settled.
Mirrored ==
    \A p \in Procs :
        proc[p].at = "mirror" /\ proc[p].status \in {"completed", "acknowledged"} =>
            Status(proc[p].call) = proc[p].status

Claiming == Fresh /\ ClaimedOnce /\ Cleared /\ AtMostOnce /\ EffectsAreDue

Mirroring == Mirrored /\ MirrorNeverOverstates

HandoffInv == TypeOK /\ WellPlaced /\ Claiming /\ Mirroring

\* The statuses that may follow a status.
Later(status) ==
    CASE status = "absent"          -> {"absent", "pending"}
      [] status = "pending"         -> {"pending", "in_progress", "needs_attention"}
      [] status = "in_progress"     -> {"in_progress", "completed", "needs_attention"}
      [] status = "completed"       -> {"completed"}
      [] status = "needs_attention" -> {"needs_attention", "acknowledged"}
      [] status = "acknowledged"    -> {"acknowledged"}

Follows(old, new) ==
    /\ new \in Row
    /\ new.status \in Later(old.status)
    /\ old.status # "absent" => new.owned = old.owned
    /\ new.status = "absent" => ~new.owned

Evolves ==
    /\ row' \in [Calls -> Row]
    /\ \A c \in Calls : Follows(row[c], row'[c])

CallsEvolve ==
    /\ call' \in [Calls -> [ended : BOOLEAN, contractor : {"none", "ours", "other"}]]
    /\ \A c \in Calls :
         /\ call[c].ended => call'[c].ended
         /\ call[c].contractor = "ours" => call'[c].contractor = "ours"

-----------------------------------------------------------------------------

\* The outbox begins empty and everybody idle.
LEMMA HandoffInit == Init => HandoffInv
<1> SUFFICES ASSUME Init PROVE HandoffInv
  OBVIOUS
<1>1. TypeOK
  <2>1. call \in [Calls -> [ended : BOOLEAN, contractor : {"none", "ours", "other"}]]
    BY DEF Init
  <2>2. row \in [Calls -> Row]
    BY DEF Init, Row, Statuses
  <2>3. proc \in [Procs -> [at : Places, call : {None} \cup Calls, status : {"pending"} \cup Terminal]]
    BY DEF Init, Sweeping, Places
  <2>4. sweep \in [Sweepers -> [todo : SUBSET Calls, stale : BOOLEAN, held : BOOLEAN,
                               cursor : Continuation, next : Continuation]]
    BY DEF Init, Restarted, Start, Continuation
  <2>5. /\ mirror \in [Calls -> {"none", "pending"} \cup Terminal] /\ effects \in [Calls -> Nat]
        /\ late \subseteq Calls \X {"completed", "needs_attention"} /\ faults \in 0 .. MaxFaults
    BY PostCallAssumption DEF Init
  <2> QED BY <2>1, <2>2, <2>3, <2>4, <2>5 DEF TypeOK
<1>2. \A p \in Procs : proc[p].at \in {"idle", "done"}
  BY DEF Init, Sweeping
<1>3. WellPlaced /\ Claiming /\ Mirroring
  <2>1. /\ \A c \in Calls : effects[c] = 0 /\ row[c].status = "absent" /\ ~row[c].owned
        /\ \A c \in Calls : mirror[c] = "none"
    BY DEF Init
  <2>2. WellPlaced /\ ClaimedOnce /\ Cleared /\ Mirrored
    BY <1>2 DEF WellPlaced, ClaimedOnce, Cleared, Mirrored
  <2>3. Fresh /\ AtMostOnce /\ EffectsAreDue /\ MirrorNeverOverstates
    BY <2>1 DEF Fresh, AtMostOnce, EffectsAreDue, MirrorNeverOverstates, Status
  <2> QED BY <2>2, <2>3 DEF Claiming, Mirroring
<1> QED BY <1>1, <1>3 DEF HandoffInv

\* A row may stay as it is.
LEMMA FollowsItself ==
    ASSUME TypeOK, Fresh, NEW c \in Calls
    PROVE  Follows(row[c], row[c])
<1>1. row[c] \in Row
  BY DEF TypeOK
<1> QED BY <1>1 DEF Follows, Later, Row, Statuses, Terminal, Fresh, Status

\* Each of the callbacks moves its row on (_claim_transition, _finish_transition,
\* _attention_transition, quarantine_pending_handoff, _acknowledge_transition).
LEMMA TransitionsFollow ==
    ASSUME TypeOK, Fresh, NEW c \in Calls
    PROVE  /\ Follows(row[c], claim_transition(c))
           /\ Follows(row[c], attention_transition(c))
           /\ \A s \in {"completed", "needs_attention"} : Follows(row[c], finish_transition(c, s))
           /\ Status(c) = "pending" => Follows(row[c], [row[c] EXCEPT !.status = "needs_attention"])
           /\ Status(c) = "needs_attention" => Follows(row[c], [row[c] EXCEPT !.status = "acknowledged"])
           /\ Status(c) = "absent" => \A o \in BOOLEAN :
                Follows(row[c], [row[c] EXCEPT !.status = "pending", !.owned = o])
<1>1. row[c] \in Row
  BY DEF TypeOK
<1>2. Follows(row[c], row[c])
  BY FollowsItself
<1>3. Follows(row[c], claim_transition(c))
  BY <1>1, <1>2 DEF claim_transition, Status, Follows, Later, Row, Statuses, Terminal
<1>4. Follows(row[c], attention_transition(c))
  BY <1>1, <1>2 DEF attention_transition, Status, Follows, Later, Row, Statuses, Terminal
<1>5. \A s \in {"completed", "needs_attention"} : Follows(row[c], finish_transition(c, s))
  BY <1>1, <1>2 DEF finish_transition, Status, Follows, Later, Row, Statuses, Terminal
<1>6. /\ Status(c) = "pending" => Follows(row[c], [row[c] EXCEPT !.status = "needs_attention"])
      /\ Status(c) = "needs_attention" => Follows(row[c], [row[c] EXCEPT !.status = "acknowledged"])
      /\ Status(c) = "absent" => \A o \in BOOLEAN :
           Follows(row[c], [row[c] EXCEPT !.status = "pending", !.owned = o])
  BY <1>1 DEF Status, Follows, Later, Row, Statuses, Terminal
<1> QED BY <1>3, <1>4, <1>5, <1>6

\* One row that moves on, or none, and a fault that is counted.
LEMMA CommitEvolves ==
    ASSUME TypeOK, Fresh, NEW c \in Calls, NEW new, Follows(row[c], new),
           NEW outcome \in Outcomes, Commit(outcome, c, new)
    PROVE  Evolves /\ faults' \in 0 .. MaxFaults
<1>1. faults' \in 0 .. MaxFaults
  BY PostCallAssumption DEF Commit, Charge, TypeOK, Outcomes
<1>2. \A d \in Calls : Follows(row[d], row[d])
  BY FollowsItself
<1>3. row' \in [Calls -> Row]
  BY DEF Commit, Follows, TypeOK
<1>4. \A d \in Calls : Follows(row[d], row'[d])
  BY <1>2 DEF Commit, TypeOK
<1> QED BY <1>1, <1>3, <1>4 DEF Evolves

\* A row that stays as it is moves on.
LEMMA StillEvolves ==
    ASSUME TypeOK, Fresh, UNCHANGED row
    PROVE  Evolves
BY FollowsItself DEF Evolves, TypeOK

\* What is ready remains ready: a row keeps its owner, a call its end and contractor.
LEMMA ReadyStays ==
    ASSUME TypeOK, Fresh, Evolves, CallsEvolve, NEW c \in Calls, Ready(c)
    PROVE  Ready(c)'
BY DEF Evolves, Follows, CallsEvolve, Ready, Fresh, Status, TypeOK

\* Where a process goes on is no place where it deals with a call.
LEMMA HomeIsIdle ==
    ASSUME NEW p \in Procs
    PROVE  Home(p) \in {"idle", "sweep", "done"}
BY PostCallAssumption DEF Procs, Home

\* A step by which nobody comes to claim a call and no effects begin.
LEMMA ClaimingKept ==
    ASSUME HandoffInv, Evolves, CallsEvolve, UNCHANGED effects,
           \A p \in Procs : proc'[p].at \in {"claim", "claimed"} =>
                proc[p].at = proc'[p].at /\ proc[p].call = proc'[p].call
    PROVE  Claiming'
<1> USE DEF HandoffInv, Claiming
<1>1. Fresh'
  BY DEF Fresh, Status, Evolves, Follows, Later, TypeOK, Row, Statuses, Terminal
<1>2. ClaimedOnce'
  BY DEF ClaimedOnce, WellPlaced, Status, Evolves, Follows, Later, TypeOK, Row, Statuses, Terminal
<1>3. Cleared'
  BY ReadyStays DEF Cleared, WellPlaced
<1>4. AtMostOnce' /\ EffectsAreDue'
  BY ReadyStays DEF AtMostOnce, EffectsAreDue
<1> QED BY <1>1, <1>2, <1>3, <1>4

\* What is settled keeps its status.
LEMMA SettledKeeps ==
    ASSUME TypeOK, Evolves, NEW c \in Calls
    PROVE  /\ Status(c) \in {"completed", "acknowledged"} => Status(c)' = Status(c)
           /\ Status(c) = "needs_attention" => Status(c)' \in {"needs_attention", "acknowledged"}
BY DEF Evolves, Follows, Later, Status

\* A step that writes no mirror, and after which only what is settled awaits mirroring
\* as such.
LEMMA MirroringKept ==
    ASSUME HandoffInv, Evolves, UNCHANGED mirror,
           \A p \in Procs :
               proc'[p].at = "mirror" /\ proc'[p].status \in {"completed", "acknowledged"} =>
                  \/ proc'[p].call \in Calls /\ row'[proc'[p].call].status = proc'[p].status
                  \/ proc[p].at = "mirror" /\ proc'[p].call = proc[p].call /\ proc'[p].status = proc[p].status
    PROVE  Mirroring'
<1> USE DEF HandoffInv, Mirroring
<1>1. Mirrored'
  <2> SUFFICES ASSUME NEW p \in Procs, proc'[p].at = "mirror",
                      proc'[p].status \in {"completed", "acknowledged"}
               PROVE  row'[proc'[p].call].status = proc'[p].status
    BY DEF Mirrored, Status
  <2>1. CASE proc[p].at = "mirror" /\ proc'[p].call = proc[p].call /\ proc'[p].status = proc[p].status
    <3>1. proc[p].call \in Calls
      BY <2>1 DEF WellPlaced
    <3>2. Status(proc[p].call) = proc[p].status
      BY <2>1 DEF Mirrored
    <3> QED BY <2>1, <3>1, <3>2, SettledKeeps DEF Status
  <2> QED BY <2>1
<1>2. MirrorNeverOverstates'
  BY SettledKeeps DEF MirrorNeverOverstates
<1> QED BY <1>1, <1>2

Moves(p, place, c, status) ==
    proc' = [proc EXCEPT ![p] = [at |-> place, call |-> c, status |-> status]]

\* Going somewhere leaves a process its call.
LEMMA GotoMoves ==
    ASSUME TypeOK, NEW p \in Procs, NEW place
    PROVE  /\ Goto(p, place) => Moves(p, place, proc[p].call, proc[p].status)
           /\ \A status : MirrorThen(p, status) => Moves(p, "mirror", proc[p].call, status)
           /\ proc[p].call \in {None} \cup Calls
           /\ proc[p].status \in {"pending"} \cup Terminal
BY DEF TypeOK, Goto, MirrorThen, Moves

Sweep == [todo : SUBSET Calls, stale : BOOLEAN, held : BOOLEAN,
          cursor : Continuation, next : Continuation]

\* A process moves while rows and calls move on: the types are kept, and nobody else moves.
LEMMA MoveTypes ==
    ASSUME TypeOK, WellPlaced, Evolves, CallsEvolve,
           NEW p \in Procs, NEW place \in Places, NEW c \in {None} \cup Calls,
           NEW status \in {"pending"} \cup Terminal,
           Moves(p, place, c, status),
           place \notin {"idle", "sweep", "done"} => c \in Calls,
           place = "finish" => status \in {"completed", "needs_attention"},
           mirror' \in [Calls -> {"none", "pending"} \cup Terminal],
           effects' \in [Calls -> Nat],
           sweep' \in [Sweepers -> Sweep],
           late' \subseteq Calls \X {"completed", "needs_attention"},
           faults' \in 0 .. MaxFaults
    PROVE  /\ TypeOK' /\ WellPlaced'
           /\ proc'[p] = [at |-> place, call |-> c, status |-> status]
           /\ \A q \in Procs : q # p => proc'[q] = proc[q]
<1>1. /\ proc' \in [Procs -> [at : Places, call : {None} \cup Calls, status : {"pending"} \cup Terminal]]
      /\ proc'[p] = [at |-> place, call |-> c, status |-> status]
      /\ \A q \in Procs : q # p => proc'[q] = proc[q]
  BY DEF TypeOK, Moves
<1>2. TypeOK'
  BY <1>1 DEF TypeOK, Evolves, CallsEvolve, Sweep
<1>3. WellPlaced'
  BY <1>1 DEF WellPlaced
<1> QED BY <1>1, <1>2, <1>3

\* Unless the process comes to claim, and as long as it will mirror nothing as settled that
\* is not, everything else follows.
LEMMA MoveKeeps ==
    ASSUME HandoffInv, Evolves, CallsEvolve, UNCHANGED <<mirror, effects>>,
           NEW p \in Procs, NEW place \in Places \ {"claim", "claimed"}, NEW c \in {None} \cup Calls,
           NEW status \in {"pending"} \cup Terminal,
           Moves(p, place, c, status),
           place \notin {"idle", "sweep", "done"} => c \in Calls,
           place = "finish" => status \in {"completed", "needs_attention"},
           place = "mirror" /\ status \in {"completed", "acknowledged"} => row'[c].status = status,
           sweep' \in [Sweepers -> Sweep],
           late' \subseteq Calls \X {"completed", "needs_attention"},
           faults' \in 0 .. MaxFaults
    PROVE  HandoffInv'
<1> USE DEF HandoffInv
<1>1. /\ TypeOK' /\ WellPlaced'
      /\ proc'[p] = [at |-> place, call |-> c, status |-> status]
      /\ \A q \in Procs : q # p => proc'[q] = proc[q]
  <2>1. mirror' \in [Calls -> {"none", "pending"} \cup Terminal] /\ effects' \in [Calls -> Nat]
    BY DEF TypeOK
  <2> QED BY <2>1, MoveTypes
<1>2. Claiming'
  <2>1. \A q \in Procs : proc'[q].at \in {"claim", "claimed"} => proc'[q] = proc[q]
    BY <1>1
  <2> QED BY <2>1, ClaimingKept
<1>3. Mirroring'
  <2>1. proc'[p].at = place /\ proc'[p].call = c /\ proc'[p].status = status
    BY <1>1
  <2> QED BY <1>1, <2>1, MirroringKept
<1> QED BY <1>1, <1>2, <1>3

\* Rows and calls that stay as they are move on.
LEMMA StillMoves ==
    ASSUME HandoffInv, UNCHANGED <<row, call>>
    PROVE  Evolves /\ CallsEvolve
BY StillEvolves DEF CallsEvolve, TypeOK, HandoffInv, Claiming

\* A fault is counted within the bound.
LEMMA HandoffCharges ==
    ASSUME TypeOK, NEW outcome \in Outcomes, Charge(outcome)
    PROVE  faults' \in 0 .. MaxFaults
BY PostCallAssumption DEF Charge, TypeOK, Outcomes

\* Reads of the row, and the end of the work.
LEMMA LooksKeep ==
    ASSUME HandoffInv, NEW p \in Procs, GetsRow(p) \/ Works(p)
    PROVE  HandoffInv'
<1> USE DEF HandoffInv
<1>1. UNCHANGED <<row, call, mirror, sweep, late, effects>>
  BY DEF GetsRow, Works
<1>2. Evolves /\ CallsEvolve
  BY <1>1, StillMoves
<1>3. proc[p].call \in Calls
  BY DEF WellPlaced, GetsRow, Works
<1>4. faults' \in 0 .. MaxFaults
  BY HandoffCharges DEF GetsRow, Works, Outcomes, TypeOK
<1>5. sweep' \in [Sweepers -> Sweep] /\ late' \subseteq Calls \X {"completed", "needs_attention"}
  BY <1>1 DEF TypeOK, Sweep
<1>6. CASE GetsRow(p)
  <2>1. PICK place \in {"read", "idle", "sweep", "done"} : Goto(p, place)
    BY <1>6, HomeIsIdle DEF GetsRow
  <2> QED BY <1>1, <1>2, <1>3, <1>4, <1>5, <2>1, GotoMoves, MoveKeeps DEF Places
<1>7. CASE Works(p)
  <2>1. CASE Goto(p, "mark")
    BY <1>1, <1>2, <1>3, <1>4, <1>5, <2>1, GotoMoves, MoveKeeps DEF Places
  <2>2. CASE \E status \in {"completed", "needs_attention"} :
                proc' = [proc EXCEPT ![p].at = "finish", ![p].status = status]
    <3>1. PICK status \in {"completed", "needs_attention"} : Moves(p, "finish", proc[p].call, status)
      BY <2>2 DEF Moves, TypeOK
    <3> QED BY <1>1, <1>2, <1>3, <1>4, <1>5, <3>1, MoveKeeps DEF Places, Terminal
  <2> QED BY <1>7, <2>1, <2>2 DEF Works
<1> QED BY <1>6, <1>7

\* The decision to claim is taken for a ready call (run_post_call_handoff).
LEMMA ReadsKeep ==
    ASSUME HandoffInv, NEW p \in Procs, ReadsCall(p)
    PROVE  HandoffInv'
<1> USE DEF HandoffInv
<1> DEFINE c == proc[p].call
<1>1. UNCHANGED <<row, call, mirror, sweep, late, effects>>
  BY DEF ReadsCall
<1>2. Evolves /\ CallsEvolve
  BY <1>1, StillMoves
<1>3. c \in Calls
  BY DEF WellPlaced, ReadsCall
<1>4. faults' \in 0 .. MaxFaults
  BY HandoffCharges DEF ReadsCall, Outcomes, TypeOK
<1>5. /\ sweep' \in [Sweepers -> Sweep] /\ late' \subseteq Calls \X {"completed", "needs_attention"}
      /\ mirror' \in [Calls -> {"none", "pending"} \cup Terminal] /\ effects' \in [Calls -> Nat]
  BY <1>1 DEF TypeOK, Sweep
<1>6. PICK place \in {"unconfirmed", "mismatch", "claim", "idle", "sweep", "done"} :
         Goto(p, place) /\ (place = "claim" => Ready(c))
  <2>1. Unconfirmed(p, c) \in {"unconfirmed", "idle", "sweep", "done"}
    BY HomeIsIdle DEF Unconfirmed
  <2>2. /\ Decision(p, c) \in {"unconfirmed", "mismatch", "claim", "idle", "sweep", "done"}
        /\ Decision(p, c) = "claim" => Ready(c)
    BY <2>1 DEF Decision
  <2> QED BY <2>1, <2>2 DEF ReadsCall
<1>7. CASE place # "claim"
  BY <1>1, <1>2, <1>3, <1>4, <1>5, <1>6, <1>7, GotoMoves, MoveKeeps DEF Places
<1>8. CASE place = "claim"
  <2>1. Moves(p, "claim", c, proc[p].status) /\ proc[p].status \in {"pending"} \cup Terminal
    BY <1>6, <1>8, GotoMoves
  <2>2. /\ TypeOK' /\ WellPlaced'
        /\ proc'[p] = [at |-> "claim", call |-> c, status |-> proc[p].status]
        /\ \A q \in Procs : q # p => proc'[q] = proc[q]
    BY <1>2, <1>3, <1>4, <1>5, <2>1, MoveTypes DEF Places
  <2>3. proc'[p].at = "claim" /\ proc'[p].call = c
    BY <2>2
  <2>4. Ready(c)
    BY <1>6, <1>8
  <2>5. Claiming'
    <3>1. Fresh' /\ AtMostOnce' /\ EffectsAreDue'
      BY <1>1 DEF Claiming, Fresh, AtMostOnce, EffectsAreDue, Status, Ready
    <3>2. ClaimedOnce'
      BY <1>1, <2>2, <2>3 DEF Claiming, ClaimedOnce, Status
    <3>3. Cleared'
      BY <1>1, <2>2, <2>3, <2>4 DEF Claiming, Cleared, Ready
    <3> QED BY <3>1, <3>2, <3>3 DEF Claiming
  <2>6. Mirroring'
    BY <1>1, <1>2, <2>2, <2>3, MirroringKept
  <2> QED BY <2>2, <2>5, <2>6
<1> QED BY <1>7, <1>8

\* A claim that succeeds took the row from pending, so that nobody else has it and its
\* effects have not begun (claim_handoff).
LEMMA ClaimsKeep ==
    ASSUME HandoffInv, NEW p \in Procs, Claims(p)
    PROVE  HandoffInv'
<1> USE DEF HandoffInv
<1> DEFINE c == proc[p].call
<1>1. UNCHANGED <<call, mirror, sweep, late, effects>>
  BY DEF Claims
<1>2. c \in Calls
  BY DEF WellPlaced, Claims
<1>3. PICK outcome \in Outcomes :
         /\ Commit(outcome, c, claim_transition(c))
         /\ Goto(p, IF outcome = "ok" /\ Claimed(c) THEN "claimed" ELSE Home(p))
  BY DEF Claims
<1>4. Evolves /\ CallsEvolve /\ faults' \in 0 .. MaxFaults
  <2>1. Follows(row[c], claim_transition(c))
    BY <1>2, TransitionsFollow DEF Claiming
  <2>2. CallsEvolve
    BY <1>1 DEF CallsEvolve, TypeOK
  <2> QED BY <1>2, <1>3, <2>1, <2>2, CommitEvolves DEF Claiming
<1>5. /\ sweep' \in [Sweepers -> Sweep] /\ late' \subseteq Calls \X {"completed", "needs_attention"}
      /\ mirror' \in [Calls -> {"none", "pending"} \cup Terminal] /\ effects' \in [Calls -> Nat]
  BY <1>1 DEF TypeOK, Sweep
<1>6. CASE ~(outcome = "ok" /\ Claimed(c))
  <2>1. PICK place \in {"idle", "sweep", "done"} : Goto(p, place)
    BY <1>3, <1>6, HomeIsIdle
  <2> QED BY <1>1, <1>2, <1>4, <1>5, <2>1, GotoMoves, MoveKeeps DEF Places
<1>7. CASE outcome = "ok" /\ Claimed(c)
  <2>1. Status(c) = "pending" /\ row'[c].status = "in_progress"
    <3>1. row[c] \in Row
      BY <1>2 DEF TypeOK
    <3>2. Status(c) = "pending"
      BY <1>7, <3>1 DEF Claimed, claim_transition, Status, Row
    <3>3. row'[c] = claim_transition(c)
      BY <1>2, <1>3, <1>7 DEF Commit, TypeOK
    <3> QED BY <1>7, <3>2, <3>3 DEF Claimed
  <2>2. Moves(p, "claimed", c, proc[p].status) /\ proc[p].status \in {"pending"} \cup Terminal
    BY <1>3, <1>7, GotoMoves
  <2>3. /\ TypeOK' /\ WellPlaced'
        /\ proc'[p] = [at |-> "claimed", call |-> c, status |-> proc[p].status]
        /\ \A q \in Procs : q # p => proc'[q] = proc[q]
    BY <1>2, <1>4, <1>5, <2>2, MoveTypes DEF Places
  <2>4. proc'[p].at = "claimed" /\ proc'[p].call = c
    BY <2>3
  <2>5. \A q \in Procs : q # p /\ proc[q].at = "claimed" =>
            proc[q].call # c /\ proc[q].call \in Calls
    BY <2>1 DEF Claiming, ClaimedOnce, WellPlaced
  <2>6. effects[c] = 0 /\ Ready(c)
    BY <1>2, <2>1 DEF Claiming, Fresh, Cleared, Claims
  <2>7. Claiming'
    <3>1. Fresh'
      BY <1>1, <1>4 DEF Claiming, Fresh, Status, Evolves, Follows, Later, TypeOK, Row, Statuses, Terminal
    <3>2. AtMostOnce' /\ EffectsAreDue'
      BY <1>1, <1>4, ReadyStays DEF Claiming, AtMostOnce, EffectsAreDue
    <3>3. ClaimedOnce'
      <4>1. \A q \in Procs : q # p /\ proc'[q].at = "claimed" =>
                /\ effects'[proc'[q].call] = 0
                /\ row'[proc'[q].call].status \notin {"absent", "pending"}
                /\ proc'[q].call # c
        <5> SUFFICES ASSUME NEW q \in Procs, q # p, proc'[q].at = "claimed"
                     PROVE  /\ effects'[proc'[q].call] = 0
                            /\ row'[proc'[q].call].status \notin {"absent", "pending"}
                            /\ proc'[q].call # c
          OBVIOUS
        <5>1. proc'[q] = proc[q] /\ proc[q].call # c /\ proc[q].call \in Calls
          BY <2>3, <2>5
        <5>2. effects[proc[q].call] = 0 /\ row[proc[q].call].status \notin {"absent", "pending"}
          BY <5>1 DEF Claiming, ClaimedOnce, Status
        <5>3. row'[proc[q].call] = row[proc[q].call]
          BY <1>3, <5>1 DEF Commit, TypeOK
        <5> QED BY <1>1, <5>1, <5>2, <5>3
      <4>2. \A q, r \in Procs : q # p /\ r # p /\ proc'[q].at = "claimed" /\ proc'[r].at = "claimed"
                /\ proc'[r].call = proc'[q].call => r = q
        BY <2>3 DEF Claiming, ClaimedOnce
      <4> QED BY <1>1, <2>1, <2>4, <2>6, <4>1, <4>2 DEF ClaimedOnce, Status
    <3>4. Cleared'
      BY <1>2, <1>4, <2>3, <2>4, <2>6, ReadyStays DEF Claiming, Cleared, WellPlaced
    <3> QED BY <3>1, <3>2, <3>3, <3>4 DEF Claiming
  <2>8. Mirroring'
    BY <1>1, <1>4, <2>3, <2>4, MirroringKept
  <2> QED BY <2>3, <2>7, <2>8
<1> QED BY <1>6, <1>7

\* The only step that begins effects: the process that claimed the call begins them, and
\* nobody else has claimed it.
LEMMA BeginsKeep ==
    ASSUME HandoffInv, NEW p \in Procs, Begins(p)
    PROVE  HandoffInv'
<1> USE DEF HandoffInv
<1> DEFINE c == proc[p].call
<1>1. UNCHANGED <<row, call, mirror, sweep, late, faults>>
  BY DEF Begins
<1>2. Evolves /\ CallsEvolve
  BY <1>1, StillMoves
<1>3. c \in Calls /\ proc[p].at = "claimed"
  BY DEF WellPlaced, Begins
<1>4. /\ sweep' \in [Sweepers -> Sweep] /\ late' \subseteq Calls \X {"completed", "needs_attention"}
      /\ mirror' \in [Calls -> {"none", "pending"} \cup Terminal] /\ faults' \in 0 .. MaxFaults
  BY <1>1 DEF TypeOK, Sweep
<1>5. CASE Goto(p, "mark") /\ UNCHANGED effects
  <2>1. Moves(p, "mark", c, proc[p].status) /\ proc[p].status \in {"pending"} \cup Terminal
    BY <1>5, GotoMoves
  <2>2. "mark" \in Places \ {"claim", "claimed"}
    BY DEF Places
  <2> QED BY <1>1, <1>2, <1>3, <1>4, <1>5, <2>1, <2>2, MoveKeeps
<1>6. CASE Goto(p, "work") /\ effects' = [effects EXCEPT ![c] = @ + 1]
  <2>1. effects[c] = 0 /\ Ready(c) /\ Status(c) \notin {"absent", "pending"}
    BY <1>3 DEF Claiming, ClaimedOnce, Cleared
  <2>2. effects' \in [Calls -> Nat] /\ effects'[c] = 1 /\ \A d \in Calls : d # c => effects'[d] = effects[d]
    BY <1>3, <1>6, <2>1 DEF TypeOK
  <2>3. /\ TypeOK' /\ WellPlaced'
        /\ proc'[p] = [at |-> "work", call |-> c, status |-> proc[p].status]
        /\ \A q \in Procs : q # p => proc'[q] = proc[q]
    BY <1>2, <1>3, <1>4, <1>6, <2>2, GotoMoves, MoveTypes DEF Places
  <2>4. proc'[p].at = "work"
    BY <2>3
  <2>5. Claiming'
    <3>1. Fresh' /\ AtMostOnce' /\ EffectsAreDue'
      BY <1>1, <2>1, <2>2 DEF Claiming, Fresh, AtMostOnce, EffectsAreDue, Status, Ready
    <3>2. ClaimedOnce'
      <4>1. \A q \in Procs : proc'[q].at = "claimed" =>
                proc'[q] = proc[q] /\ proc[q].call # c /\ proc[q].call \in Calls
        BY <1>3, <2>3, <2>4 DEF Claiming, ClaimedOnce, WellPlaced
      <4> QED BY <1>1, <2>2, <4>1 DEF Claiming, ClaimedOnce, Status
    <3>3. Cleared'
      BY <1>1, <2>3, <2>4 DEF Claiming, Cleared, Ready
    <3> QED BY <3>1, <3>2, <3>3 DEF Claiming
  <2>6. Mirroring'
    BY <1>1, <1>2, <2>3, <2>4, MirroringKept
  <2> QED BY <2>3, <2>5, <2>6
<1> QED BY <1>3, <1>5, <1>6 DEF Begins

\* Quarantine, finish, mark: transactions whose answer decides where the process goes.
LEMMA TransactionsKeep ==
    ASSUME HandoffInv, NEW p \in Procs, Quarantines(p) \/ Finishes(p) \/ Marks(p)
    PROVE  HandoffInv'
<1> USE DEF HandoffInv
<1> DEFINE c == proc[p].call
<1>1. UNCHANGED <<call, mirror, sweep, late, effects>>
  BY DEF Quarantines, Finishes, Marks
<1>2. c \in Calls
  BY DEF WellPlaced, Quarantines, Finishes, Marks
<1>3. CallsEvolve
  BY <1>1 DEF CallsEvolve, TypeOK
<1>4. sweep' \in [Sweepers -> Sweep] /\ late' \subseteq Calls \X {"completed", "needs_attention"}
  BY <1>1 DEF TypeOK, Sweep
<1>5. CASE Quarantines(p)
  <2> DEFINE new == IF Quarantine(c, proc[p].at) THEN [row[c] EXCEPT !.status = "needs_attention"] ELSE row[c]
  <2>1. PICK outcome \in Outcomes :
          /\ Commit(outcome, c, new)
          /\ IF outcome = "ok" /\ Quarantine(c, proc[p].at)
             THEN MirrorThen(p, "needs_attention") ELSE Goto(p, Home(p))
    BY <1>5 DEF Quarantines
  <2>2. Follows(row[c], new)
    BY <1>2, TransitionsFollow, FollowsItself DEF Claiming, Quarantine
  <2>3. Evolves /\ faults' \in 0 .. MaxFaults
    BY <1>2, <2>1, <2>2, CommitEvolves DEF Claiming
  <2>4. CASE MirrorThen(p, "needs_attention")
    BY <1>1, <1>2, <1>3, <1>4, <2>3, <2>4, GotoMoves, MoveKeeps DEF Places, Terminal
  <2>5. CASE Goto(p, Home(p))
    BY <1>1, <1>2, <1>3, <1>4, <2>3, <2>5, HomeIsIdle, GotoMoves, MoveKeeps DEF Places
  <2> QED BY <2>1, <2>4, <2>5
<1>6. CASE Finishes(p)
  <2> DEFINE status == proc[p].status
  <2>1. PICK outcome \in Outcomes :
          /\ Commit(outcome, c, finish_transition(c, status))
          /\ Goto(p, IF Persisted(outcome, c, status) THEN "mirror" ELSE "mark")
    BY <1>6 DEF Finishes
  <2>2. status \in {"completed", "needs_attention"}
    BY <1>6 DEF Finishes, WellPlaced
  <2>3. Evolves /\ faults' \in 0 .. MaxFaults
    BY <1>2, <2>1, <2>2, TransitionsFollow, CommitEvolves DEF Claiming
  <2>4. CASE Persisted(outcome, c, status)
    <3>1. row'[c].status = status
      <4>1. row[c] \in Row /\ row'[c] = finish_transition(c, status)
        BY <1>2, <2>1, <2>4 DEF Commit, Persisted, TypeOK
      <4> QED BY <2>4, <4>1 DEF Persisted, FinishAccepted, finish_transition, Status, Row
    <3>2. Goto(p, "mirror")
      BY <2>1, <2>4
    <3>3. Moves(p, "mirror", c, status) /\ status \in {"pending"} \cup Terminal
      BY <3>2, GotoMoves
    <3>4. "mirror" \in Places \ {"claim", "claimed"}
      BY DEF Places
    <3> QED BY <1>1, <1>2, <1>3, <1>4, <2>3, <3>1, <3>3, <3>4, MoveKeeps
  <2>5. CASE ~Persisted(outcome, c, status)
    <3>1. Goto(p, "mark")
      BY <2>1, <2>5
    <3>2. Moves(p, "mark", c, status) /\ status \in {"pending"} \cup Terminal
      BY <3>1, GotoMoves
    <3>3. "mark" \in Places \ {"claim", "claimed"}
      BY DEF Places
    <3> QED BY <1>1, <1>2, <1>3, <1>4, <2>3, <3>2, <3>3, MoveKeeps
  <2> QED BY <2>4, <2>5
<1>7. CASE Marks(p)
  <2>1. Evolves /\ faults' \in 0 .. MaxFaults
    BY <1>2, <1>7, TransitionsFollow, CommitEvolves DEF Marks, Claiming
  <2>2. MirrorThen(p, "needs_attention")
    BY <1>7 DEF Marks
  <2> QED BY <1>1, <1>2, <1>3, <1>4, <2>1, <2>2, GotoMoves, MoveKeeps DEF Places, Terminal
<1> QED BY <1>5, <1>6, <1>7

\* What is written on the call was on the row, and remains there (_mirror_status).
LEMMA MirrorsKeep ==
    ASSUME HandoffInv, NEW p \in Procs, Mirrors(p)
    PROVE  HandoffInv'
<1> USE DEF HandoffInv
<1> DEFINE c == proc[p].call
<1>1. UNCHANGED <<row, call, sweep, late, effects>> /\ c \in Calls /\ proc[p].at = "mirror"
  BY DEF Mirrors, WellPlaced
<1>2. Evolves /\ CallsEvolve
  BY <1>1, StillMoves
<1>3. PICK outcome \in {"ok", "failed"} :
         Charge(outcome) /\ mirror' = IF outcome = "ok" THEN [mirror EXCEPT ![c] = proc[p].status] ELSE mirror
  BY DEF Mirrors
<1>4. PICK place \in {"idle", "sweep", "done"} : Goto(p, place)
  BY HomeIsIdle DEF Mirrors
<1>5. proc[p].status \in {"pending"} \cup Terminal
  BY DEF TypeOK
<1>6. mirror' \in [Calls -> {"none", "pending"} \cup Terminal]
  BY <1>3, <1>5 DEF TypeOK
<1>7. /\ TypeOK' /\ WellPlaced'
      /\ proc'[p] = [at |-> place, call |-> c, status |-> proc[p].status]
      /\ \A q \in Procs : q # p => proc'[q] = proc[q]
  <2>1. /\ sweep' \in [Sweepers -> Sweep] /\ late' \subseteq Calls \X {"completed", "needs_attention"}
        /\ effects' \in [Calls -> Nat] /\ faults' \in 0 .. MaxFaults
    BY <1>1, <1>3, HandoffCharges DEF TypeOK, Sweep, Outcomes
  <2> QED BY <1>1, <1>2, <1>4, <1>5, <1>6, <2>1, GotoMoves, MoveTypes DEF Places
<1>8. proc'[p].at = place
  BY <1>7
<1>9. Claiming'
  BY <1>1, <1>2, <1>7, <1>8, ClaimingKept
<1>10. Mirrored'
  BY <1>1, <1>7, <1>8 DEF Mirroring, Mirrored, Status
<1>11. MirrorNeverOverstates'
  <2>1. proc[p].status \in {"completed", "acknowledged"} => Status(c) = proc[p].status
    BY <1>1 DEF Mirroring, Mirrored
  <2> QED BY <1>1, <1>3, <2>1 DEF Mirroring, MirrorNeverOverstates, Status, TypeOK
<1> QED BY <1>7, <1>9, <1>10, <1>11 DEF Mirroring

\* A stream creates its row once (enqueue_handoff); an operator acknowledges what needs
\* attention (acknowledge_handoff).
LEMMA OpensKeep ==
    ASSUME HandoffInv, NEW p \in Procs, Enqueues(p) \/ Acknowledges(p)
    PROVE  HandoffInv'
<1> USE DEF HandoffInv
<1>1. UNCHANGED <<call, mirror, sweep, late, effects>>
  BY DEF Enqueues, Acknowledges
<1>2. CallsEvolve
  BY <1>1 DEF CallsEvolve, TypeOK
<1>3. sweep' \in [Sweepers -> Sweep] /\ late' \subseteq Calls \X {"completed", "needs_attention"}
  BY <1>1 DEF TypeOK, Sweep
<1>4. CASE Enqueues(p)
  <2>1. PICK c \in Calls, owned \in BOOLEAN, outcome \in Outcomes,
             place \in {"mirror", "get"}, status \in {"needs_attention", "pending"} :
          /\ Commit(outcome, c, IF Status(c) = "absent"
                                THEN [row[c] EXCEPT !.status = "pending", !.owned = owned] ELSE row[c])
          /\ Moves(p, place, c, status)
    BY <1>4 DEF Enqueues, Moves
  <2>2. Evolves /\ faults' \in 0 .. MaxFaults
    <3>1. Follows(row[c], IF Status(c) = "absent"
                          THEN [row[c] EXCEPT !.status = "pending", !.owned = owned] ELSE row[c])
      BY TransitionsFollow, FollowsItself DEF Claiming
    <3> QED BY <2>1, <3>1, CommitEvolves DEF Claiming
  <2>3. place \in Places \ {"claim", "claimed"} /\ status \in {"pending"} \cup Terminal
    BY DEF Places, Terminal
  <2> QED BY <1>1, <1>2, <1>3, <2>1, <2>2, <2>3, MoveKeeps
<1>5. CASE Acknowledges(p)
  <2>1. PICK c \in Calls, outcome \in Outcomes :
          /\ Status(c) = "needs_attention"
          /\ Commit(outcome, c, [row[c] EXCEPT !.status = "acknowledged"])
          /\ IF outcome = "ok" THEN Moves(p, "mirror", c, "acknowledged") ELSE proc' = proc
    BY <1>5 DEF Acknowledges, Moves
  <2>2. Evolves /\ faults' \in 0 .. MaxFaults
    BY <2>1, TransitionsFollow, CommitEvolves DEF Claiming
  <2>3. CASE outcome = "ok"
    <3>1. row'[c].status = "acknowledged"
      BY <2>1, <2>3 DEF Commit, TypeOK, Row
    <3>2. "mirror" \in Places \ {"claim", "claimed"} /\ "acknowledged" \in {"pending"} \cup Terminal
      BY DEF Places, Terminal
    <3> QED BY <1>1, <1>2, <1>3, <2>1, <2>2, <2>3, <3>1, <3>2, MoveKeeps
  <2>4. CASE outcome # "ok"
    <3>1. proc' = proc
      BY <2>1, <2>4
    <3>2. TypeOK' /\ WellPlaced'
      BY <1>1, <1>2, <2>2, <3>1 DEF TypeOK, WellPlaced, Evolves, CallsEvolve
    <3> QED BY <1>1, <1>2, <2>2, <3>1, <3>2, ClaimingKept, MirroringKept
  <2> QED BY <2>3, <2>4
<1> QED BY <1>4, <1>5

\* What is left of a sweep is a sweep.
LEMMA SweepTypes ==
    ASSUME TypeOK
    PROVE  /\ \A p \in Procs : Abandoned(p) \in [Sweepers -> Sweep]
           /\ \A s \in Sweepers : Raised(s) \in [Sweepers -> Sweep]
           /\ sweep \in [Sweepers -> Sweep]
           /\ \A s \in Sweepers : Restarted(sweep[s].next, sweep[s].held) \in Sweep
<1>1. sweep \in [Sweepers -> Sweep]
  BY DEF TypeOK, Sweep
<1>2. \A k \in Continuation : \A h \in BOOLEAN :
         Restarted(k, h) \in Sweep /\ [Restarted(k, h) EXCEPT !.stale = TRUE] \in Sweep
  BY DEF Restarted, Sweep
<1>3. /\ Start \in Continuation
      /\ \A s \in Sweepers : sweep[s].cursor \in Continuation /\ sweep[s].next \in Continuation
                             /\ sweep[s].held \in BOOLEAN /\ Held(s) \in BOOLEAN
  BY <1>1 DEF Sweep, Start, Continuation, Held
<1>4. \A p \in Procs : Abandoned(p) \in [Sweepers -> Sweep]
  BY <1>1, <1>2, <1>3 DEF Abandoned
<1>5. \A s \in Sweepers : Raised(s) \in [Sweepers -> Sweep]
  BY <1>1, <1>2, <1>3 DEF Raised
<1> QED BY <1>1, <1>2, <1>3, <1>4, <1>5

\* Cancelled or crashed: the process goes away, the rows stay.
LEMMA DeathsKeep ==
    ASSUME HandoffInv, NEW p \in Procs, Cancelled(p) \/ Crashes(p)
    PROVE  HandoffInv'
<1> USE DEF HandoffInv
<1>1. UNCHANGED <<row, call, mirror, effects>> /\ sweep' \in [Sweepers -> Sweep]
  BY SweepTypes DEF Cancelled, Crashes
<1>2. Evolves /\ CallsEvolve
  BY <1>1, StillMoves
<1>3. faults' \in 0 .. MaxFaults
  BY HandoffCharges DEF Cancelled, Crashes, Outcomes
<1>4. late' \subseteq Calls \X {"completed", "needs_attention"}
  BY DEF Cancelled, Crashes, TypeOK, WellPlaced
<1>5. PICK place \in {"mark", "idle", "sweep", "done"} :
         Goto(p, place) /\ (place = "mark" => proc[p].call \in Calls)
  BY HomeIsIdle DEF Cancelled, Crashes, WellPlaced
<1>6. place \in Places \ {"claim", "claimed"}
  BY DEF Places
<1>7. Moves(p, place, proc[p].call, proc[p].status) /\ proc[p].call \in {None} \cup Calls
      /\ proc[p].status \in {"pending"} \cup Terminal
  BY <1>5, GotoMoves
<1> QED BY <1>1, <1>2, <1>3, <1>4, <1>5, <1>6, <1>7, MoveKeeps

\* Pages hold calls, and cursors are calls.
LEMMA PageTypes ==
    ASSUME NEW s \in Sweepers, NEW k \in {None} \cup Calls
    PROVE  /\ Page(k) \cup Wrapped(s, k) \subseteq Calls /\ NextCursor(s, k) \in {None} \cup Calls
           /\ InProgress(s) \subseteq Calls /\ Last(InProgress(s)) \in {None} \cup Calls
<1>1. \A status : \A l : With(status) \subseteq Calls /\ After(status, l) \subseteq Calls
  BY DEF With, After
<1>2. Page(k) \subseteq Calls /\ Wrapped(s, k) \subseteq Calls /\ InProgress(s) \subseteq Calls
  BY <1>1, PostCallAssumption DEF Page, Wrapped, First, InProgress
<1>3. \A S \in SUBSET Calls : Last(S) \in {None} \cup Calls
  BY DEF Last
<1> QED BY <1>2, <1>3 DEF NextCursor

\* A sweeper that goes on to its next document, ends its sweep, or lists the first page.
LEMMA SweepsMove ==
    ASSUME HandoffInv, NEW s \in Sweepers,
           ListsPending(s) \/ TakesNext(s) \/ ListingFails(s) \/ SweepEnds(s)
    PROVE  HandoffInv'
<1> USE DEF HandoffInv
<1>1. UNCHANGED <<row, call, mirror, late, effects>>
  BY DEF ListsPending, TakesNext, ListingFails, SweepEnds
<1>2. Evolves /\ CallsEvolve
  BY <1>1, StillMoves
<1>3. s \in Procs /\ proc[s].status \in {"pending"} \cup Terminal /\ proc[s].call \in {None} \cup Calls
  BY DEF Procs, TypeOK
<1>4. /\ sweep \in [Sweepers -> Sweep] /\ sweep[s] \in Sweep
      /\ late' \subseteq Calls \X {"completed", "needs_attention"}
      /\ faults' \in 0 .. MaxFaults
  <2>1. UNCHANGED faults \/ \E outcome \in Outcomes : Charge(outcome)
    BY DEF ListsPending, TakesNext, ListingFails, SweepEnds, Outcomes
  <2> QED BY <1>1, <2>1, SweepTypes, HandoffCharges DEF TypeOK
<1>5. CASE ListsPending(s)
  <2>1. sweep' \in [Sweepers -> Sweep]
    <3> DEFINE k    == sweep[s].cursor.pending
               next == [sweep[s].cursor EXCEPT !.pending = NextCursor(s, k)]
    <3>1. sweep[s].cursor \in Continuation /\ k \in {None} \cup Calls
      BY <1>4 DEF Sweep, Continuation
    <3>2. next \in Continuation /\ Page(k) \cup Wrapped(s, k) \in SUBSET Calls
      BY <3>1, PageTypes DEF Continuation
    <3>3. [todo |-> Page(k) \cup Wrapped(s, k), stale |-> FALSE, held |-> FALSE,
           cursor |-> IF s \in Workers THEN sweep[s].cursor ELSE next, next |-> next] \in Sweep
      BY <3>1, <3>2 DEF Sweep
    <3> QED BY <1>4, <1>5, <3>3 DEF ListsPending
  <2>2. Moves(s, "sweep", proc[s].call, proc[s].status)
    BY <1>3, <1>5, GotoMoves DEF ListsPending
  <2>3. "sweep" \in Places \ {"claim", "claimed"}
    BY DEF Places
  <2> QED BY <1>1, <1>2, <1>3, <1>4, <2>1, <2>2, <2>3, MoveKeeps
<1>6. CASE TakesNext(s)
  <2>1. PICK c \in sweep[s].todo, place \in {"reclaim", "get"} :
          /\ sweep' = [sweep EXCEPT ![s].todo = @ \ {c}]
          /\ proc' = [proc EXCEPT ![s] = [at |-> place, call |-> c, status |-> @.status]]
    BY <1>6 DEF TakesNext
  <2>2. c \in Calls /\ sweep' \in [Sweepers -> Sweep]
    BY <1>4, <2>1 DEF Sweep
  <2>3. Moves(s, place, c, proc[s].status)
    BY <1>3, <2>1 DEF Moves
  <2>4. place \in Places \ {"claim", "claimed"}
    BY DEF Places
  <2> QED BY <1>1, <1>2, <1>3, <1>4, <2>2, <2>3, <2>4, MoveKeeps
<1>7. CASE ListingFails(s) \/ SweepEnds(s)
  <2>1. sweep' \in [Sweepers -> Sweep]
    BY <1>4, <1>7, SweepTypes DEF ListingFails, SweepEnds
  <2>2. Moves(s, "idle", proc[s].call, proc[s].status)
    BY <1>3, <1>7, GotoMoves DEF ListingFails, SweepEnds
  <2>3. "idle" \in Places \ {"claim", "claimed"}
    BY DEF Places
  <2> QED BY <1>1, <1>2, <1>3, <1>4, <2>1, <2>2, <2>3, MoveKeeps
<1> QED BY <1>5, <1>6, <1>7

\* The second pass of a sweep, over the rows in progress.
LEMMA ReclaimsKeep ==
    ASSUME HandoffInv, NEW s \in Sweepers, Reclaims(s) \/ Rechecks(s)
    PROVE  HandoffInv'
<1> USE DEF HandoffInv
<1> DEFINE c == proc[s].call
<1>1. UNCHANGED <<call, mirror, late, effects>>
  BY DEF Reclaims, Rechecks
<1>2. s \in Procs /\ c \in Calls /\ proc[s].status \in {"pending"} \cup Terminal
  BY DEF Procs, TypeOK, WellPlaced, Reclaims, Rechecks
<1>3. CallsEvolve /\ late' \subseteq Calls \X {"completed", "needs_attention"}
  BY <1>1 DEF CallsEvolve, TypeOK
<1>4. sweep' \in [Sweepers -> Sweep]
  BY SweepTypes DEF Reclaims, Rechecks
<1>5. Evolves /\ faults' \in 0 .. MaxFaults
  <2>1. CASE Reclaims(s)
    <3>1. PICK outcome \in Outcomes : Commit(outcome, c, claim_transition(c))
      BY <2>1 DEF Reclaims
    <3> QED BY <1>2, <3>1, TransitionsFollow, CommitEvolves DEF Claiming
  <2>2. CASE Rechecks(s)
    <3>1. UNCHANGED row /\ \E outcome \in Outcomes : Charge(outcome)
      BY <2>2 DEF Rechecks, Outcomes
    <3> QED BY <3>1, StillEvolves, HandoffCharges DEF Claiming
  <2> QED BY <2>1, <2>2
<1>6. CASE MirrorThen(s, "needs_attention")
  <2>1. Moves(s, "mirror", c, "needs_attention")
    BY <1>2, <1>6, GotoMoves
  <2>2. "mirror" \in Places \ {"claim", "claimed"} /\ "needs_attention" \in {"pending"} \cup Terminal
    BY DEF Places, Terminal
  <2> QED BY <1>1, <1>2, <1>3, <1>4, <1>5, <2>1, <2>2, MoveKeeps
<1>7. CASE \E place \in {"recheck", "sweep", "idle"} : Goto(s, place)
  <2>1. PICK place \in {"recheck", "sweep", "idle"} : Moves(s, place, c, proc[s].status)
    BY <1>2, <1>7, GotoMoves
  <2>2. place \in Places \ {"claim", "claimed"}
    BY DEF Places
  <2> QED BY <1>1, <1>2, <1>3, <1>4, <1>5, <2>1, <2>2, MoveKeeps
<1>8. MirrorThen(s, "needs_attention") \/ \E place \in {"recheck", "sweep", "idle"} : Goto(s, place)
  BY DEF Reclaims, Rechecks
<1> QED BY <1>6, <1>7, <1>8

\* A row that runs out, ages, or is finished late moves on.
LEMMA TimeEvolves ==
    ASSUME HandoffInv, \/ FinishesLate
                       \/ \E c \in Calls : LeaseExpires(c) \/ Ages(c) \/ CallEnds(c) \/ CallIsBound(c)
    PROVE  Evolves /\ CallsEvolve
<1> USE DEF HandoffInv
<1>1. \A d \in Calls : Follows(row[d], row[d])
  BY FollowsItself DEF Claiming
<1>2. CASE FinishesLate
  <2>1. PICK l \in late : row' = [row EXCEPT ![l[1]] = finish_transition(l[1], l[2])] /\ UNCHANGED call
    BY <1>2 DEF FinishesLate
  <2>2. l[1] \in Calls /\ l[2] \in {"completed", "needs_attention"}
    BY DEF TypeOK
  <2>3. Follows(row[l[1]], finish_transition(l[1], l[2]))
    BY <2>2, TransitionsFollow DEF Claiming
  <2>4. row' \in [Calls -> Row]
    BY <2>1, <2>2, <2>3 DEF TypeOK, Follows
  <2>5. \A d \in Calls : row'[d] = IF d = l[1] THEN finish_transition(l[1], l[2]) ELSE row[d]
    BY <2>1, <2>2 DEF TypeOK
  <2>6. Evolves
    BY <1>1, <2>3, <2>4, <2>5 DEF Evolves
  <2> QED BY <2>1, <2>6 DEF CallsEvolve, TypeOK
<1>3. ASSUME NEW c \in Calls, LeaseExpires(c) \/ Ages(c)
      PROVE  Evolves /\ CallsEvolve
  <2>1. row[c] \in Row
    BY DEF TypeOK
  <2>2. PICK new \in {[row[c] EXCEPT !.leased = FALSE], [row[c] EXCEPT !.aged = TRUE]} :
           row' = [row EXCEPT ![c] = new]
    BY <1>3 DEF LeaseExpires, Ages, TypeOK
  <2>3. new \in Row /\ Follows(row[c], new)
    BY <1>1, <2>1, <2>2 DEF Follows, Row
  <2>4. row' \in [Calls -> Row] /\ \A d \in Calls : row'[d] = IF d = c THEN new ELSE row[d]
    BY <2>2, <2>3 DEF TypeOK
  <2>5. Evolves
    BY <1>1, <2>3, <2>4 DEF Evolves
  <2> QED BY <1>3, <2>5 DEF LeaseExpires, Ages, CallsEvolve, TypeOK
<1>4. ASSUME NEW c \in Calls, CallEnds(c) \/ CallIsBound(c)
      PROVE  Evolves /\ CallsEvolve
  <2>1. call[c] \in [ended : BOOLEAN, contractor : {"none", "ours", "other"}]
    BY DEF TypeOK
  <2>2. PICK new \in {[call[c] EXCEPT !.ended = TRUE], [call[c] EXCEPT !.contractor = "ours"]} :
           call' = [call EXCEPT ![c] = new] /\ UNCHANGED row
    BY <1>4 DEF CallEnds, CallIsBound, TypeOK
  <2>3. /\ new \in [ended : BOOLEAN, contractor : {"none", "ours", "other"}]
        /\ call[c].ended => new.ended
        /\ call[c].contractor = "ours" => new.contractor = "ours"
    BY <2>1, <2>2
  <2>4. CallsEvolve
    BY <2>2, <2>3 DEF CallsEvolve, TypeOK
  <2> QED BY <2>2, <2>4, StillEvolves DEF Claiming
<1> QED BY <1>2, <1>3, <1>4

\* Where no process moves, the invariant is kept.
LEMMA TimeKeeps ==
    ASSUME HandoffInv,
           \/ FinishesLate
           \/ \E c \in Calls : LeaseExpires(c) \/ Ages(c) \/ CallEnds(c) \/ CallIsBound(c)
           \/ \E s \in Sweepers : ListsInProgress(s) \/ Reconciles(s)
           \/ UNCHANGED vars
    PROVE  HandoffInv'
<1> USE DEF HandoffInv
<1>1. UNCHANGED <<mirror, proc, effects, faults>>
  BY DEF FinishesLate, LeaseExpires, Ages, CallEnds, CallIsBound, ListsInProgress, Reconciles, vars
<1>2. Evolves /\ CallsEvolve
  <2>1. CASE (\E s \in Sweepers : ListsInProgress(s) \/ Reconciles(s)) \/ UNCHANGED vars
    <3>1. UNCHANGED <<row, call>>
      BY <2>1 DEF ListsInProgress, Reconciles, vars
    <3> QED BY <3>1, StillMoves
  <2> QED BY <2>1, TimeEvolves
<1>3. sweep' \in [Sweepers -> Sweep]
  <2>1. sweep \in [Sweepers -> Sweep]
    BY SweepTypes
  <2>2. ASSUME NEW s \in Sweepers, ListsInProgress(s)
        PROVE  sweep' \in [Sweepers -> Sweep]
    <3>1. sweep[s] \in Sweep /\ sweep[s].next \in Continuation /\ InProgress(s) \in SUBSET Calls
      BY <2>1, PageTypes DEF Sweep
    <3>2. \A k \in {None} \cup Calls : [sweep[s].next EXCEPT !.in_progress = k] \in Continuation
      BY <3>1 DEF Continuation
    <3>3. PICK k \in {None} \cup Calls :
             sweep' = [sweep EXCEPT ![s].todo = InProgress(s), ![s].stale = TRUE, ![s].next.in_progress = k]
      BY <2>2, PageTypes DEF ListsInProgress
    <3>4. [sweep[s] EXCEPT !.todo = InProgress(s), !.stale = TRUE, !.next.in_progress = k] \in Sweep
      BY <3>1, <3>2 DEF Sweep
    <3>5. sweep' = [sweep EXCEPT ![s] = [sweep[s] EXCEPT !.todo = InProgress(s), !.stale = TRUE,
                                                      !.next.in_progress = k]]
      BY <2>1, <3>3
    <3> QED BY <2>1, <3>4, <3>5
  <2>3. ASSUME NEW s \in Sweepers, Reconciles(s)
        PROVE  sweep' \in [Sweepers -> Sweep]
    BY <2>1, <2>3 DEF Reconciles, Sweep
  <2> QED BY <2>1, <2>2, <2>3 DEF FinishesLate, LeaseExpires, Ages, CallEnds, CallIsBound, vars
<1>4. late' \subseteq Calls \X {"completed", "needs_attention"}
  BY DEF TypeOK, FinishesLate, LeaseExpires, Ages, CallEnds, CallIsBound, ListsInProgress, Reconciles, vars
<1>5. TypeOK' /\ WellPlaced'
  BY <1>1, <1>2, <1>3, <1>4 DEF TypeOK, WellPlaced, Evolves, CallsEvolve, Sweep
<1> QED BY <1>1, <1>2, <1>5, ClaimingKept, MirroringKept

\* Every step keeps the invariant.
LEMMA HandoffNext == HandoffInv /\ [Next]_vars => HandoffInv'
<1> SUFFICES ASSUME HandoffInv, [Next]_vars PROVE HandoffInv'
  OBVIOUS
<1>1. ASSUME NEW p \in Procs,
             Enqueues(p) \/ Acknowledges(p) \/ RunStep(p) \/ Cancelled(p) \/ Crashes(p)
      PROVE  HandoffInv'
  <2>1. CASE RunStep(p)
    BY <2>1, LooksKeep, ReadsKeep, TransactionsKeep, ClaimsKeep, BeginsKeep, MirrorsKeep DEF RunStep
  <2> QED BY <1>1, <2>1, OpensKeep, DeathsKeep
<1>2. ASSUME NEW s \in Sweepers, SweepStep(s)
      PROVE  HandoffInv'
  BY <1>2, SweepsMove, ReclaimsKeep, TimeKeeps DEF SweepStep
<1> QED BY <1>1, <1>2, TimeKeeps DEF Next

\* HandoffInv is an invariant of the outbox.
THEOREM HandoffInvariance == Spec => []HandoffInv
<1>1. Init => HandoffInv
  BY HandoffInit
<1>2. HandoffInv /\ [Next]_vars => HandoffInv'
  BY HandoffNext
<1> QED BY <1>1, <1>2, PTL DEF Spec

\* Every variable keeps its type.
THEOREM HandoffTypes == Spec => []TypeOK
<1>1. HandoffInv => TypeOK
  BY DEF HandoffInv
<1> QED BY <1>1, HandoffInvariance, PTL

\* The effects of a call are begun at most once (claim_handoff).
THEOREM EffectsAtMostOnce == Spec => []AtMostOnce
<1>1. HandoffInv => AtMostOnce
  BY DEF HandoffInv, Claiming
<1> QED BY <1>1, HandoffInvariance, PTL

\* They are begun only for a call that is over and for its own contractor
\* (run_post_call_handoff).
THEOREM EffectsOnlyWhenDue == Spec => []EffectsAreDue
<1>1. HandoffInv => EffectsAreDue
  BY DEF HandoffInv, Claiming
<1> QED BY <1>1, HandoffInvariance, PTL

\* The mirror on the call never says more than the row (_mirror_status).
THEOREM MirrorIsHonest == Spec => []MirrorNeverOverstates
<1>1. HandoffInv => MirrorNeverOverstates
  BY DEF HandoffInv, Mirroring
<1> QED BY <1>1, HandoffInvariance, PTL

\* Every step moves rows and calls on.
LEMMA NextEvolves == HandoffInv /\ [Next]_vars => Evolves
<1> SUFFICES ASSUME HandoffInv, [Next]_vars PROVE Evolves
  OBVIOUS
<1> USE DEF HandoffInv, Claiming
<1>1. CASE UNCHANGED row
  BY <1>1, StillEvolves
<1>2. ASSUME NEW c \in Calls, NEW outcome \in Outcomes, NEW new, Commit(outcome, c, new),
             Follows(row[c], new)
      PROVE  Evolves
  BY <1>2, CommitEvolves
<1>3. ASSUME NEW p \in Procs, Enqueues(p)
      PROVE  Evolves
  <2>1. PICK c \in Calls, owned \in BOOLEAN, outcome \in Outcomes :
          Commit(outcome, c, IF Status(c) = "absent"
                             THEN [row[c] EXCEPT !.status = "pending", !.owned = owned] ELSE row[c])
    BY <1>3 DEF Enqueues
  <2>2. Follows(row[c], IF Status(c) = "absent"
                        THEN [row[c] EXCEPT !.status = "pending", !.owned = owned] ELSE row[c])
    BY TransitionsFollow, FollowsItself
  <2> QED BY <1>2, <2>1, <2>2
<1>4. ASSUME NEW p \in Procs, Acknowledges(p)
      PROVE  Evolves
  BY <1>2, <1>4, TransitionsFollow DEF Acknowledges
<1>5. ASSUME NEW p \in Procs, Quarantines(p)
      PROVE  Evolves
  <2> DEFINE c == proc[p].call
             new == IF Quarantine(c, proc[p].at) THEN [row[c] EXCEPT !.status = "needs_attention"] ELSE row[c]
  <2>1. c \in Calls /\ \E outcome \in Outcomes : Commit(outcome, c, new)
    BY <1>5 DEF Quarantines, WellPlaced
  <2>2. Follows(row[c], new)
    BY <2>1, TransitionsFollow, FollowsItself DEF Quarantine
  <2> QED BY <1>2, <2>1, <2>2
<1>6. ASSUME NEW p \in Procs, Claims(p) \/ Marks(p) \/ Reclaims(p)
      PROVE  Evolves
  <2>1. proc[p].call \in Calls
    BY <1>6 DEF Claims, Marks, Reclaims, WellPlaced
  <2> QED BY <1>2, <1>6, <2>1, TransitionsFollow DEF Claims, Marks, Reclaims
<1>7. ASSUME NEW p \in Procs, Finishes(p)
      PROVE  Evolves
  <2>1. proc[p].call \in Calls /\ proc[p].status \in {"completed", "needs_attention"}
    BY <1>7 DEF Finishes, WellPlaced
  <2> QED BY <1>2, <1>7, <2>1, TransitionsFollow DEF Finishes
<1>8. CASE FinishesLate \/ \E c \in Calls : LeaseExpires(c) \/ Ages(c) \/ CallEnds(c) \/ CallIsBound(c)
  BY <1>8, TimeEvolves
<1>9. ASSUME NEW p \in Procs, RunStep(p) \/ Cancelled(p) \/ Crashes(p)
      PROVE  Evolves
  BY <1>1, <1>5, <1>6, <1>7, <1>9
  DEF RunStep, GetsRow, ReadsCall, Begins, Works, Mirrors, Cancelled, Crashes
<1>10. ASSUME NEW s \in Sweepers, SweepStep(s)
       PROVE  Evolves
  <2>1. s \in Procs
    BY DEF Procs
  <2> QED BY <1>1, <1>6, <1>10, <2>1
          DEF SweepStep, ListsPending, TakesNext, ListsInProgress, ListingFails, SweepEnds, Rechecks
<1>11. ASSUME NEW s \in Sweepers, Reconciles(s)
       PROVE  Evolves
  BY <1>1, <1>11 DEF Reconciles
<1> QED BY <1>1, <1>3, <1>4, <1>8, <1>9, <1>10, <1>11 DEF Next, vars

\* What is settled stays settled (_finish_transition, _attention_transition).
THEOREM SettledForGood == Spec => SettledStays
<1>1. HandoffInv /\ Evolves =>
        \A c \in Calls :
          /\ Status(c) \in {"completed", "acknowledged"} => row'[c].status = Status(c)
          /\ Status(c) = "needs_attention" => row'[c].status \in {"needs_attention", "acknowledged"}
  BY SettledKeeps DEF HandoffInv, Status
<1> QED BY <1>1, NextEvolves, HandoffInvariance, PTL DEF Spec, SettledStays

\* A process that runs a call, or gives it up, has claimed it, and the row shows that
\* somebody has.
Underway ==
    \A p \in Procs :
        proc[p].at \in {"work", "finish", "mark"} => Status(proc[p].call) \notin {"absent", "pending"}

\* Nobody comes to run a call, or to give it up, but from a claim of it.
Onward ==
    \A p \in Procs : proc'[p].at \in {"work", "finish", "mark"} =>
        /\ proc[p].at \in {"claimed", "work", "finish", "mark"}
        /\ proc'[p].call = proc[p].call

\* A process that goes to any other place, or comes from a claim.
LEMMA OnwardGoes ==
    ASSUME TypeOK, NEW p \in Procs, NEW place, NEW c, NEW status, Moves(p, place, c, status),
           place \in {"work", "finish", "mark"} =>
               proc[p].at \in {"claimed", "work", "finish", "mark"} /\ c = proc[p].call
    PROVE  Onward
BY DEF TypeOK, Moves, Onward

\* The steps of a process that runs a call.
LEMMA RunsOnward ==
    ASSUME HandoffInv, NEW p \in Procs, RunStep(p) \/ Cancelled(p) \/ Crashes(p)
    PROVE  Onward
<1> USE DEF HandoffInv
<1>1. \A place : Goto(p, place) /\
        (place \in {"work", "finish", "mark"} => proc[p].at \in {"claimed", "work", "finish", "mark"})
          => Onward
  BY GotoMoves, OnwardGoes
<1>2. \A status : MirrorThen(p, status) => Onward
  BY GotoMoves, OnwardGoes
<1>3. Home(p) \in {"idle", "sweep", "done"}
  BY HomeIsIdle
<1>4. CASE GetsRow(p)
  BY <1>1, <1>3, <1>4 DEF GetsRow
<1>5. CASE ReadsCall(p)
  BY <1>1, <1>3, <1>5 DEF ReadsCall, Decision, Unconfirmed
<1>6. CASE Quarantines(p)
  BY <1>1, <1>2, <1>3, <1>6 DEF Quarantines
<1>7. CASE Claims(p)
  BY <1>1, <1>3, <1>7 DEF Claims
<1>8. CASE Begins(p)
  BY <1>1, <1>8 DEF Begins
<1>9. CASE Works(p)
  <2>1. CASE Goto(p, "mark")
    BY <1>1, <1>9, <2>1 DEF Works
  <2>2. CASE \E status \in {"completed", "needs_attention"} :
                proc' = [proc EXCEPT ![p].at = "finish", ![p].status = status]
    <3>1. PICK status \in {"completed", "needs_attention"} : Moves(p, "finish", proc[p].call, status)
      BY <2>2 DEF Moves, TypeOK
    <3> QED BY <1>9, <3>1, OnwardGoes DEF Works
  <2> QED BY <1>9, <2>1, <2>2 DEF Works
<1>10. CASE Finishes(p)
  BY <1>1, <1>10 DEF Finishes
<1>11. CASE Marks(p) \/ Mirrors(p)
  BY <1>1, <1>2, <1>3, <1>11 DEF Marks, Mirrors
<1>12. CASE Cancelled(p) \/ Crashes(p)
  BY <1>1, <1>3, <1>12 DEF Cancelled, Crashes
<1> QED BY <1>4, <1>5, <1>6, <1>7, <1>8, <1>9, <1>10, <1>11, <1>12 DEF RunStep

\* And all the others.
LEMMA NextOnward ==
    ASSUME HandoffInv, [Next]_vars
    PROVE  Onward
<1> USE DEF HandoffInv
<1>1. CASE UNCHANGED proc
  BY <1>1 DEF Onward
<1>2. ASSUME NEW p \in Procs, Enqueues(p) \/ Acknowledges(p)
      PROVE  Onward
  <2>1. \/ UNCHANGED proc
        \/ \E c \in Calls, place \in {"get", "mirror"} : \E status : Moves(p, place, c, status)
    BY <1>2 DEF Enqueues, Acknowledges, Moves
  <2> QED BY <1>1, <2>1, OnwardGoes
<1>3. ASSUME NEW s \in Sweepers, SweepStep(s)
      PROVE  Onward
  <2>1. s \in Procs
    BY DEF Procs
  <2>2. \/ UNCHANGED proc
        \/ MirrorThen(s, "needs_attention")
        \/ \E place \in {"sweep", "idle", "recheck"} : Goto(s, place)
        \/ \E c, status : \E place \in {"reclaim", "get"} : Moves(s, place, c, status)
    BY <1>3 DEF SweepStep, ListsPending, TakesNext, ListsInProgress, ListingFails, SweepEnds, Reclaims, Rechecks, Moves
  <2> QED BY <1>1, <2>1, <2>2, GotoMoves, OnwardGoes
<1>4. CASE FinishesLate \/ \E c \in Calls : LeaseExpires(c) \/ Ages(c) \/ CallEnds(c) \/ CallIsBound(c)
  BY <1>1, <1>4 DEF FinishesLate, LeaseExpires, Ages, CallEnds, CallIsBound
<1>5. ASSUME NEW s \in Sweepers, Reconciles(s)
      PROVE  Onward
  BY <1>1, <1>5 DEF Reconciles
<1> QED BY <1>1, <1>2, <1>3, <1>4, <1>5, RunsOnward DEF Next, vars

\* Underway is an invariant.
LEMMA UnderwayInvariance == Spec => []Underway
<1>1. Init => Underway
  BY DEF Init, Sweeping, Underway
<1>2. HandoffInv /\ Underway /\ [Next]_vars => Underway'
  <2> SUFFICES ASSUME HandoffInv, Underway, [Next]_vars,
                      NEW p \in Procs, proc'[p].at \in {"work", "finish", "mark"}
               PROVE  row'[proc'[p].call].status \notin {"absent", "pending"}
    BY DEF Underway, Status
  <2>1. Onward /\ Evolves
    BY NextOnward, NextEvolves
  <2>2. proc'[p].call = proc[p].call /\ proc[p].at \in {"claimed", "work", "finish", "mark"}
    BY <2>1 DEF Onward
  <2>3. proc[p].call \in Calls /\ row[proc[p].call].status \notin {"absent", "pending"}
    BY <2>2 DEF HandoffInv, WellPlaced, Claiming, ClaimedOnce, Underway, Status
  <2>4. row[proc[p].call] \in Row
    BY <2>3 DEF HandoffInv, TypeOK
  <2> QED BY <2>1, <2>2, <2>3, <2>4 DEF Evolves, Follows, Later, Row, Statuses, Terminal
<1> QED BY <1>1, <1>2, HandoffInvariance, PTL DEF Spec

\* What a step may do to a row that is pending and ready.
Spared ==
    \A c \in Calls : Status(c) = "pending" /\ Ready(c) => row'[c].status \in {"pending", "in_progress"}

\* A transaction that does not settle a pending row, or only one that is not ready.
LEMMA CommitSpares ==
    ASSUME TypeOK, NEW c \in Calls, NEW new, NEW outcome \in Outcomes, Commit(outcome, c, new),
           Status(c) = "pending" /\ Ready(c) => new.status \in {"pending", "in_progress"}
    PROVE  Spared
BY DEF Commit, Spared, TypeOK, Status

\* Nothing settles a pending row but a quarantine, and a quarantine reads again whether the
\* row is ready.
LEMMA NextSpares ==
    ASSUME HandoffInv, Underway, [Next]_vars
    PROVE  Spared
<1> USE DEF HandoffInv
<1>1. CASE UNCHANGED row
  BY <1>1 DEF Spared, Status
<1>2. ASSUME NEW p \in Procs, Enqueues(p)
      PROVE  Spared
  <2>1. PICK c \in Calls, owned \in BOOLEAN, outcome \in Outcomes :
          Commit(outcome, c, IF Status(c) = "absent"
                             THEN [row[c] EXCEPT !.status = "pending", !.owned = owned] ELSE row[c])
    BY <1>2 DEF Enqueues
  <2>2. Status(c) = "pending" =>
          (IF Status(c) = "absent"
           THEN [row[c] EXCEPT !.status = "pending", !.owned = owned] ELSE row[c]).status = "pending"
    BY DEF Status
  <2> QED BY <2>1, <2>2, CommitSpares
<1>3. ASSUME NEW p \in Procs, Acknowledges(p)
      PROVE  Spared
  BY <1>3, CommitSpares DEF Acknowledges
<1>4. ASSUME NEW p \in Procs, Quarantines(p)
      PROVE  Spared
  <2>1. proc[p].call \in Calls /\ proc[p].at \in {"unconfirmed", "mismatch"}
    BY <1>4 DEF Quarantines, WellPlaced
  <2>2. Ready(proc[p].call) => ~Quarantine(proc[p].call, proc[p].at)
    BY <2>1 DEF Quarantine, Ready
  <2> QED BY <1>4, <2>1, <2>2, CommitSpares DEF Quarantines, Status
<1>5. ASSUME NEW p \in Procs, Claims(p) \/ Reclaims(p)
      PROVE  Spared
  <2>1. proc[p].call \in Calls /\ row[proc[p].call] \in Row
    BY <1>5 DEF Claims, Reclaims, WellPlaced, TypeOK
  <2>2. Status(proc[p].call) = "pending" => claim_transition(proc[p].call).status = "in_progress"
    BY <2>1 DEF claim_transition, Status, Row
  <2> QED BY <1>5, <2>1, <2>2, CommitSpares DEF Claims, Reclaims
<1>6. ASSUME NEW p \in Procs, Finishes(p) \/ Marks(p)
      PROVE  Spared
  <2>1. proc[p].call \in Calls /\ Status(proc[p].call) # "pending"
    BY <1>6 DEF Finishes, Marks, WellPlaced, Underway
  <2> QED BY <1>6, <2>1, CommitSpares DEF Finishes, Marks
<1>7. CASE FinishesLate
  <2>1. PICK l \in late : row' = [row EXCEPT ![l[1]] = finish_transition(l[1], l[2])]
    BY <1>7 DEF FinishesLate
  <2>2. Status(l[1]) = "pending" => finish_transition(l[1], l[2]) = row[l[1]]
    BY DEF finish_transition, Status
  <2>3. \A c \in Calls : row'[c] = IF c = l[1] THEN finish_transition(l[1], l[2]) ELSE row[c]
    BY <2>1 DEF TypeOK
  <2> QED BY <2>2, <2>3 DEF Spared, Status
<1>8. ASSUME NEW c \in Calls, LeaseExpires(c) \/ Ages(c)
      PROVE  Spared
  <2>1. row[c] \in Row
    BY DEF TypeOK
  <2>2. PICK new \in {[row[c] EXCEPT !.leased = FALSE], [row[c] EXCEPT !.aged = TRUE]} :
           row' = [row EXCEPT ![c] = new]
    BY <1>8 DEF LeaseExpires, Ages, TypeOK
  <2>3. new.status = Status(c)
    BY <2>1, <2>2 DEF Row, Status
  <2> QED BY <2>2, <2>3 DEF Spared, Status, TypeOK
<1>9. ASSUME NEW p \in Procs, RunStep(p) \/ Cancelled(p) \/ Crashes(p)
      PROVE  Spared
  BY <1>1, <1>4, <1>5, <1>6, <1>9
  DEF RunStep, GetsRow, ReadsCall, Begins, Works, Mirrors, Cancelled, Crashes
<1>10. ASSUME NEW s \in Sweepers, SweepStep(s)
       PROVE  Spared
  <2>1. s \in Procs
    BY DEF Procs
  <2> QED BY <1>1, <1>5, <1>10, <2>1
          DEF SweepStep, ListsPending, TakesNext, ListsInProgress, ListingFails, SweepEnds, Rechecks
<1>11. CASE \E c \in Calls : CallEnds(c) \/ CallIsBound(c)
  BY <1>1, <1>11 DEF CallEnds, CallIsBound
<1>12. ASSUME NEW s \in Sweepers, Reconciles(s)
       PROVE  Spared
  BY <1>1, <1>12 DEF Reconciles
<1> QED BY <1>1, <1>2, <1>3, <1>7, <1>8, <1>9, <1>10, <1>11, <1>12 DEF Next, vars

\* Work that could be done is not put aside (quarantine_pending_handoff,
\* mark_handoff_needs_attention).
THEOREM ReadyIsKept == Spec => ReadyIsNotQuarantined
<1>1. HandoffInv /\ Underway /\ [Next]_vars => Spared
  BY NextSpares
<1> QED BY <1>1, HandoffInvariance, UnderwayInvariance, PTL DEF Spec, ReadyIsNotQuarantined, Spared
=============================================================================
