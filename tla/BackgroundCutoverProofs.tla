------------------------ MODULE BackgroundCutoverProofs ------------------------
(***************************************************************************)
(* Proofs about BackgroundCutover for any number of API instances, jobs,   *)
(* deliveries and generations. The ledger row is what ties the two workers *)
(* together: it belongs to the delivery that runs (Running), keeps its     *)
(* nonce while the outcome is unknown (Kept), and an instance that was     *)
(* told to embed saw every row settled and the control document embedded,  *)
(* which no admission and no preparation gets past (EmbeddedHolds).        *)
(***************************************************************************)
EXTENDS BackgroundCutover, TLAPS

\* A row's nonce is that of a delivery of its job, which was admitted once.
NonceOfJob ==
    \A j \in Jobs : row[j].nonce # None =>
        JobOf[row[j].nonce] = j /\ request[row[j].nonce] # "idle"

\* A delivery that has not launched its child has left nothing behind.
Fresh ==
    \A r \in Requests :
        /\ request[r] \in {"idle", "admitted"} => r \notin begun
        /\ request[r] = "idle" => r \notin settled

Running == \A r \in Requests : request[r] \in {"admitted", "run"} => Owned(r)

Kept ==
    \A r \in Uncertain :
        row[JobOf[r]].nonce = r /\ row[JobOf[r]].status \in {"running", "needs_attention"}

EmbeddedHolds ==
    (\E i \in Apis : Embedded(i)) => control.state = "embedded" /\ \A j \in Jobs : Settled(j)

CutoverInv ==
    TypeOK /\ NonceOfJob /\ Fresh /\ Running /\ Kept /\ CompletedIsNotHeld /\ EmbeddedHolds

-----------------------------------------------------------------------------

\* Before anything has booted nothing is known but the older ledger.
LEMMA CutoverInit == Init => CutoverInv
<1> SUFFICES ASSUME Init PROVE CutoverInv
  OBVIOUS
<1>1. TypeOK
  <2>1. \A s \in {"absent", "needs_attention"} : [status |-> s, nonce |-> None, due |-> TRUE] \in Row
    BY DEF Row
  <2>2. row \in [Jobs -> Row]
    BY <2>1 DEF Init
  <2> QED BY <2>2, CutoverAssumption DEF Init, TypeOK, Control, ApiPhases, RequestPhases
<1> QED BY <1>1, CutoverAssumption
        DEF Init, CutoverInv, NonceOfJob, Fresh, Running, Kept, Uncertain, CompletedIsNotHeld,
            EmbeddedHolds, Embedded, Row

\* A transaction's outcome is counted within the bound.
LEMMA CutoverCharges ==
    ASSUME faults \in 0 .. MaxFaults, NEW outcome \in Outcomes, Charge(outcome)
    PROVE  faults' \in 0 .. MaxFaults
BY CutoverAssumption DEF Charge, Outcomes

\* What the three control transactions write is a control document.
LEMMA ControlTypes ==
    ASSUME TypeOK
    PROVE  activate_external \in Control /\ begin_embedded \in Control
BY DEF TypeOK, Control, activate_external, begin_embedded

\* A finish writes a row of the ledger, and touches nothing that it does not own (finish).
LEMMA FinishTypes ==
    ASSUME TypeOK, NEW r \in Requests, NEW s \in {"completed", "needs_attention"}
    PROVE  /\ finish(r, s) \in Row
           /\ finish(r, s).nonce = row[JobOf[r]].nonce
           /\ finish(r, s).due = row[JobOf[r]].due
           /\ finish(r, s).status = IF Owned(r) THEN s ELSE row[JobOf[r]].status
<1>1. row[JobOf[r]] \in Row
  BY CutoverAssumption DEF TypeOK
<1> QED BY <1>1 DEF finish, Row

\* Booting, polling, stopping: an instance's steps leave the ledger alone, and none
\* embeds but by a begin_embedded that found everything settled.
LEMMA ApiKeeps ==
    ASSUME CutoverInv, NEW i \in Apis, ApiBoots(i) \/ ApiStops(i) \/ ApiStep(i)
    PROVE  CutoverInv'
<1> USE DEF CutoverInv
<1>1. UNCHANGED <<row, request, begun, settled, prepares>>
  BY DEF ApiBoots, ApiStops, ApiStep, Activates, Begins, Waits, Watches, StartsLoops
<1>2. TypeOK'
  <2>1. control' \in Control
    BY ControlTypes
       DEF TypeOK, ApiBoots, ApiStops, ApiStep, Activates, Begins, Waits, Watches, StartsLoops,
           CommitControl
  <2>2. api' \in [Apis -> ApiPhases]
    BY DEF TypeOK, ApiBoots, ApiStops, ApiStep, Activates, Begins, Waits, Watches, StartsLoops,
           ApiGoto, ApiPhases
  <2>3. faults' \in 0 .. MaxFaults
    BY CutoverCharges
       DEF TypeOK, ApiBoots, ApiStops, ApiStep, Activates, Begins, Waits, Watches, StartsLoops,
           CommitControl
  <2> QED BY <1>1, <2>1, <2>2, <2>3 DEF TypeOK
<1>3. NonceOfJob' /\ Fresh' /\ Running' /\ Kept' /\ CompletedIsNotHeld'
  BY <1>1 DEF NonceOfJob, Fresh, Running, Owned, Kept, Uncertain, CompletedIsNotHeld
<1>4. EmbeddedHolds'
  <2>1. CASE ApiBoots(i) \/ ApiStops(i) \/ Watches(i) \/ StartsLoops(i)
    BY <1>1, <2>1
       DEF TypeOK, ApiBoots, ApiStops, Watches, StartsLoops, ApiGoto, EmbeddedHolds, Embedded, Settled
  <2>2. CASE Activates(i)
    BY <1>1, <2>2
       DEF TypeOK, Activates, CommitControl, activate_external, Prepared, ApiGoto, EmbeddedHolds,
           Embedded, Settled
  <2>3. CASE Begins(i) \/ Waits(i)
    <3>1. PICK outcome \in Outcomes, phase \in {"start", "wait", "unavailable"} :
            /\ control' = IF outcome = "failed" THEN control ELSE begin_embedded
            /\ api' = [api EXCEPT ![i] = phase]
            /\ phase = "start" => outcome = "ok" /\ EmbeddedReady
      BY <2>3 DEF Begins, Waits, CommitControl, ApiGoto
    <3>2. CASE EmbeddedReady
      <4>1. \A j \in Jobs : Settled(j)'
        BY <1>1, <3>2 DEF EmbeddedReady, Settled
      <4>2. begin_embedded.state = "embedded"
        BY <3>2 DEF begin_embedded
      <4>3. CASE outcome = "failed"
        <5>1. \A k \in Apis : Embedded(k)' => Embedded(k)
          BY <3>1, <4>3 DEF TypeOK, Embedded
        <5> QED BY <3>1, <4>1, <4>3, <5>1 DEF EmbeddedHolds
      <4>4. CASE outcome # "failed"
        BY <3>1, <4>1, <4>2, <4>4 DEF EmbeddedHolds
      <4> QED BY <4>3, <4>4
    <3>3. CASE ~EmbeddedReady
      <4>1. ~(\E k \in Apis : Embedded(k))
        BY <3>3 DEF EmbeddedReady, EmbeddedHolds
      <4>2. \A k \in Apis : Embedded(k)' => Embedded(k)
        BY <3>1, <3>3 DEF TypeOK, Embedded
      <4> QED BY <4>1, <4>2 DEF EmbeddedHolds
    <3> QED BY <3>2, <3>3
  <2> QED BY <2>1, <2>2, <2>3 DEF ApiStep
<1> QED BY <1>2, <1>3, <1>4

\* An admission takes a settled row of a job, under an active control document: no
\* instance embeds (admit).
LEMMA AdmitKeeps ==
    ASSUME CutoverInv, NEW r \in Requests, Admits(r)
    PROVE  CutoverInv'
<1> USE DEF CutoverInv
<1> DEFINE j == JobOf[r]
           new == [status |-> "running", nonce |-> r, due |-> FALSE]
<1>1. j \in Jobs /\ row[j] \in Row /\ r # None
  BY CutoverAssumption DEF TypeOK
<1>2. request[r] = "idle" /\ UNCHANGED <<control, api, prepares, begun, settled>>
  BY DEF Admits
<1>3. CASE row' = row /\ request' = [request EXCEPT ![r] = "answered"] /\ faults' \in 0 .. MaxFaults
  <2>1. TypeOK' /\ NonceOfJob' /\ Fresh'
    BY <1>2, <1>3 DEF TypeOK, RequestPhases, NonceOfJob, Fresh
  <2>2. Running' /\ Kept' /\ CompletedIsNotHeld'
    BY <1>2, <1>3 DEF TypeOK, Running, Owned, Kept, Uncertain, CompletedIsNotHeld
  <2>3. EmbeddedHolds'
    BY <1>2, <1>3 DEF EmbeddedHolds, Embedded, Settled
  <2> QED BY <2>1, <2>2, <2>3
<1>4. CASE /\ Admissible(j)
           /\ row' = [row EXCEPT ![j] = new]
           /\ \E phase \in {"admitted", "attention", "answered"} : request' = [request EXCEPT ![r] = phase]
           /\ faults' \in 0 .. MaxFaults
  <2>1. TypeOK'
    BY <1>1, <1>2, <1>4 DEF TypeOK, Row, RequestPhases
  <2>2. row[j].status \in {"absent", "completed"} /\ control.state = "external_active"
    BY <1>4 DEF Admissible, Active
  <2>3. NonceOfJob' /\ Fresh'
    BY <1>1, <1>2, <1>4 DEF TypeOK, NonceOfJob, Fresh
  <2>4. Running'
    BY <1>1, <1>2, <1>4, <2>2, CutoverAssumption DEF TypeOK, Running, Owned
  <2>5. Kept' /\ CompletedIsNotHeld'
    BY <1>1, <1>2, <1>4, <2>2, CutoverAssumption
       DEF TypeOK, Kept, Uncertain, CompletedIsNotHeld, Fresh
  <2>6. EmbeddedHolds'
    BY <1>2, <2>2 DEF EmbeddedHolds, Embedded
  <2> QED BY <2>1, <2>3, <2>4, <2>5, <2>6
<1>5. CASE Admissible(j)
  <2>1. PICK outcome \in Outcomes :
          /\ CommitRow(outcome, j, new)
          /\ \E phase \in IF outcome = "ok" THEN {"admitted", "attention"} ELSE {"answered"} :
                RequestGoto(r, phase)
    BY <1>5 DEF Admits
  <2>2. faults' \in 0 .. MaxFaults
    BY <2>1, CutoverCharges DEF CommitRow, TypeOK
  <2> QED BY <1>3, <1>4, <1>5, <2>1, <2>2 DEF CommitRow, RequestGoto
<1>6. CASE ~Admissible(j)
  BY <1>3, <1>6 DEF Admits, RequestGoto, TypeOK
<1> QED BY <1>5, <1>6

\* A delivery that was admitted launches, ends, completes or marks only what it owns
\* (task, finish).
LEMMA RequestKeeps ==
    ASSUME CutoverInv, NEW r \in Requests, RequestStep(r) \/ WorkerCrashes(r)
    PROVE  CutoverInv'
<1> USE DEF CutoverInv
<1> DEFINE j == JobOf[r]
<1>1. j \in Jobs /\ row[j] \in Row /\ r # None
  BY CutoverAssumption DEF TypeOK
<1>2. UNCHANGED <<control, api, prepares>>
  BY DEF RequestStep, Launches, ChildEnds, Completes, MarksAttention, WorkerCrashes
<1>3. CASE Launches(r)
  <2>1. TypeOK'
    BY <1>3 DEF Launches, RequestGoto, TypeOK, RequestPhases
  <2>2. NonceOfJob' /\ Fresh' /\ Running' /\ CompletedIsNotHeld' /\ EmbeddedHolds'
    BY <1>3
       DEF Launches, RequestGoto, TypeOK, NonceOfJob, Fresh, Running, Owned, CompletedIsNotHeld,
           EmbeddedHolds, Embedded, Settled
  <2>3. Kept'
    BY <1>3 DEF Launches, RequestGoto, Kept, Uncertain, Running, Owned
  <2> QED BY <2>1, <2>2, <2>3
<1>4. CASE ChildEnds(r) \/ WorkerCrashes(r)
  <2>1. PICK phase \in {"complete", "attention", "crashed"} : request' = [request EXCEPT ![r] = phase]
    BY <1>4 DEF ChildEnds, WorkerCrashes, RequestGoto
  <2>2. UNCHANGED <<row, faults, begun, settled>>
    BY <1>4 DEF ChildEnds, WorkerCrashes
  <2> QED BY <1>2, <2>1, <2>2
          DEF TypeOK, RequestPhases, NonceOfJob, Fresh, Running, Owned, Kept, Uncertain,
              CompletedIsNotHeld, EmbeddedHolds, Embedded, Settled
<1>5. ASSUME NEW s \in {"completed", "needs_attention"},
             request[r] \in {"complete", "attention"},
             row' = row \/ row' = [row EXCEPT ![j] = finish(r, s)],
             NEW phase \in {"answered", "attention"}, request' = [request EXCEPT ![r] = phase],
             begun' = begun,
             settled' = IF s = "completed" /\ Owned(r) /\ row' = [row EXCEPT ![j] = finish(r, s)]
                        THEN settled \cup {r} ELSE settled,
             faults' \in 0 .. MaxFaults
      PROVE  CutoverInv'
  <2> DEFINE new == finish(r, s)
  <2>1. /\ new \in Row
        /\ new.nonce = row[j].nonce
        /\ new.status = IF Owned(r) THEN s ELSE row[j].status
    BY FinishTypes
  <2> HIDE DEF new
  <2>2. TypeOK'
    BY <1>2, <1>5, <2>1 DEF TypeOK, RequestPhases, new
  <2>3. \A k \in Jobs : row'[k].nonce = row[k].nonce
    BY <1>1, <1>5, <2>1 DEF TypeOK, new
  <2>4. \A k \in Jobs : ~(k = j /\ Owned(r)) => row'[k].status = row[k].status
    BY <1>1, <1>5, <2>1 DEF TypeOK, new
  <2>5. Owned(r) => row'[j].status \in {"running", s}
    BY <1>1, <1>5, <2>1 DEF TypeOK, new, Owned
  <2>6. NonceOfJob' /\ Fresh'
    BY <1>5, <2>3 DEF TypeOK, NonceOfJob, Fresh
  <2>7. Running'
    <3> SUFFICES ASSUME NEW q \in Requests, request'[q] \in {"admitted", "run"} PROVE Owned(q)'
      BY DEF Running
    <3>1. q # r /\ Owned(q) /\ JobOf[q] \in Jobs
      BY <1>5, CutoverAssumption DEF TypeOK, Running
    <3>2. ~(JobOf[q] = j /\ Owned(r))
      BY <3>1 DEF Owned
    <3> QED BY <2>3, <2>4, <3>1, <3>2 DEF Owned
  <2>8. Kept'
    <3> SUFFICES ASSUME NEW q \in Uncertain'
                 PROVE  /\ row'[JobOf[q]].nonce = q
                        /\ row'[JobOf[q]].status \in {"running", "needs_attention"}
      BY DEF Kept
    <3>1. q \in Uncertain /\ q \in Requests /\ JobOf[q] \in Jobs
      BY <1>5, CutoverAssumption DEF Uncertain, TypeOK
    <3>2. CASE JobOf[q] = j /\ Owned(r)
      <4>1. q = r
        BY <3>1, <3>2 DEF Kept, Owned
      <4>2. row'[j].status # "completed"
        BY <1>1, <1>5, <2>1, <3>2, <4>1 DEF Uncertain, TypeOK, Owned, new
      <4> QED BY <2>3, <2>5, <3>1, <3>2, <4>1, <4>2 DEF Kept
    <3>3. CASE ~(JobOf[q] = j /\ Owned(r))
      BY <2>3, <2>4, <3>1, <3>3 DEF Kept
    <3> QED BY <3>2, <3>3
  <2>9. CompletedIsNotHeld'
    <3> SUFFICES ASSUME NEW q \in settled', row'[JobOf[q]].nonce = q
                 PROVE  row'[JobOf[q]].status = "completed"
      BY DEF CompletedIsNotHeld
    <3>1. q \in Requests /\ JobOf[q] \in Jobs
      BY <2>2, CutoverAssumption DEF TypeOK
    <3>2. CASE q \in settled
      <4>1. row[JobOf[q]].status = "completed"
        BY <2>3, <3>1, <3>2 DEF CompletedIsNotHeld
      <4> QED BY <2>4, <3>1, <4>1 DEF Owned
    <3>3. CASE q \notin settled
      BY <1>1, <1>5, <2>1, <3>3 DEF TypeOK, new
    <3> QED BY <3>2, <3>3
  <2>10. EmbeddedHolds'
    <3>1. \A k \in Jobs : Settled(k) => Settled(k)'
      BY <2>4 DEF Settled, Owned
    <3> QED BY <1>2, <3>1 DEF EmbeddedHolds, Embedded
  <2> QED BY <2>2, <2>6, <2>7, <2>8, <2>9, <2>10
<1>6. CASE Completes(r)
  <2>1. PICK outcome \in Outcomes :
          /\ CommitRow(outcome, j, finish(r, "completed"))
          /\ \E phase \in IF outcome = "ok" /\ Owned(r) THEN {"answered", "attention"} ELSE {"attention"} :
                RequestGoto(r, phase)
          /\ settled' = IF outcome # "failed" /\ Owned(r) THEN settled \cup {r} ELSE settled
    BY <1>6 DEF Completes
  <2>2. faults' \in 0 .. MaxFaults
    BY <2>1, CutoverCharges DEF CommitRow, TypeOK
  <2>3. PICK phase \in {"answered", "attention"} : request' = [request EXCEPT ![r] = phase]
    BY <2>1 DEF RequestGoto
  <2>4. Owned(r) => finish(r, "completed") # row[j]
    BY FinishTypes DEF Owned
  <2>5. Owned(r) => (outcome # "failed" <=> row' = [row EXCEPT ![j] = finish(r, "completed")])
    BY <1>1, <2>1, <2>4 DEF CommitRow, TypeOK
  <2>6. row' = row \/ row' = [row EXCEPT ![j] = finish(r, "completed")]
    BY <2>1 DEF CommitRow
  <2>7. request[r] = "complete" /\ begun' = begun
    BY <1>6 DEF Completes
  <2> QED BY <1>5, <2>1, <2>2, <2>3, <2>5, <2>6, <2>7
<1>7. CASE MarksAttention(r)
  <2>1. PICK outcome \in Outcomes : CommitRow(outcome, j, finish(r, "needs_attention"))
    BY <1>7 DEF MarksAttention
  <2>2. faults' \in 0 .. MaxFaults
    BY <2>1, CutoverCharges DEF CommitRow, TypeOK
  <2>3. row' = row \/ row' = [row EXCEPT ![j] = finish(r, "needs_attention")]
    BY <2>1 DEF CommitRow
  <2>4. /\ request[r] = "attention" /\ request' = [request EXCEPT ![r] = "answered"]
        /\ UNCHANGED <<begun, settled>>
    BY <1>7 DEF MarksAttention, RequestGoto
  <2> QED BY <1>5, <2>2, <2>3, <2>4
<1> QED BY <1>3, <1>4, <1>6, <1>7 DEF RequestStep

\* A slot that begins, and an operator who completes a row that nothing executes.
LEMMA RowKeeps ==
    ASSUME CutoverInv, NEW j \in Jobs, BecomesDue(j) \/ Reconciles(j)
    PROVE  CutoverInv'
<1> USE DEF CutoverInv
<1>1. row[j] \in Row
  BY DEF TypeOK
<1>2. UNCHANGED <<control, api, request, prepares, faults, begun>>
  BY DEF BecomesDue, Reconciles
<1>3. CASE BecomesDue(j)
  <2>1. TypeOK'
    BY <1>1, <1>3 DEF BecomesDue, TypeOK, Row
  <2>2. \A k \in Jobs : row'[k].nonce = row[k].nonce /\ row'[k].status = row[k].status
    BY <1>1, <1>3 DEF BecomesDue, TypeOK, Row
  <2>3. \A r \in Requests : JobOf[r] \in Jobs
    BY CutoverAssumption
  <2>4. settled' = settled /\ settled \subseteq Requests
    BY <1>3 DEF BecomesDue, TypeOK
  <2> QED BY <1>2, <2>1, <2>2, <2>3, <2>4
          DEF NonceOfJob, Fresh, Running, Owned, Kept, Uncertain, CompletedIsNotHeld,
              EmbeddedHolds, Embedded, Settled, TypeOK
<1>4. CASE Reconciles(j)
  <2>1. /\ row[j].status \in {"running", "needs_attention"}
        /\ \A r \in Requests : row[j].nonce = r => request[r] \notin {"admitted", "run"}
        /\ row' = [row EXCEPT ![j].status = "completed", ![j].due = FALSE]
        /\ settled' = settled \cup (Requests \cap {row[j].nonce})
    BY <1>4 DEF Reconciles
  <2>2. TypeOK'
    BY <1>1, <1>2, <2>1 DEF TypeOK, Row
  <2>3. /\ \A k \in Jobs : row'[k].nonce = row[k].nonce
        /\ \A k \in Jobs \ {j} : row'[k].status = row[k].status
        /\ row'[j].status = "completed"
    BY <1>1, <2>1 DEF TypeOK, Row
  <2>4. \A r \in Requests : JobOf[r] \in Jobs
    BY CutoverAssumption
  <2>5. NonceOfJob' /\ Fresh'
    BY <1>2, <2>1, <2>3, CutoverAssumption DEF NonceOfJob, Fresh, TypeOK
  <2>6. Running'
    BY <1>2, <2>1, <2>3, <2>4 DEF Running, Owned
  <2>7. Kept'
    BY <1>2, <2>1, <2>3, <2>4 DEF Kept, Uncertain, TypeOK
  <2>8. CompletedIsNotHeld'
    <3> SUFFICES ASSUME NEW q \in settled', row'[JobOf[q]].nonce = q
                 PROVE  row'[JobOf[q]].status = "completed"
      BY DEF CompletedIsNotHeld
    <3>1. q \in Requests /\ JobOf[q] \in Jobs
      BY <2>2, <2>4 DEF TypeOK
    <3>2. CASE JobOf[q] = j
      BY <2>3, <3>2
    <3>3. CASE JobOf[q] # j
      <4>1. row[j].nonce # q
        BY <3>1, <3>3, CutoverAssumption DEF NonceOfJob
      <4>2. q \in settled
        BY <2>1, <4>1
      <4> QED BY <2>3, <3>1, <3>3, <4>2 DEF CompletedIsNotHeld
    <3> QED BY <3>2, <3>3
  <2>9. EmbeddedHolds'
    BY <1>2, <2>3 DEF EmbeddedHolds, Embedded, Settled
  <2> QED BY <2>2, <2>5, <2>6, <2>7, <2>8, <2>9
<1> QED BY <1>3, <1>4

\* Every step of the API, the worker, the operator and time keeps the invariant.
LEMMA CutoverNext == CutoverInv /\ [Next]_vars => CutoverInv'
<1> SUFFICES ASSUME CutoverInv, [Next]_vars PROVE CutoverInv'
  OBVIOUS
<1> USE DEF CutoverInv
<1>1. CASE (\E g \in Generations : Prepare(g)) \/ LeaseExpires \/ UNCHANGED vars
  <2>1. UNCHANGED <<row, api, request, faults, begun, settled>>
    BY <1>1 DEF Prepare, LeaseExpires, vars
  <2>2. TypeOK'
    BY <1>1, CutoverAssumption DEF Prepare, LeaseExpires, vars, TypeOK, Control
  <2>3. (\E i \in Apis : Embedded(i)) => control'.state = control.state
    BY <1>1 DEF Prepare, LeaseExpires, vars, Embedded, TypeOK, Control
  <2> QED BY <2>1, <2>2, <2>3
          DEF NonceOfJob, Fresh, Running, Owned, Kept, Uncertain, CompletedIsNotHeld,
              EmbeddedHolds, Embedded, Settled
<1> QED BY <1>1, ApiKeeps, AdmitKeeps, RequestKeeps, RowKeeps DEF Next

\* The invariant holds of every behaviour of the hand-off.
LEMMA CutoverInvariance == Spec => []CutoverInv
BY CutoverInit, CutoverNext, PTL DEF Spec

\* The control document, the ledger rows and every handler keep their types, for any
\* number of instances, jobs, deliveries and generations.
THEOREM CutoverTypes == Spec => []TypeOK
<1>1. CutoverInv => TypeOK
  BY DEF CutoverInv
<1> QED BY <1>1, CutoverInvariance, PTL

\* The embedded loops never run, nor have been told that they may, while external work
\* is under way or its outcome is unknown (begin_embedded, admit, prepare_external).
THEOREM LoopsAreAlone == Spec => []EmbeddedIsAlone
<1>1. CutoverInv => EmbeddedIsAlone
  BY CutoverAssumption
     DEF CutoverInv, EmbeddedIsAlone, EmbeddedHolds, Kept, Settled, Uncertain, TypeOK
<1> QED BY <1>1, CutoverInvariance, PTL

\* A job whose outcome is unknown is not run again by any delivery (_admit_from_snapshot).
THEOREM NoReplay == Spec => []UncertainIsNotReplayed
<1>1. CutoverInv => UncertainIsNotReplayed
  BY DEF CutoverInv, UncertainIsNotReplayed, Kept
<1> QED BY <1>1, CutoverInvariance, PTL

\* A late attention mark never holds work whose completion is on record (finish).
THEOREM NoLateHold == Spec => []CompletedIsNotHeld
<1>1. CutoverInv => CompletedIsNotHeld
  BY DEF CutoverInv
<1> QED BY <1>1, CutoverInvariance, PTL

-----------------------------------------------------------------------------

\* Only a launch takes off, only a completion on record lands, and only an instance
\* that was told to embed starts its loops.
LEMMA WorkStep == CutoverInv /\ [Next]_vars => [Work!Next]_(Work!vars)
<1> SUFFICES ASSUME CutoverInv, [Next]_vars PROVE [Work!Next]_(Work!vars)
  OBVIOUS
<1> USE DEF CutoverInv, Work!Next, Work!vars, Work!StartLoops, Work!StopLoops, Work!TakeOff, Work!Land
<1> DEFINE Loops == {i \in Apis : api[i] = "loops"}
<1>1. ASSUME NEW i \in Apis, ApiBoots(i) \/ ApiStops(i) \/ ApiStep(i)
      PROVE  [Work!Next]_(Work!vars)
  <2>1. Uncertain' = Uncertain
    BY <1>1 DEF ApiBoots, ApiStops, ApiStep, Activates, Begins, Waits, Watches, StartsLoops, Uncertain
  <2>2. PICK phase \in ApiPhases : api' = [api EXCEPT ![i] = phase]
    BY <1>1 DEF ApiBoots, ApiStops, ApiStep, Activates, Begins, Waits, Watches, StartsLoops,
                ApiGoto, ApiPhases
  <2>3. CASE phase = "loops"
    <3>1. Embedded(i)
      BY <1>1, <2>2, <2>3
         DEF ApiBoots, ApiStops, ApiStep, Activates, Begins, Waits, Watches, StartsLoops,
             ApiGoto, Embedded, TypeOK
    <3>2. Uncertain = {}
      BY <3>1, CutoverAssumption DEF EmbeddedHolds, Kept, Settled, Uncertain, TypeOK
    <3>3. Loops' = Loops \cup {i}
      BY <2>2, <2>3 DEF TypeOK
    <3> QED BY <2>1, <3>2, <3>3
  <2>4. CASE phase # "loops"
    <3>1. Loops' = Loops \ {i}
      BY <2>2, <2>4 DEF TypeOK
    <3> QED BY <2>1, <3>1
  <2> QED BY <2>3, <2>4
<1>2. ASSUME NEW r \in Requests, Admits(r) \/ RequestStep(r) \/ WorkerCrashes(r)
      PROVE  [Work!Next]_(Work!vars)
  <2>1. Loops' = Loops
    BY <1>2 DEF Admits, RequestStep, Launches, ChildEnds, Completes, MarksAttention, WorkerCrashes
  <2>2. CASE Launches(r)
    <3>1. Owned(r) /\ r \notin begun /\ JobOf[r] \in Jobs
      BY <2>2, CutoverAssumption DEF Launches, Running, Fresh
    <3>2. r \notin settled
      BY <3>1 DEF CompletedIsNotHeld, Owned
    <3>3. Uncertain' = Uncertain \cup {r}
      BY <2>2, <3>2 DEF Launches, Uncertain
    <3>4. Loops = {}
      BY <3>1 DEF EmbeddedHolds, Embedded, Settled, Owned
    <3>5. \A s \in Uncertain : JobOf[s] # JobOf[r]
      BY <3>1 DEF Kept, Owned, Uncertain
    <3> QED BY <2>1, <3>3, <3>4, <3>5
  <2>3. CASE Completes(r)
    <3>1. begun' = begun /\ settled' \in {settled, settled \cup {r}}
      BY <2>3 DEF Completes
    <3>2. Uncertain' = Uncertain \/ Uncertain' = Uncertain \ {r}
      BY <3>1 DEF Uncertain
    <3> QED BY <2>1, <3>2
  <2>4. CASE Admits(r) \/ ChildEnds(r) \/ MarksAttention(r) \/ WorkerCrashes(r)
    <3>1. Uncertain' = Uncertain
      BY <2>4 DEF Admits, ChildEnds, MarksAttention, WorkerCrashes, Uncertain
    <3> QED BY <2>1, <3>1
  <2> QED BY <1>2, <2>2, <2>3, <2>4 DEF RequestStep
<1>3. ASSUME NEW j \in Jobs, BecomesDue(j) \/ Reconciles(j)
      PROVE  [Work!Next]_(Work!vars)
  <2>1. Loops' = Loops
    BY <1>3 DEF BecomesDue, Reconciles
  <2>2. CASE BecomesDue(j)
    <3>1. Uncertain' = Uncertain
      BY <2>2 DEF BecomesDue, Uncertain
    <3> QED BY <2>1, <3>1
  <2>3. CASE Reconciles(j)
    <3>1. row[j].nonce \in Requests \cup {None}
      BY DEF TypeOK, Row
    <3>2. CASE row[j].nonce \in Requests
      <4>1. Uncertain' = Uncertain \ {row[j].nonce}
        BY <2>3, <3>2 DEF Reconciles, Uncertain
      <4> QED BY <2>1, <3>2, <4>1
    <3>3. CASE row[j].nonce \notin Requests
      <4>1. Uncertain' = Uncertain
        BY <2>3, <3>3 DEF Reconciles, Uncertain
      <4> QED BY <2>1, <4>1
    <3> QED BY <3>2, <3>3
  <2> QED BY <1>3, <2>2, <2>3
<1>4. CASE (\E g \in Generations : Prepare(g)) \/ LeaseExpires \/ UNCHANGED vars
  BY <1>4 DEF Prepare, LeaseExpires, vars, Uncertain
<1> QED BY <1>1, <1>2, <1>3, <1>4 DEF Next

\* The hand-off implements what it promises: for any number of instances, jobs and
\* deliveries, the embedded loops and the external worker take turns.
THEOREM HandOffImplementsWork == Spec => WorkSpec
<1>1. Init => Work!Init
  BY DEF Init, Work!Init, Uncertain
<1> QED BY <1>1, CutoverInvariance, WorkStep, PTL DEF Spec, WorkSpec, Work!Spec
=============================================================================
