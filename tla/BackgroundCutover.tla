--------------------------- MODULE BackgroundCutover ---------------------------
(***************************************************************************)
(* The hand-off of the background jobs between the loops embedded in the   *)
(* API (src/app/main.py) and the private external worker                   *)
(* (src/app/worker_main.py), by one control document and one ledger row    *)
(* per job (src/app/db/background_jobs.py).                                *)
(*                                                                         *)
(* Every store operation is one Firestore transaction: it may commit, fail *)
(* before it commits, or commit and lose its answer. API instances come    *)
(* and go, and the scheduler may deliver one job to two workers at once.   *)
(***************************************************************************)
EXTENDS Naturals, FiniteSets

CONSTANTS
    Apis,         \* API instances of the staging service
    ExternalApis, \* those configured with BACKGROUND_WORKER_MODE=external
    Jobs,         \* fixed job names; each has one ledger row
    Requests,     \* scheduler deliveries; an admission's nonce is named by its delivery
    JobOf,        \* the job each delivery asks for
    Generations,  \* cutover generations an operator may prepare
    Generation,   \* the generation the worker and the external API are deployed with
    None,         \* an absent field
    MaxPrepares,  \* bound on prepared cutovers
    MaxFaults     \* bound on transactions that fail or lose their answer

ASSUME CutoverAssumption ==
    /\ ExternalApis \subseteq Apis
    /\ JobOf \in [Requests -> Jobs]
    /\ Generation \in Generations
    /\ None \notin Requests \cup Generations
    /\ MaxPrepares \in Nat
    /\ MaxFaults \in Nat

VARIABLES
    control,   \* private_background_worker_control/cutover
    row,       \* private_background_jobs/{job}
    api,       \* where each API instance is in _configure_background_workers
    request,   \* where each delivery is in the worker's task handler
    prepares,  \* cutovers prepared so far
    faults,    \* transactions that failed or lost their answer so far
    begun,     \* history: deliveries whose child process was launched
    settled    \* history: deliveries whose completion is on record

vars == <<control, row, api, request, prepares, faults, begun, settled>>

Control ==
    [ state      : {"absent", "embedded", "external_requested", "external_active",
                    "external_draining"},
      generation : {None} \cup Generations,
      lease      : {"none", "running", "expired"} ]

Row ==
    [ status : {"absent", "running", "completed", "needs_attention"},
      nonce  : {None} \cup Requests,
      due    : BOOLEAN ]

ApiPhases == {"down", "activate", "begin", "watch", "wait", "start", "loops", "unavailable"}

RequestPhases == {"idle", "admitted", "run", "complete", "attention", "answered", "crashed"}

TypeOK ==
    /\ control \in Control
    /\ row \in [Jobs -> Row]
    /\ api \in [Apis -> ApiPhases]
    /\ request \in [Requests -> RequestPhases]
    /\ prepares \in 0 .. MaxPrepares
    /\ faults \in 0 .. MaxFaults
    /\ begun \subseteq Requests
    /\ settled \subseteq Requests

\* The ledger is older than the control document: it may already hold jobs.
Init ==
    /\ control = [state |-> "absent", generation |-> None, lease |-> "none"]
    /\ row \in [Jobs -> {[status |-> s, nonce |-> None, due |-> TRUE] :
                            s \in {"absent", "needs_attention"}}]
    /\ api = [i \in Apis |-> "down"]
    /\ request = [r \in Requests |-> "idle"]
    /\ prepares = 0
    /\ faults = 0
    /\ begun = {}
    /\ settled = {}

Outcomes == {"ok", "failed", "lost"}

Charge(outcome) ==
    /\ outcome # "ok" => faults < MaxFaults
    /\ faults' = IF outcome = "ok" THEN faults ELSE faults + 1

CommitControl(outcome, new) ==
    /\ Charge(outcome)
    /\ control' = IF outcome = "failed" THEN control ELSE new

CommitRow(outcome, j, new) ==
    /\ Charge(outcome)
    /\ row' = IF outcome = "failed" THEN row ELSE [row EXCEPT ![j] = new]

ApiGoto(i, phase) == api' = [api EXCEPT ![i] = phase]
RequestGoto(r, phase) == request' = [request EXCEPT ![r] = phase]

-----------------------------------------------------------------------------
(* The control document.                                                   *)

\* _active: the worker may admit, and the external API may stay external.
Active == control.state = "external_active" /\ control.generation = Generation /\ control.lease = "running"

Prepared == control.state = "external_requested" /\ control.generation = Generation /\ control.lease = "running"

activate_external == IF Prepared THEN [control EXCEPT !.state = "external_active"] ELSE control

\* Seeded fault: a held job is left behind, as if only running ones mattered.
SettledUnlessRunning(j) == row[j].status # "running"

Settled(j) == row[j].status \in {"absent", "completed"}

EmbeddedReady ==
    /\ \A j \in Jobs : Settled(j)
    /\ control.state \notin {"external_requested", "external_active"}

begin_embedded ==
    IF EmbeddedReady
    THEN [state |-> "embedded", generation |-> None, lease |-> "none"]
    ELSE [control EXCEPT !.state = "external_draining"]

\* prepare_external is the operator's: it confirms that no API instance runs the
\* loops, or was told that it may.
Prepare(g) ==
    /\ prepares < MaxPrepares
    /\ control.state = "embedded"
    /\ \A i \in Apis : api[i] \notin {"start", "loops"}
    /\ control' = [state |-> "external_requested", generation |-> g, lease |-> "running"]
    /\ prepares' = prepares + 1
    /\ UNCHANGED <<row, api, request, faults, begun, settled>>

LeaseExpires ==
    /\ control.lease = "running"
    /\ control' = [control EXCEPT !.lease = "expired"]
    /\ UNCHANGED <<row, api, request, prepares, faults, begun, settled>>

-----------------------------------------------------------------------------
(* An API instance.                                                        *)

ApiBoots(i) ==
    /\ api[i] = "down"
    /\ ApiGoto(i, IF i \in ExternalApis THEN "activate" ELSE "begin")
    /\ UNCHANGED <<control, row, request, prepares, faults, begun, settled>>

\* A shutdown cancels the loops and the cutover task; a crash ends them too.
ApiStops(i) ==
    /\ api[i] # "down"
    /\ ApiGoto(i, "down")
    /\ UNCHANGED <<control, row, request, prepares, faults, begun, settled>>

\* An exception is not an activation, even when the write went through.
Activates(i) ==
    /\ api[i] = "activate"
    /\ \E outcome \in Outcomes :
         /\ CommitControl(outcome, activate_external)
         /\ ApiGoto(i, IF outcome = "ok" /\ (Active \/ Prepared) THEN "watch" ELSE "begin")
    /\ UNCHANGED <<row, request, prepares, begun, settled>>

\* At startup a failed read leaves the instance without loops and without a task.
Begins(i) ==
    /\ api[i] = "begin"
    /\ \E outcome \in Outcomes :
         /\ CommitControl(outcome, begin_embedded)
         /\ ApiGoto(i, CASE outcome # "ok" -> "unavailable"
                         [] outcome = "ok" /\ EmbeddedReady -> "start"
                         [] OTHER -> "wait")
    /\ UNCHANGED <<row, request, prepares, begun, settled>>

\* _wait_for_embedded_cutover polls, whatever the last poll said.
Waits(i) ==
    /\ api[i] = "wait"
    /\ \E outcome \in Outcomes :
         /\ CommitControl(outcome, begin_embedded)
         /\ ApiGoto(i, IF outcome = "ok" /\ EmbeddedReady THEN "start" ELSE "wait")
    /\ UNCHANGED <<row, request, prepares, begun, settled>>

\* Seeded fault: only an expired lease ends the watch, not a fenced one.
WatchesLease(i) ==
    /\ api[i] = "watch"
    /\ control.lease = "expired"
    /\ ApiGoto(i, "wait")
    /\ UNCHANGED <<control, row, request, prepares, faults, begun, settled>>

\* _watch_external_cutover; a failed read decides nothing.
Watches(i) ==
    /\ api[i] = "watch"
    /\ ~Active
    /\ ApiGoto(i, "wait")
    /\ UNCHANGED <<control, row, request, prepares, faults, begun, settled>>

StartsLoops(i) ==
    /\ api[i] = "start"
    /\ ApiGoto(i, "loops")
    /\ UNCHANGED <<control, row, request, prepares, faults, begun, settled>>

ApiStep(i) == Activates(i) \/ Begins(i) \/ Waits(i) \/ Watches(i) \/ StartsLoops(i)

-----------------------------------------------------------------------------
(* The worker: one delivery is one execution of task(job).                 *)

\* Seeded fault: a job that needs attention is admitted again.
AdmissibleAgain(j) ==
    /\ Active
    /\ row[j].status # "running"
    /\ row[j].status = "completed" => row[j].due

\* Seeded fault: the ledger admits without asking the control document.
AdmissibleUnfenced(j) ==
    /\ row[j].status \in {"absent", "completed"}
    /\ row[j].status = "completed" => row[j].due

\* _admit_from_snapshot: an uncertain job is refused whatever its age.
Admissible(j) ==
    /\ Active
    /\ row[j].status \in {"absent", "completed"}
    /\ row[j].status = "completed" => row[j].due

\* A cancelled request settles its admission and, once admitted, fences it; one whose
\* admission raised answers 503 and never learns its nonce.
Admits(r) ==
    LET j == JobOf[r] IN
    /\ request[r] = "idle"
    /\ IF Admissible(j)
       THEN \E outcome \in Outcomes :
              /\ CommitRow(outcome, j, [status |-> "running", nonce |-> r, due |-> FALSE])
              /\ \E phase \in IF outcome = "ok" THEN {"admitted", "attention"} ELSE {"answered"} :
                    RequestGoto(r, phase)
       ELSE RequestGoto(r, "answered") /\ UNCHANGED <<row, faults>>
    /\ UNCHANGED <<control, api, prepares, begun, settled>>

Launches(r) ==
    /\ request[r] = "admitted"
    /\ RequestGoto(r, "run")
    /\ begun' = begun \cup {r}
    /\ UNCHANGED <<control, row, api, prepares, faults, settled>>

\* The child's answer, or its failure, its timeout or the request's cancellation:
\* in each case the child has been reaped.
ChildEnds(r) ==
    /\ request[r] \in {"admitted", "run"}
    /\ \E phase \in IF request[r] = "run" THEN {"complete", "attention"} ELSE {"attention"} :
          RequestGoto(r, phase)
    /\ UNCHANGED <<control, row, api, prepares, faults, begun, settled>>

\* Seeded fault: the nonce alone fences a finish.
OwnedByNonce(r) == row[JobOf[r]].nonce = r

Owned(r) == row[JobOf[r]].status = "running" /\ row[JobOf[r]].nonce = r

\* Seeded fault: a status that no reader of the ledger knows.
finish_misspelt(r, status) ==
    [row[JobOf[r]] EXCEPT !.status =
        IF ~Owned(r) THEN @ ELSE IF status = "completed" THEN status ELSE "attention"]

finish(r, status) == [row[JobOf[r]] EXCEPT !.status = IF Owned(r) THEN status ELSE @]

\* Whatever cannot be confirmed, a cancellation included, is marked for attention.
Completes(r) ==
    /\ request[r] = "complete"
    /\ \E outcome \in Outcomes :
         /\ CommitRow(outcome, JobOf[r], finish(r, "completed"))
         /\ \E phase \in IF outcome = "ok" /\ Owned(r) THEN {"answered", "attention"} ELSE {"attention"} :
               RequestGoto(r, phase)
         /\ settled' = IF outcome # "failed" /\ Owned(r) THEN settled \cup {r} ELSE settled
    /\ UNCHANGED <<control, api, prepares, begun>>

MarksAttention(r) ==
    /\ request[r] = "attention"
    /\ \E outcome \in Outcomes : CommitRow(outcome, JobOf[r], finish(r, "needs_attention"))
    /\ RequestGoto(r, "answered")
    /\ UNCHANGED <<control, api, prepares, begun, settled>>

RequestStep(r) == Launches(r) \/ ChildEnds(r) \/ Completes(r) \/ MarksAttention(r)

\* The worker's container dies, and its child with it.
WorkerCrashes(r) ==
    /\ request[r] \in {"admitted", "run", "complete", "attention"}
    /\ RequestGoto(r, "crashed")
    /\ UNCHANGED <<control, row, api, prepares, faults, begun, settled>>

\* The next calendar slot of a job begins.
BecomesDue(j) ==
    /\ ~row[j].due
    /\ row' = [row EXCEPT ![j].due = TRUE]
    /\ UNCHANGED <<control, api, request, prepares, faults, begun, settled>>

\* An operator who has made sure that nothing executes completes an uncertain row.
Reconciles(j) ==
    /\ row[j].status \in {"running", "needs_attention"}
    /\ \A r \in Requests : row[j].nonce = r => request[r] \notin {"admitted", "run"}
    /\ row' = [row EXCEPT ![j].status = "completed", ![j].due = FALSE]
    /\ settled' = settled \cup (Requests \cap {row[j].nonce})
    /\ UNCHANGED <<control, api, request, prepares, faults, begun>>

-----------------------------------------------------------------------------
Next ==
    \/ \E g \in Generations : Prepare(g)
    \/ LeaseExpires
    \/ \E i \in Apis : ApiBoots(i) \/ ApiStops(i) \/ ApiStep(i)
    \/ \E r \in Requests : Admits(r) \/ RequestStep(r) \/ WorkerCrashes(r)
    \/ \E j \in Jobs : BecomesDue(j) \/ Reconciles(j)

Spec == Init /\ [][Next]_vars

\* An instance that is up runs its startup and its polls, and an admitted delivery
\* runs on or crashes. Nobody has to boot, prepare, deliver or reconcile.
Fairness ==
    /\ \A i \in Apis : WF_vars(ApiStep(i))
    /\ \A r \in Requests : WF_vars(RequestStep(r))

FairSpec == Spec /\ Fairness

-----------------------------------------------------------------------------
Embedded(i) == api[i] \in {"start", "loops"}

Uncertain == begun \ settled

\* The loops, which know nothing of the ledger, never run, and are never told that
\* they may, while external work is under way or its outcome is unknown
\* (begin_embedded, admit).
EmbeddedIsAlone == (\E i \in Apis : Embedded(i)) => Uncertain = {}

\* A job whose outcome is unknown is not run again: a child that was launched and not
\* recorded as completed keeps every later child of its job away (_admit_from_snapshot,
\* finish, _mark_attention).
UncertainIsNotReplayed == \A r, s \in Uncertain : JobOf[r] = JobOf[s] => r = s

\* Work on record stays on record: the attention mark of a delivery whose completion
\* went through, or that an operator reconciled, holds nothing (finish).
CompletedIsNotHeld ==
    \A r \in settled : row[JobOf[r]].nonce = r => row[JobOf[r]].status = "completed"

\* What the hand-off promises.
Work == INSTANCE BackgroundWork WITH
    loops <- {i \in Apis : api[i] = "loops"}, flights <- Uncertain

WorkSpec == Work!Spec

\* An instance that is up does not stay without loops for ever while the external worker
\* is not admitted and nothing is uncertain (_watch_external_cutover,
\* _wait_for_embedded_cutover).
RecoveryResumes ==
    \A i \in Apis :
        []<>~(/\ api[i] \in {"activate", "begin", "watch", "wait", "start"}
              /\ ~Active
              /\ \A j \in Jobs : row[j].status \in {"absent", "completed"})
=============================================================================
