---------------------------- MODULE PostCallHandoff ----------------------------
(***************************************************************************)
(* The outbox of the work that follows a call: one Firestore document per  *)
(* call (src/app/db/post_call_handoffs.py), run once by the media stream   *)
(* that closed or by a sweep (src/app/services/post_call_handoff.py), read *)
(* and acknowledged by operators (src/app/api/admin.py), and mirrored on   *)
(* the call's own document.                                                *)
(*                                                                         *)
(* A transaction may fail, or commit and lose its answer. Processes are    *)
(* cancelled and die at every await.                                       *)
(***************************************************************************)
EXTENDS Naturals, FiniteSets

CONSTANTS
    Calls,      \* call ids, as numbers in the order of the document names
    Streams,    \* media streams that close
    Sweepers,   \* processes that sweep the outbox
    Operators,  \* administrators
    Workers,    \* those that are the external worker's job; the others are embedded loops
    PageSize,   \* pending documents listed by one sweep
    None,       \* no cursor
    MaxFaults   \* bound on failures, lost answers, cancellations and crashes

ASSUME PostCallAssumption ==
    /\ Calls \subseteq Nat
    /\ None \notin Calls
    /\ Workers \subseteq Sweepers
    /\ PageSize \in Nat \ {0}
    /\ MaxFaults \in Nat
    /\ Streams \cap Sweepers = {}
    /\ Streams \cap Operators = {}
    /\ Sweepers \cap Operators = {}

Procs == Streams \cup Sweepers \cup Operators

VARIABLES
    row,      \* post_call_handoffs/{call}
    call,     \* calls/{call}: whether it has ended, and whose it is
    mirror,   \* the status written on calls/{call}
    proc,     \* where each process is, with which call and which status to write
    sweep,    \* sweeper -> its page, the cursors of the next, and whether its job is held
    late,     \* finishing transactions that outlived the task that awaited them
    effects,  \* history: how often a call's effects were begun
    faults

vars == <<row, call, mirror, proc, sweep, late, effects, faults>>

Terminal == {"completed", "needs_attention", "acknowledged"}

Statuses == {"absent", "pending", "in_progress"} \cup Terminal

Places == {"idle", "sweep", "get", "read", "unconfirmed", "mismatch", "claim", "claimed",
           "work", "finish", "mark", "mirror", "reclaim", "recheck", "done"}

Row == [status : Statuses, owned : BOOLEAN, aged : BOOLEAN, leased : BOOLEAN]

\* The documents that the last sweep ended with.
Continuation == [pending : {None} \cup Calls, in_progress : {None} \cup Calls]

Start == [pending |-> None, in_progress |-> None]

Restarted(cursor, held) ==
    [todo |-> {}, stale |-> FALSE, held |-> held, cursor |-> cursor, next |-> cursor]

TypeOK ==
    /\ row \in [Calls -> Row]
    /\ call \in [Calls -> [ended : BOOLEAN, contractor : {"none", "ours", "other"}]]
    /\ mirror \in [Calls -> {"none", "pending"} \cup Terminal]
    /\ proc \in [Procs -> [at : Places, call : {None} \cup Calls, status : {"pending"} \cup Terminal]]
    /\ sweep \in [Sweepers -> [todo : SUBSET Calls, stale : BOOLEAN, held : BOOLEAN,
                               cursor : Continuation, next : Continuation]]
    /\ late \subseteq Calls \X {"completed", "needs_attention"}
    /\ effects \in [Calls -> Nat]
    /\ faults \in 0 .. MaxFaults

\* Either the worker or the embedded loops sweep (see BackgroundCutover).
Sweeping(external) ==
    [p \in Procs |->
        [at     |-> IF p \in Sweepers /\ (p \in Workers) # external THEN "done" ELSE "idle",
         call   |-> None,
         status |-> "pending"]]

Init ==
    /\ row = [c \in Calls |-> [status |-> "absent", owned |-> FALSE, aged |-> FALSE, leased |-> FALSE]]
    /\ call \in [Calls -> [ended : {FALSE}, contractor : {"none", "ours", "other"}]]
    /\ mirror = [c \in Calls |-> "none"]
    /\ \E external \in BOOLEAN : proc = Sweeping(external)
    /\ sweep = [s \in Sweepers |-> Restarted(Start, FALSE)]
    /\ late = {}
    /\ effects = [c \in Calls |-> 0]
    /\ faults = 0

Outcomes == {"ok", "failed", "lost"}

Charge(outcome) ==
    /\ outcome # "ok" => faults < MaxFaults
    /\ faults' = IF outcome = "ok" THEN faults ELSE faults + 1

\* One transaction, or one create, on the document of call c.
Commit(outcome, c, new) ==
    /\ Charge(outcome)
    /\ row' = IF outcome = "failed" THEN row ELSE [row EXCEPT ![c] = new]

Goto(p, place) == proc' = [proc EXCEPT ![p].at = place]

MirrorThen(p, status) == proc' = [proc EXCEPT ![p].at = "mirror", ![p].status = status]

\* Where a process goes on when it has dealt with a call.
Home(p) ==
    CASE p \in Streams   -> "done"
      [] p \in Sweepers  -> "sweep"
      [] p \in Operators -> "idle"

-----------------------------------------------------------------------------
(* The callbacks of the transactions.                                      *)

Status(c) == row[c].status

\* Seeded fault: an expired lease is taken over.
claim_transition_again(c) ==
    IF Status(c) = "pending" \/ (Status(c) = "in_progress" /\ ~row[c].leased)
    THEN [row[c] EXCEPT !.status = "in_progress", !.leased = TRUE]
    ELSE row[c]

claim_transition(c) ==
    CASE Status(c) = "pending" -> [row[c] EXCEPT !.status = "in_progress", !.leased = TRUE]
      [] Status(c) = "in_progress" /\ ~row[c].leased -> [row[c] EXCEPT !.status = "needs_attention"]
      [] OTHER -> row[c]

Claimed(c) == claim_transition(c).status = "in_progress" /\ claim_transition(c) # row[c]

\* Seeded fault: a late result settles what was held.
finish_transition_late(c, status) ==
    IF Status(c) \in {"in_progress", "needs_attention", "acknowledged"}
    THEN [row[c] EXCEPT !.status = status, !.leased = FALSE]
    ELSE row[c]

finish_transition(c, status) ==
    IF Status(c) = "in_progress" THEN [row[c] EXCEPT !.status = status, !.leased = FALSE] ELSE row[c]

FinishAccepted(c, status) == Status(c) = "in_progress" \/ Status(c) = status

\* Seeded fault: a status that no reader of the outbox knows.
attention_transition_misspelt(c) ==
    IF Status(c) \in {"pending", "in_progress"} THEN [row[c] EXCEPT !.status = "attention"] ELSE row[c]

attention_transition(c) ==
    IF Status(c) \in {"pending", "in_progress"}
    THEN [row[c] EXCEPT !.status = "needs_attention", !.leased = FALSE]
    ELSE row[c]

Ready(c) == row[c].owned /\ call[c].contractor = "ours" /\ call[c].ended

\* Seeded fault: the transaction trusts what its caller read.
QuarantineTrusting(c, place) == Status(c) = "pending"

\* quarantine_pending_handoff reads the row and the call again.
Quarantine(c, place) ==
    /\ Status(c) = "pending"
    /\ place = "unconfirmed" => row[c].aged /\ ~Ready(c)
    /\ place = "mismatch" => row[c].owned /\ call[c].contractor = "other"

-----------------------------------------------------------------------------
(* enqueue_and_run_post_call and run_post_call_handoff.                    *)

\* A stream that closes creates the row; one that never learnt its contractor leaves
\* it to a sweep.
Enqueues(p) ==
    /\ p \in Streams
    /\ proc[p].at = "idle"
    /\ \E c \in Calls, owned \in BOOLEAN, outcome \in Outcomes :
         /\ Commit(outcome, c, IF Status(c) = "absent"
                               THEN [row[c] EXCEPT !.status = "pending", !.owned = owned]
                               ELSE row[c])
         /\ proc' = [proc EXCEPT ![p] =
                CASE outcome # "ok" -> [at |-> "mirror", call |-> c, status |-> "needs_attention"]
                  [] outcome = "ok" /\ owned  -> [at |-> "get", call |-> c, status |-> "pending"]
                  [] outcome = "ok" /\ ~owned -> [at |-> "mirror", call |-> c, status |-> "pending"]]
    /\ UNCHANGED <<call, mirror, sweep, late, effects>>

GetsRow(p) ==
    /\ proc[p].at = "get"
    /\ \E outcome \in {"ok", "failed"} :
         /\ Charge(outcome)
         /\ Goto(p, IF outcome = "ok" /\ Status(proc[p].call) = "pending" THEN "read" ELSE Home(p))
    /\ UNCHANGED <<row, call, mirror, sweep, late, effects>>

\* The contractor of the row, or of the stream that runs it, is not the call's.
Mismatch(p, c) == call[c].contractor = "other" /\ (row[c].owned \/ p \in Streams)

Unconfirmed(p, c) == IF row[c].aged THEN "unconfirmed" ELSE Home(p)

\* Seeded fault: the call may still be going on.
DecisionEarly(p, c) ==
    CASE Mismatch(p, c) -> "mismatch"
      [] ~Mismatch(p, c) /\ row[c].owned /\ call[c].contractor = "ours" -> "claim"
      [] OTHER -> Unconfirmed(p, c)

Decision(p, c) ==
    CASE Mismatch(p, c) -> "mismatch"
      [] ~Mismatch(p, c) /\ Ready(c) -> "claim"
      [] OTHER -> Unconfirmed(p, c)

\* get_call answers a failed read as it answers a missing document.
ReadsCall(p) ==
    LET c == proc[p].call IN
    /\ proc[p].at = "read"
    /\ \E outcome \in {"ok", "failed"} :
         /\ Charge(outcome)
         /\ Goto(p, IF outcome = "ok" THEN Decision(p, c) ELSE Unconfirmed(p, c))
    /\ UNCHANGED <<row, call, mirror, sweep, late, effects>>

Quarantines(p) ==
    LET c == proc[p].call IN
    /\ proc[p].at \in {"unconfirmed", "mismatch"}
    /\ \E outcome \in Outcomes :
         /\ Commit(outcome, c, IF Quarantine(c, proc[p].at)
                               THEN [row[c] EXCEPT !.status = "needs_attention"] ELSE row[c])
         /\ IF outcome = "ok" /\ Quarantine(c, proc[p].at)
            THEN MirrorThen(p, "needs_attention")
            ELSE Goto(p, Home(p))
    /\ UNCHANGED <<call, mirror, sweep, late, effects>>

Claims(p) ==
    LET c == proc[p].call IN
    /\ proc[p].at = "claim"
    /\ \E outcome \in Outcomes :
         /\ Commit(outcome, c, claim_transition(c))
         /\ Goto(p, IF outcome = "ok" /\ Claimed(c) THEN "claimed" ELSE Home(p))
    /\ UNCHANGED <<call, mirror, sweep, late, effects>>

\* A sweep loads transcript and contractor first, and may find neither.
Begins(p) ==
    /\ proc[p].at = "claimed"
    /\ \/ /\ Goto(p, "work")
          /\ effects' = [effects EXCEPT ![proc[p].call] = @ + 1]
       \/ /\ p \in Sweepers
          /\ Goto(p, "mark")
          /\ UNCHANGED effects
    /\ UNCHANGED <<row, call, mirror, sweep, late, faults>>

\* process_post_call ends with a result, or is stopped after two minutes.
Works(p) ==
    /\ proc[p].at = "work"
    /\ \/ \E status \in {"completed", "needs_attention"} :
             proc' = [proc EXCEPT ![p].at = "finish", ![p].status = status]
       \/ Goto(p, "mark")
    /\ UNCHANGED <<row, call, mirror, sweep, late, effects, faults>>

\* Seeded fault: what was done is reported, whether or not it is on record.
PersistedAnyway(outcome, c, status) == TRUE

Persisted(outcome, c, status) == outcome = "ok" /\ FinishAccepted(c, status)

Finishes(p) ==
    LET c == proc[p].call
        status == proc[p].status
    IN  /\ proc[p].at = "finish"
        /\ \E outcome \in Outcomes :
             /\ Commit(outcome, c, finish_transition(c, status))
             /\ Goto(p, IF Persisted(outcome, c, status) THEN "mirror" ELSE "mark")
        /\ UNCHANGED <<call, mirror, sweep, late, effects>>

Marks(p) ==
    /\ proc[p].at = "mark"
    /\ \E outcome \in Outcomes : Commit(outcome, proc[p].call, attention_transition(proc[p].call))
    /\ MirrorThen(p, "needs_attention")
    /\ UNCHANGED <<call, mirror, sweep, late, effects>>

Mirrors(p) ==
    /\ proc[p].at = "mirror"
    /\ \E outcome \in {"ok", "failed"} :
         /\ Charge(outcome)
         /\ mirror' = IF outcome = "ok" THEN [mirror EXCEPT ![proc[p].call] = proc[p].status] ELSE mirror
    /\ Goto(p, Home(p))
    /\ UNCHANGED <<row, call, sweep, late, effects>>

RunStep(p) ==
    \/ GetsRow(p)
    \/ ReadsCall(p)
    \/ Quarantines(p)
    \/ Claims(p)
    \/ Begins(p)
    \/ Works(p)
    \/ Finishes(p)
    \/ Marks(p)
    \/ Mirrors(p)

-----------------------------------------------------------------------------
(* run_pending_post_calls_once, and run_bounded_post_calls_once.           *)

First(n, S) == {c \in S : Cardinality({d \in S : d < c}) < n}

Last(S) ==
    LET greatest == {c \in S : \A d \in S : d <= c}
    IN  IF greatest = {} THEN None ELSE CHOOSE c \in greatest : TRUE

With(status) == {c \in Calls : Status(c) = status}

\* Seeded fault: the page begins with the document of the cursor.
AfterInclusive(status, k) == IF k = None THEN With(status) ELSE {c \in With(status) : c >= k}

After(status, k) == IF k = None THEN With(status) ELSE {c \in With(status) : c > k}

\* The page of pending documents after the cursor, and those wrapped around to.
Page(k) == First(PageSize, After("pending", k))

Wrapped(s, k) ==
    CASE k = None -> {}
      [] k # None /\ s \in Workers  -> IF Page(k) = {} THEN First(PageSize, With("pending")) ELSE {}
      [] k # None /\ s \notin Workers ->
            First(PageSize - Cardinality(Page(k)), With("pending")) \ Page(k)

\* Seeded fault: every sweep starts at the first document.
NoCursor(s, k) == None

NextCursor(s, k) == IF Wrapped(s, k) = {} THEN Last(Page(k)) ELSE Last(Wrapped(s, k))

\* The embedded loop moves its cursor on at once, the worker with its completion; a job
\* that is held is not admitted. The queries of a sweep are one step: a row that becomes
\* pending in between is a later sweep's, and one that is no longer pending is passed over.
ListsPending(s) ==
    LET k    == sweep[s].cursor.pending
        next == [sweep[s].cursor EXCEPT !.pending = NextCursor(s, k)]
    IN  /\ proc[s].at = "idle"
        /\ ~sweep[s].held
        /\ sweep' = [sweep EXCEPT ![s] =
               [todo   |-> Page(k) \cup Wrapped(s, k),
                stale  |-> FALSE,
                held   |-> FALSE,
                cursor |-> IF s \in Workers THEN @.cursor ELSE next,
                next   |-> next]]
        /\ Goto(s, "sweep")
        /\ UNCHANGED <<row, call, mirror, late, effects, faults>>

\* The next one of the page. The order within a page does not matter to anyone.
TakesNext(s) ==
    /\ proc[s].at = "sweep"
    /\ \E c \in sweep[s].todo :
         /\ sweep' = [sweep EXCEPT ![s].todo = @ \ {c}]
         /\ proc' = [proc EXCEPT ![s] = [at     |-> IF sweep[s].stale THEN "reclaim" ELSE "get",
                                         call   |-> c,
                                         status |-> @.status]]
    /\ UNCHANGED <<row, call, mirror, late, effects, faults>>

\* The documents in progress: for the worker those after its cursor, unless there are none.
InProgress(s) ==
    LET after == After("in_progress", sweep[s].cursor.in_progress)
    IN  IF s \in Workers /\ after # {} THEN after ELSE With("in_progress")

\* At least twenty-five documents: more than the model has calls.
ListsInProgress(s) ==
    /\ proc[s].at = "sweep"
    /\ sweep[s].todo = {}
    /\ ~sweep[s].stale
    /\ sweep' = [sweep EXCEPT ![s].todo  = InProgress(s),
                              ![s].stale = TRUE,
                              ![s].next.in_progress = IF s \in Workers THEN Last(InProgress(s)) ELSE None]
    /\ UNCHANGED <<row, call, mirror, proc, late, effects, faults>>

\* A job that ends otherwise than by the record of its completion is held; an embedded
\* loop goes on.
Held(s) == s \in Workers

\* An exception ends the sweep.
Raised(s) == [sweep EXCEPT ![s] = Restarted(@.cursor, Held(s))]

ListingFails(s) ==
    /\ \/ proc[s].at = "idle" /\ ~sweep[s].held
       \/ proc[s].at = "sweep" /\ sweep[s].todo = {} /\ ~sweep[s].stale
    /\ Charge("failed")
    /\ sweep' = Raised(s)
    /\ Goto(s, "idle")
    /\ UNCHANGED <<row, call, mirror, late, effects>>

\* The completion that the worker records carries the cursors.
SweepEnds(s) ==
    /\ proc[s].at = "sweep"
    /\ sweep[s].todo = {}
    /\ sweep[s].stale
    /\ \E outcome \in {"ok", "failed"} :
         /\ outcome = "failed" => s \in Workers
         /\ Charge(outcome)
         /\ sweep' = IF outcome = "ok" THEN [sweep EXCEPT ![s] = Restarted(@.next, @.held)] ELSE Raised(s)
    /\ Goto(s, "idle")
    /\ UNCHANGED <<row, call, mirror, late, effects>>

\* The claim of a row in progress only ever holds it.
Reclaims(s) ==
    LET c == proc[s].call IN
    /\ proc[s].at = "reclaim"
    /\ \E outcome \in Outcomes :
         /\ Commit(outcome, c, claim_transition(c))
         /\ Goto(s, IF outcome = "ok" THEN "recheck" ELSE "idle")
         /\ sweep' = IF outcome = "ok" THEN sweep ELSE Raised(s)
    /\ UNCHANGED <<call, mirror, late, effects>>

Rechecks(s) ==
    /\ proc[s].at = "recheck"
    /\ \E outcome \in {"ok", "failed"} :
         /\ Charge(outcome)
         /\ IF outcome = "ok" /\ Status(proc[s].call) = "needs_attention"
            THEN MirrorThen(s, "needs_attention")
            ELSE Goto(s, IF outcome = "ok" THEN "sweep" ELSE "idle")
         /\ sweep' = IF outcome = "ok" THEN sweep ELSE Raised(s)
    /\ UNCHANGED <<row, call, mirror, late, effects>>

SweepStep(s) ==
    \/ ListsPending(s)
    \/ TakesNext(s)
    \/ ListsInProgress(s)
    \/ ListingFails(s)
    \/ SweepEnds(s)
    \/ Reclaims(s)
    \/ Rechecks(s)

-----------------------------------------------------------------------------
(* Operators, cancellations, crashes, and time.                            *)

\* admin_acknowledge_post_call_handoff.
Acknowledges(p) ==
    /\ p \in Operators
    /\ proc[p].at = "idle"
    /\ \E c \in Calls, outcome \in Outcomes :
         /\ Status(c) = "needs_attention"
         /\ Commit(outcome, c, [row[c] EXCEPT !.status = "acknowledged"])
         /\ proc' = IF outcome = "ok"
                    THEN [proc EXCEPT ![p] = [at |-> "mirror", call |-> c, status |-> "acknowledged"]]
                    ELSE proc
    /\ UNCHANGED <<call, mirror, sweep, late, effects>>

\* An operator has made sure of what a held job did, and completes it in the ledger.
Reconciles(s) ==
    /\ proc[s].at = "idle"
    /\ sweep[s].held
    /\ sweep' = [sweep EXCEPT ![s].held = FALSE]
    /\ UNCHANGED <<row, call, mirror, proc, late, effects, faults>>

\* What is left of a sweep whose process goes away: the cursor of the embedded loop is
\* in memory, the worker's in the job ledger.
Abandoned(p) ==
    IF p \in Sweepers
    THEN [sweep EXCEPT ![p] = [Restarted(IF p \in Workers THEN @.cursor ELSE Start, Held(p))
                                   EXCEPT !.stale = TRUE]]
    ELSE sweep

\* The task is cancelled while it runs a claimed call. A finishing transaction goes on
\* in its executor thread.
Cancelled(p) ==
    /\ proc[p].at \in {"claimed", "work", "finish"}
    /\ Charge("lost")
    /\ Goto(p, "mark")
    /\ sweep' = Abandoned(p)
    /\ late' = IF proc[p].at = "finish" THEN late \cup {<<proc[p].call, proc[p].status>>} ELSE late
    /\ UNCHANGED <<row, call, mirror, effects>>

FinishesLate ==
    \E l \in late :
        /\ row' = [row EXCEPT ![l[1]] = finish_transition(l[1], l[2])]
        /\ late' = late \ {l}
        /\ UNCHANGED <<call, mirror, proc, sweep, effects, faults>>

Crashes(p) ==
    /\ proc[p].at \notin {"idle", "done"}
    /\ Charge("lost")
    /\ Goto(p, Home(p))
    /\ sweep' = Abandoned(p)
    /\ UNCHANGED <<row, call, mirror, late, effects>>

LeaseExpires(c) ==
    /\ row[c].leased
    /\ row' = [row EXCEPT ![c].leased = FALSE]
    /\ UNCHANGED <<call, mirror, proc, sweep, late, effects, faults>>

\* A day goes by.
Ages(c) ==
    /\ Status(c) = "pending"
    /\ ~row[c].aged
    /\ row' = [row EXCEPT ![c].aged = TRUE]
    /\ UNCHANGED <<call, mirror, proc, sweep, late, effects, faults>>

\* Twilio's status callback is on record; and the routing task's contractor.
CallEnds(c) ==
    /\ ~call[c].ended
    /\ call' = [call EXCEPT ![c].ended = TRUE]
    /\ UNCHANGED <<row, mirror, proc, sweep, late, effects, faults>>

CallIsBound(c) ==
    /\ call[c].contractor = "none"
    /\ call' = [call EXCEPT ![c].contractor = "ours"]
    /\ UNCHANGED <<row, mirror, proc, sweep, late, effects, faults>>

-----------------------------------------------------------------------------
Next ==
    \/ \E p \in Procs : Enqueues(p) \/ Acknowledges(p) \/ RunStep(p) \/ Cancelled(p) \/ Crashes(p)
    \/ \E s \in Sweepers : SweepStep(s) \/ Reconciles(s)
    \/ FinishesLate
    \/ \E c \in Calls : LeaseExpires(c) \/ Ages(c) \/ CallEnds(c) \/ CallIsBound(c)

Spec == Init /\ [][Next]_vars

\* A sweep runs on; the embedded loop is run again whatever became of its sweep, the
\* worker's job unless it is held. A lease runs out. No stream has to close, no call to
\* end, no day to go by, no operator to look or to reconcile.
Fairness ==
    /\ \A s \in Sweepers : WF_vars(RunStep(s) \/ SweepStep(s))
    /\ \A c \in Calls : WF_vars(LeaseExpires(c))

FairSpec == Spec /\ Fairness

-----------------------------------------------------------------------------
\* The effects of a call are begun at most once, whoever closes, sweeps, crashes or
\* loses an answer (claim_handoff; "at-most-once post-call side effects").
AtMostOnce == \A c \in Calls : effects[c] <= 1

\* They are begun for a call that is over, and for its own contractor, although the
\* claim itself does not read the call again (run_post_call_handoff).
EffectsAreDue == \A c \in Calls : effects[c] > 0 => Ready(c)

\* The mirror never says more than the row: a call that shows as completed or as
\* acknowledged is (the late and failed finishes of run_post_call_handoff).
MirrorNeverOverstates ==
    \A c \in Calls : mirror[c] \in {"completed", "acknowledged"} => Status(c) = mirror[c]

\* What is settled stays settled: no late result, no mark and no second claim reopens a
\* row or changes how it ended (_finish_transition, _attention_transition).
SettledStays ==
    [][\A c \in Calls :
        /\ Status(c) \in {"completed", "acknowledged"} => row'[c].status = Status(c)
        /\ Status(c) = "needs_attention" => row'[c].status \in {"needs_attention", "acknowledged"}]_vars

\* Work that could be done is not put aside: neither a failed read nor an old one holds a
\* pending row whose call is over and whose contractor is right
\* (quarantine_pending_handoff).
ReadyIsNotQuarantined ==
    [][\A c \in Calls :
        Status(c) = "pending" /\ Ready(c) => row'[c].status \in {"pending", "in_progress"}]_vars

\* What a sweep can settle: work in progress, and pending rows that are ready, a day
\* old, or of the wrong contractor.
Due(c) ==
    \/ Status(c) = "in_progress"
    \/ Status(c) = "pending" /\ (Ready(c) \/ row[c].aged \/ (row[c].owned /\ call[c].contractor = "other"))

\* A sweeper that goes on by itself.
GoesOn(s) == proc[s].at # "done" /\ ~sweep[s].held

\* Every row that a sweep can settle is settled, whatever the rows that it lists before and
\* whatever becomes of the sweeps of an embedded loop; by the worker as long as its job is
\* not held (run_pending_post_calls_once, run_bounded_post_calls_once: "Cold starts cannot
\* repeatedly starve later documents").
DueIsSettled ==
    \A c \in Calls : Due(c) ~> Status(c) \in Terminal \/ \A s \in Sweepers : ~GoesOn(s)
=============================================================================
