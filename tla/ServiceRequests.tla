---------------------------- MODULE ServiceRequests ----------------------------
(***************************************************************************)
(* One service request of a customer and its event in the contractor's     *)
(* Google Calendar (src/app/services/service_request*.py,                  *)
(* src/app/db/service_requests.py). A command on a booked request is a     *)
(* saga: the change is written to the request as a proposal, made at       *)
(* Google, and then made canonical. A process may stop anywhere in         *)
(* between; the recovery worker leases a proposal that is due and carries  *)
(* it through, at most MaxAttempts times. What the grant's operation       *)
(* intents allow is CalendarGrant's subject: here a call to Google may     *)
(* always be refused, and only the claim of a rescheduling is kept.        *)
(***************************************************************************)
EXTENDS Naturals

CONSTANTS
    Callers,        \* tool calls, each with its command
    Cmd,            \* caller -> [op, arg, base, key, local]: what the model asked for, and
                    \* whether its application creates without a calendar
    Workers,        \* recovery workers, one per instance
    Slots, Labels,  \* appointment times; services that can be added
    Keys,           \* idempotency keys
    Casts,          \* [callers, kind]: who takes part in a history together, and what it finds:
                    \* nothing yet ("absent"), or a request booked for FirstSlot, at Google or not
    FirstSlot,
    MaxAttempts,    \* MAX_PROVIDER_RECOVERY_ATTEMPTS
    MaxFaults,      \* bound on crashes
    None

Operations == {"create", "cancel", "reschedule", "add_service"}

Procs == Callers \cup Workers

\* A proposal: the command, the revision it applies to, and what the request
\* held at that revision. It is also what its logical operation id names.
Proposal == [op : Operations, arg : Slots \cup Labels \cup {None}, base : Nat, key : Keys,
             slot : Slots \cup {None}, services : SUBSET Labels]

Entry == [op : Operations, arg : Slots \cup Labels \cup {None}, base : Nat, key : Keys]

\* A recovery worker's claim of the proposal, for one attempt.
Leases == [by : Workers, attempt : 1 .. MaxAttempts]

ASSUME ServiceRequestAssumption ==
    /\ Cmd \in [Callers -> [op : Operations \cup {"recover"}, arg : Slots \cup Labels \cup {None}, base : Nat, key : Keys,
                        local : BOOLEAN]]
    /\ \A c \in Callers :
        /\ Cmd[c].op \in {"create", "reschedule"} => Cmd[c].arg \in Slots
        /\ Cmd[c].op = "add_service" => Cmd[c].arg \in Labels
        /\ Cmd[c].op = "cancel" => Cmd[c].arg = None
    /\ Callers \cap Workers = {} /\ Slots \cap Labels = {}
    /\ Casts \subseteq [callers : SUBSET Callers, kind : {"absent", "provider", "local"}]
    /\ FirstSlot \in Slots /\ Keys # {}
    /\ None \notin Slots \cup Labels
    /\ None \notin Proposal \cup Leases
    /\ MaxAttempts \in Nat \ {0}
    /\ MaxFaults \in Nat

VARIABLES
    doc,        \* contractors/{id}/service_requests/{request}
    event,      \* the calendar event whose id the request is bound to
    claim,      \* the bound operation intent on the contractor record
    proc,       \* each run: where it is, and what it holds
    wire,       \* requests on their way to Google
    shown,      \* history: operations whose effect the calendar has had
    faults

vars == <<doc, event, claim, proc, wire, shown, faults>>

Request == [by : Procs, try : 0 .. MaxAttempts, prep : Proposal, etag : Nat]

Replies == {"none", "applied", "pending_provider", "failed", "conflict", "not_found"}

Docs == [kind : {"absent", "local", "provider"}, rev : Nat, open : BOOLEAN, slot : Slots \cup {None},
         services : SUBSET Labels, done : SUBSET Entry, pend : {None} \cup Proposal,
         state : {"none", "pending", "needs_review"}, attempts : 0 .. MaxAttempts, due : BOOLEAN,
         lease : {None} \cup Leases]

\* repeated is history: whether the event took an operation once more that it had shown before.
Events == [at : {"absent", "there", "deleted"}, mark : {None} \cup Proposal, slot : Slots \cup {None},
           services : SUBSET Labels, etag : Nat, repeated : BOOLEAN]

Runs == [at : {"idle", "prepare", "apply", "adapter", "patch", "await", "verify", "finalize", "reconcile",
               "reconciled", "release", "done", "gone"},
         prep : {None} \cup Proposal, etag : Nat, try : 0 .. MaxAttempts, again : BOOLEAN,
         answer : {"none", "ok", "precondition", "duplicate", "refused"}, reply : Replies]

TypeOK ==
    /\ doc \in Docs
    /\ event \in Events
    /\ claim \in {None} \cup [by : Procs, prep : Proposal]
    /\ proc \in [Procs -> Runs]
    /\ wire \subseteq Request
    /\ shown \subseteq Proposal
    /\ faults \in 0 .. MaxFaults

Rest == [at |-> "idle", prep |-> None, etag |-> 0, try |-> 0, again |-> FALSE, answer |-> "none", reply |-> "none"]

Creation == [op |-> "create", arg |-> FirstSlot, base |-> 0, key |-> CHOOSE k \in Keys : TRUE,
             slot |-> None, services |-> {}]

Line(o) == [op |-> o.op, arg |-> o.arg, base |-> o.base, key |-> o.key]

Blank == [kind |-> "absent", rev |-> 0, open |-> FALSE, slot |-> None, services |-> {}, done |-> {},
          pend |-> None, state |-> "none", attempts |-> 0, due |-> FALSE, lease |-> None]

NoEvent == [at |-> "absent", mark |-> None, slot |-> None, services |-> {}, etag |-> 0, repeated |-> FALSE]

\* Nothing yet, or one finished create: by the application, or at Google.
Init ==
    \E cast \in Casts :
        /\ doc = IF cast.kind = "absent" THEN Blank
                 ELSE [Blank EXCEPT !.kind = cast.kind, !.rev = 1, !.open = TRUE, !.slot = FirstSlot, !.done = {Line(Creation)}]
        /\ event = IF cast.kind = "provider"
                     THEN [NoEvent EXCEPT !.at = "there", !.mark = Creation, !.slot = FirstSlot, !.etag = 1]
                     ELSE NoEvent
        /\ claim = None
        /\ proc = [p \in Procs |-> IF p \in cast.callers \cup Workers THEN Rest ELSE [Rest EXCEPT !.at = "done"]]
        /\ wire = {}
        /\ shown = IF cast.kind = "provider" THEN {Creation} ELSE {}
        /\ faults = 0

-----------------------------------------------------------------------------
(* The aggregate.                                                          *)

NewProposal(c) == [op |-> c.op, arg |-> c.arg, base |-> c.base, key |-> c.key, slot |-> doc.slot, services |-> doc.services]

Applied(o) == \E e \in doc.done : e.op = o.op /\ e.arg = o.arg /\ e.base = o.base

\* Seeded fault: a known key replays, whatever the command.
ReplayedByKey(c) ==
    IF \E e \in doc.done : e.key = c.key THEN "replay"
    ELSE IF c.op = "create" THEN IF doc.kind = "absent" /\ c.base = 0 THEN "new" ELSE "failed"
    ELSE IF c.base = doc.rev /\ doc.open THEN "new" ELSE "conflict"

\* What a command does to the request: "replay" of a finished command,
\* "conflict", "failed", or "new" for a change at the revision it names.
Mutation(c) ==
    LET mine == {e \in doc.done : e.key = c.key}
    IN  CASE mine = {Line(c)} -> "replay"
          [] mine \notin {{}, {Line(c)}} -> "conflict"
          [] mine = {} /\ c.op = "create" ->
                IF doc.kind # "absent" THEN "failed" ELSE IF c.base # 0 THEN "conflict" ELSE "new"
          [] mine = {} /\ c.op # "create" ->
                IF c.base # doc.rev THEN "conflict"
                ELSE IF ~doc.open \/ c.arg = doc.slot \/ c.arg \in doc.services THEN "failed" ELSE "new"

\* The canonical request after o; the proposal and its recovery fields go.
Canonical(o, kind) ==
    [Blank EXCEPT !.kind = kind, !.rev = o.base + 1, !.open = o.op # "cancel",
                  !.slot = IF o.op \in {"create", "reschedule"} THEN o.arg ELSE doc.slot,
                  !.services = IF o.op = "add_service" THEN doc.services \cup {o.arg} ELSE doc.services,
                  !.done = doc.done \cup {Line(o)}]

Pending(o) ==
    [doc EXCEPT !.pend = o, !.state = "pending", !.attempts = 0, !.due = TRUE, !.lease = None]

Recoverable == doc.pend # None /\ doc.state = "pending"

\* A lease ends with its time, which is also when the next attempt is due.
ActiveLease == doc.lease # None /\ ~doc.due

Reply(p, r) == proc' = [proc EXCEPT ![p].at = "done", ![p].reply = r]

Go(p, to) == proc' = [proc EXCEPT ![p].at = to]

-----------------------------------------------------------------------------
(* The application's commands.                                             *)

Others == <<event, claim, wire, shown, faults>>

\* Which execution the stored request has decides about the path.
execute_existing(p) ==
    /\ p \in Callers /\ proc[p].at = "idle" /\ Cmd[p].op \notin {"create", "recover"}
    /\ CASE doc.kind = "absent" -> Reply(p, IF doc.state = "needs_review" THEN "failed" ELSE "not_found")
         [] doc.kind = "provider" -> Go(p, "prepare")
         [] doc.kind = "local" -> Go(p, "apply")
    /\ UNCHANGED <<doc, Others>>

\* A request of this application alone: one transaction. It refuses one that
\* waits for a provider, or is a provider's.
apply(p) ==
    /\ p \in Callers
    /\ \/ proc[p].at = "apply"
       \/ proc[p].at = "idle" /\ Cmd[p].op = "create" /\ Cmd[p].local
    /\ IF doc.pend # None THEN Reply(p, "not_found") /\ UNCHANGED doc
       ELSE IF doc.kind = "provider" THEN Reply(p, "conflict") /\ UNCHANGED doc
       ELSE LET m == Mutation(Cmd[p])
            IN  /\ Reply(p, IF m \in {"replay", "new"} THEN "applied" ELSE m)
                /\ doc' = IF m = "new" THEN Canonical(NewProposal(Cmd[p]), "local") ELSE doc
    /\ UNCHANGED Others

\* A create is proposed under its deterministic event id.
prepare_provider_create(p) ==
    /\ p \in Callers /\ proc[p].at = "idle" /\ Cmd[p].op = "create" /\ ~Cmd[p].local
    /\ LET o == NewProposal(Cmd[p])
           same == doc.pend # None /\ doc.pend.op = "create" /\ doc.pend.arg = o.arg
       IN  CASE o.base # 0 -> Reply(p, "conflict") /\ UNCHANGED doc
             [] o.base = 0 /\ doc.kind # "absent" ->
                   Reply(p, IF Applied(o) THEN "applied" ELSE "conflict") /\ UNCHANGED doc
             [] o.base = 0 /\ doc.kind = "absent" /\ doc.pend = None ->
                   proc' = [proc EXCEPT ![p].at = "adapter", ![p].prep = o] /\ doc' = Pending(o)
             [] o.base = 0 /\ doc.kind = "absent" /\ doc.pend # None ->
                   /\ IF same /\ Recoverable THEN proc' = [proc EXCEPT ![p].at = "adapter", ![p].prep = doc.pend]
                                                 ELSE Reply(p, "conflict")
                   /\ UNCHANGED doc
    /\ UNCHANGED Others

\* Seeded fault: a newer command takes the place of a pending one.
PreparedOver(p) ==
    /\ p \in Callers /\ proc[p].at = "prepare"
    /\ LET c == Cmd[p] m == Mutation(c)
       IN  IF m = "new" THEN /\ doc' = Pending(NewProposal(c))
                             /\ proc' = [proc EXCEPT ![p].at = "adapter", ![p].prep = NewProposal(c)]
           ELSE Reply(p, IF m = "replay" THEN "applied" ELSE m) /\ UNCHANGED doc
    /\ UNCHANGED Others

\* The same command again takes up the pending proposal; another waits its turn.
prepare_provider_operation(p) ==
    /\ p \in Callers /\ proc[p].at = "prepare"
    /\ LET c == Cmd[p]
           m == Mutation(c)
           same == doc.pend # None /\ doc.pend.op = c.op /\ doc.pend.arg = c.arg /\ doc.pend.base = c.base
       IN  CASE m \in {"conflict", "failed"} -> Reply(p, m) /\ UNCHANGED doc
             [] m \in {"new", "replay"} /\ doc.pend # None ->
                   /\ IF same /\ Recoverable THEN proc' = [proc EXCEPT ![p].at = "adapter", ![p].prep = doc.pend]
                                                 ELSE Reply(p, "conflict")
                   /\ UNCHANGED doc
             [] m = "replay" /\ doc.pend = None -> Reply(p, "applied") /\ UNCHANGED doc
             [] m = "new" /\ doc.pend = None ->
                   /\ proc' = [proc EXCEPT ![p].at = "adapter", ![p].prep = NewProposal(c)]
                   /\ doc' = Pending(NewProposal(c))
    /\ UNCHANGED Others

recover_provider_operation(p) ==
    /\ p \in Callers /\ proc[p].at = "idle" /\ Cmd[p].op = "recover"
    /\ IF doc.pend = None THEN Reply(p, "not_found")
       ELSE IF doc.state = "needs_review" THEN Reply(p, "conflict")
       ELSE proc' = [proc EXCEPT ![p].at = "adapter", ![p].prep = doc.pend]
    /\ UNCHANGED <<doc, Others>>

\* Seeded fault: the caller does not look for a recovery worker's lease.
FinalizedUnderLease(p) ==
    /\ p \in Callers /\ proc[p].at = "finalize" /\ proc[p].prep.op # "create"
    /\ IF doc.pend = proc[p].prep THEN doc' = Canonical(proc[p].prep, "provider") /\ Reply(p, "applied")
       ELSE Reply(p, IF Applied(proc[p].prep) THEN "applied" ELSE "failed") /\ UNCHANGED doc
    /\ UNCHANGED Others

\* Seeded fault: a proposal that is gone is taken for finished.
FinalizedOnFaith(p) ==
    /\ p \in Callers /\ proc[p].at = "finalize" /\ proc[p].prep.op # "create"
    /\ Reply(p, "applied")
    /\ doc' = IF doc.pend = proc[p].prep /\ ~ActiveLease THEN Canonical(proc[p].prep, "provider") ELSE doc
    /\ UNCHANGED Others

\* The caller's own end of the saga. Somebody else may have finished it, or
\* be about to.
finalize_provider_operation(p) ==
    /\ p \in Callers /\ proc[p].at = "finalize" /\ proc[p].prep.op # "create"
    /\ IF Recoverable /\ doc.pend = proc[p].prep /\ ~ActiveLease
         THEN doc' = Canonical(proc[p].prep, "provider") /\ Reply(p, "applied")
         ELSE /\ Reply(p, IF doc.pend = None /\ Applied(proc[p].prep) THEN "applied" ELSE "failed")
              /\ UNCHANGED doc
    /\ UNCHANGED Others

\* A finished create answers for itself, whatever is pending by now.
finalize_provider_create(p) ==
    /\ p \in Callers /\ proc[p].at = "finalize" /\ proc[p].prep.op = "create"
    /\ IF doc.kind = "absent" /\ Recoverable /\ doc.pend = proc[p].prep /\ ~ActiveLease
         THEN doc' = Canonical(proc[p].prep, "provider") /\ Reply(p, "applied")
         ELSE /\ Reply(p, IF doc.kind = "provider" /\ Applied(proc[p].prep) THEN "applied" ELSE "failed")
              /\ UNCHANGED doc
    /\ UNCHANGED Others

-----------------------------------------------------------------------------
(* The calls to Google, for a caller and for the recovery worker.          *)

\* What the adapter's False and True lead to.
Unconfirmed(p) ==
    IF p \in Workers THEN Go(p, "release") ELSE Reply(p, "pending_provider")

Confirmed(p) == Go(p, "finalize")

Message(p) == [by |-> p, try |-> proc[p].try, prep |-> proc[p].prep, etag |-> proc[p].etag]

Send(p) ==
    /\ wire' = wire \cup {Message(p)}
    /\ proc' = [proc EXCEPT ![p].at = "await", ![p].answer = "none"]

\* No token, an intent of another call, or an error before anything was sent.
Unavailable(p) ==
    /\ proc[p].at \in {"adapter", "patch", "verify", "reconcile"}
    /\ Unconfirmed(p)
    /\ UNCHANGED <<doc, Others>>

create_managed_appointment(p) ==
    /\ proc[p].at = "adapter" /\ proc[p].prep.op = "create" /\ claim = None
    /\ Send(p)
    /\ UNCHANGED <<doc, event, claim, shown, faults>>

cancel_appointment(p) ==
    /\ proc[p].at = "adapter" /\ proc[p].prep.op = "cancel" /\ claim = None
    /\ Send(p)
    /\ UNCHANGED <<doc, event, claim, shown, faults>>

Desired(o) ==
    IF o.op = "reschedule" THEN event.slot = o.arg ELSE event.services = o.services \cup {o.arg}

\* Read before write: the event may be there already, or have moved on.
GetEvent(p) ==
    /\ proc[p].at = "adapter" /\ proc[p].prep.op \in {"reschedule", "add_service"} /\ claim = None
    /\ LET o == proc[p].prep
       IN  IF event.at # "there" THEN Unconfirmed(p)
           ELSE IF Desired(o) THEN Confirmed(p)
           ELSE IF o.op = "reschedule" /\ event.slot # o.slot THEN Unconfirmed(p)
           ELSE proc' = [proc EXCEPT ![p].at = "patch", ![p].etag = event.etag]
    /\ UNCHANGED <<doc, Others>>

\* The write names the etag that was read. A rescheduling is claimed first.
PatchEvent(p) ==
    /\ proc[p].at = "patch" /\ claim = None
    /\ claim' = IF proc[p].prep.op = "reschedule" THEN [by |-> p, prep |-> proc[p].prep] ELSE None
    /\ Send(p)
    /\ UNCHANGED <<doc, event, shown, faults>>

Effect(o) ==
    CASE o.op = "create" -> [NoEvent EXCEPT !.at = "there", !.mark = o, !.slot = o.arg, !.etag = 1]
      [] o.op = "cancel" -> [event EXCEPT !.at = "deleted", !.etag = @ + 1]
      [] o.op = "reschedule" -> [event EXCEPT !.slot = o.arg, !.etag = @ + 1]
      [] o.op = "add_service" -> [event EXCEPT !.services = o.services \cup {o.arg}, !.etag = @ + 1]

\* Seeded fault: the write is not conditional.
AnswerOfBlindWrite(r) ==
    CASE r.prep.op = "create" -> IF event.at = "absent" THEN "ok" ELSE "duplicate"
      [] r.prep.op = "cancel" -> IF event.at = "absent" THEN "refused" ELSE "ok"
      [] OTHER -> IF event.at # "there" THEN "refused" ELSE "ok"

\* Google's answer: 409 for an id that was used, 410 as good as a deletion, 412.
AnswerTo(r) ==
    CASE r.prep.op = "create" -> IF event.at = "absent" THEN "ok" ELSE "duplicate"
      [] r.prep.op = "cancel" -> IF event.at = "absent" THEN "refused" ELSE "ok"
      [] OTHER -> IF event.at # "there" THEN "refused" ELSE IF r.etag # event.etag THEN "precondition" ELSE "ok"

Waits(r) == proc[r.by].at = "await" /\ Message(r.by) = r

\* A request arrives, whether or not anybody still waits for its answer.
Arrive(r) ==
    /\ wire' = wire \ {r}
    /\ LET a == AnswerTo(r)
       IN  /\ event' = IF a = "ok" /\ event.at # "deleted"
                       THEN [Effect(r.prep) EXCEPT !.repeated = event.repeated \/ r.prep \in shown] ELSE event
           /\ shown' = IF a = "ok" THEN shown \cup {r.prep} ELSE shown
           /\ proc' = IF Waits(r) THEN [proc EXCEPT ![r.by].answer = a] ELSE proc
    /\ UNCHANGED <<doc, claim, faults>>

Lose(r) ==
    /\ wire' = wire \ {r}
    /\ UNCHANGED <<doc, event, claim, proc, shown, faults>>

\* The claim ends with an answer that settles the rescheduling.
Settled(p) == IF claim # None /\ claim.by = p THEN None ELSE claim

Answered(p) ==
    /\ proc[p].at = "await" /\ proc[p].answer # "none"
    /\ LET o == proc[p].prep
           a == proc[p].answer
           held == o.op = "reschedule" /\ claim = [by |-> p, prep |-> o]
       IN  /\ CASE a = "ok" -> IF o.op = "reschedule" /\ ~held THEN Unconfirmed(p) ELSE Confirmed(p)
                [] a = "duplicate" -> Go(p, "verify")
                [] a = "precondition" /\ o.op = "add_service" /\ ~proc[p].again ->
                      proc' = [proc EXCEPT ![p].at = "adapter", ![p].again = TRUE]
                [] OTHER -> Unconfirmed(p)
           /\ claim' = Settled(p)
    /\ UNCHANGED <<doc, event, wire, shown, faults>>

\* Seeded fault: a timeout is taken for success.
GaveUpAsDone(p) ==
    /\ proc[p].at = "await" /\ proc[p].answer = "none"
    /\ Confirmed(p)
    /\ UNCHANGED <<doc, Others>>

\* A timeout or a lost answer: the claim stays, as its outcome is unknown.
GiveUp(p) ==
    /\ proc[p].at = "await" /\ proc[p].answer = "none"
    /\ Unconfirmed(p)
    /\ UNCHANGED <<doc, Others>>

\* A used id is this proposal's own event only with its mark and its time.
verify_managed_appointment(p) ==
    /\ proc[p].at = "verify" /\ claim = None
    /\ IF event.at = "there" /\ event.mark = proc[p].prep /\ event.slot = proc[p].prep.arg
         THEN Confirmed(p) ELSE Unconfirmed(p)
    /\ UNCHANGED <<doc, Others>>

-----------------------------------------------------------------------------
(* The recovery worker.                                                    *)

Lease(w) == [by |-> w, attempt |-> proc[w].try]

TakeUp(w, n) ==
    /\ doc' = [doc EXCEPT !.attempts = n, !.due = FALSE, !.lease = [by |-> w, attempt |-> n]]
    /\ proc' = [proc EXCEPT ![w] = [Rest EXCEPT !.at = IF doc.pend.op = "reschedule" THEN "reconcile" ELSE "adapter",
                                                !.prep = doc.pend, !.try = n]]

\* Seeded fault: every attempt counts as the first.
ClaimedAlways(w) ==
    /\ w \in Workers /\ proc[w].at = "idle" /\ Recoverable /\ doc.due
    /\ TakeUp(w, 1)
    /\ UNCHANGED Others

\* Seeded fault: the limit is looked at by the release only.
ClaimedBeyondLimit(w) ==
    /\ w \in Workers /\ proc[w].at = "idle" /\ Recoverable /\ doc.due
    /\ TakeUp(w, doc.attempts + 1)
    /\ UNCHANGED Others

claim_due_provider_recoveries(w) ==
    /\ w \in Workers /\ proc[w].at = "idle"
    /\ Recoverable /\ doc.due
    /\ IF doc.attempts >= MaxAttempts
         THEN doc' = [doc EXCEPT !.state = "needs_review", !.lease = None] /\ UNCHANGED proc
         ELSE TakeUp(w, doc.attempts + 1)
    /\ UNCHANGED Others

\* Before a rescheduling is made again, its claim tells whether it was sent.
reconcile_reschedule(w) ==
    /\ w \in Workers /\ proc[w].at = "reconcile"
    /\ IF claim = None THEN Go(w, "adapter")
       ELSE IF claim.prep = proc[w].prep /\ event.at = "there" /\ event.slot = proc[w].prep.arg THEN Go(w, "reconciled")
       ELSE Go(w, "release")
    /\ UNCHANGED <<doc, Others>>

Owns(w) == doc.lease = Lease(w) /\ Recoverable /\ doc.pend = proc[w].prep

\* The request becomes canonical and the claim goes, in one transaction.
finalize_reconciled_provider_recovery(w) ==
    /\ w \in Workers /\ proc[w].at = "reconciled"
    /\ IF Owns(w) /\ claim # None /\ claim.prep = proc[w].prep
         THEN doc' = Canonical(proc[w].prep, "provider") /\ claim' = None /\ Go(w, "idle")
         ELSE Go(w, "release") /\ UNCHANGED <<doc, claim>>
    /\ UNCHANGED <<event, wire, shown, faults>>

finalize_provider_recovery(w) ==
    /\ w \in Workers /\ proc[w].at = "finalize"
    /\ doc' = IF Owns(w) THEN Canonical(proc[w].prep, "provider") ELSE doc
    /\ Go(w, "idle")
    /\ UNCHANGED Others

release_provider_recovery(w) ==
    /\ w \in Workers /\ proc[w].at = "release"
    /\ doc' = IF ~Owns(w) THEN doc
              ELSE IF proc[w].try >= MaxAttempts THEN [doc EXCEPT !.lease = None, !.state = "needs_review", !.due = TRUE]
              ELSE [doc EXCEPT !.lease = None, !.due = FALSE]
    /\ Go(w, "idle")
    /\ UNCHANGED Others

\* The backoff, or the lease of a worker that stopped, is over.
TimePasses ==
    /\ Recoverable /\ ~doc.due
    /\ doc' = [doc EXCEPT !.due = TRUE]
    /\ UNCHANGED <<proc, Others>>

\* A process stops. A worker's instance is started again.
Crash(p) ==
    /\ faults < MaxFaults /\ proc[p].at \notin {"idle", "done", "gone"}
    /\ proc' = [proc EXCEPT ![p] = [Rest EXCEPT !.at = IF p \in Workers THEN "idle" ELSE "gone"]]
    /\ faults' = faults + 1
    /\ UNCHANGED <<doc, event, claim, wire, shown>>

Run(p) ==
    \/ execute_existing(p) \/ apply(p)
    \/ prepare_provider_create(p) \/ prepare_provider_operation(p) \/ recover_provider_operation(p)
    \/ create_managed_appointment(p) \/ cancel_appointment(p) \/ GetEvent(p) \/ PatchEvent(p)
    \/ Answered(p) \/ GiveUp(p) \/ Unavailable(p) \/ verify_managed_appointment(p)
    \/ finalize_provider_operation(p) \/ finalize_provider_create(p)
    \/ claim_due_provider_recoveries(p) \/ reconcile_reschedule(p) \/ finalize_reconciled_provider_recovery(p)
    \/ finalize_provider_recovery(p) \/ release_provider_recovery(p)

Next ==
    \/ \E p \in Procs : Run(p) \/ Crash(p)
    \/ \E r \in wire : Arrive(r) \/ Lose(r)
    \/ TimePasses

Spec == Init /\ [][Next]_vars

\* The callers that are under way go on, the recovery loop runs again, and time
\* passes; Google and the network promise nothing.
FairSpec ==
    /\ Spec
    /\ WF_vars(TimePasses)
    /\ WF_vars(\E p \in Callers : Run(p))
    /\ \A w \in Workers : WF_vars(Run(w))

-----------------------------------------------------------------------------
(* What the saga promises.                                                 *)

\* "Kevin may claim a mutation succeeded only after provider confirmation
\* and canonical finalization": who is told a change was applied finds it in
\* the canonical request (ServiceRequestCommandService).
AppliedIsCanonical ==
    \A p \in Callers : proc[p].reply = "applied" =>
        LET o == IF Cmd[p].op = "recover" THEN proc[p].prep ELSE Cmd[p] IN Applied(o)

\* The other half: the canonical request of a provider holds only changes
\* whose effect the calendar has had, whoever finalized them; likewise unless
\* a finished operation was applied again.
CanonicalWasShown ==
    doc.kind = "provider" /\ ~event.repeated => \A e \in doc.done : \E o \in shown : Line(o) = e

\* A proposal is neither replaced nor dropped: it stays until its own change
\* is canonical (prepare_provider_*, finalize_provider_*, the recovery's
\* release and needs_review).
ProposalIsKept ==
    [][doc.pend # None => doc'.pend = doc.pend \/ (doc'.pend = None /\ Line(doc.pend) \in doc'.done)]_vars

\* While a recovery worker's lease lives, nobody else ends it, not even with
\* a result (_active_recovery_lease, _lease_matches).
LiveLeaseIsRespected ==
    [][ActiveLease /\ doc'.lease # doc.lease => proc[doc.lease.by].at \in {"finalize", "reconciled", "release"}
                                                /\ proc'[doc.lease.by].at = "idle"]_vars

\* With nothing pending, the calendar shows what the canonical request says, unless a finished
\* operation was applied to it again (the provider-backed request and its bound event).
CalendarAgrees ==
    doc.kind = "provider" /\ doc.pend = None /\ ~event.repeated =>
        /\ event.at = IF doc.open THEN "there" ELSE "deleted"
        /\ doc.open => event.slot = doc.slot /\ event.services = doc.services

\* "Verify cancel, reschedule, and add-service each change the provider once"
\* (docs/customer-memory-rollout.md): no call makes a change again that the calendar has had.
EachChangesProviderOnce == ~event.repeated

\* A pending proposal is finished or given to an operator in the end, however
\* often a provider call fails (service_request_recovery_worker_loop).
PendingIsSettled == doc.state = "pending" ~> doc.state # "pending"

\* What anybody is told and what anybody can read of a request is true: of the caller's own
\* command, of the calendar's history, and, with nothing pending, of the calendar itself.
RequestIsTrue == TypeOK /\ AppliedIsCanonical /\ CanonicalWasShown /\ CalendarAgrees

\* Only its own result ends a proposal, and only its owner or its expiry ends a lease.
ProposalIsOwned == ProposalIsKept /\ LiveLeaseIsRespected
=============================================================================
