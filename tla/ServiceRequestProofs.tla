------------------------- MODULE ServiceRequestProofs -------------------------
(***************************************************************************)
(* Proofs about ServiceRequests: a proposal stays until its own change is  *)
(* canonical, a live lease is ended by its holder alone, who hears that a  *)
(* change was applied finds it on the request, and the calendar shows what *)
(* the request says, for any commands, callers, workers and number of      *)
(* crashes. What a step does to the document is stated first (DocSteps);   *)
(* SagaInv follows from that, and TracksInv, about the calendar, from both.*)
(***************************************************************************)
EXTENDS ServiceRequests, TLAPS

\* The steps at which a run holds a proposal.
Held == {"adapter", "patch", "await", "verify", "finalize", "reconcile", "reconciled", "release"}

\* What a command can ask for.
Sound(o) ==
    /\ o.op \in {"create", "reschedule"} => o.arg \in Slots
    /\ o.op = "add_service" => o.arg \in Labels
    /\ o.op = "create" => o.base = 0

Same(c, o) == o.op = c.op /\ o.arg = c.arg /\ o.base = c.base

On(done, o) == \E e \in done : Same(o, e)

Asked(p, r) == IF Cmd[p].op = "recover" THEN r.prep ELSE Cmd[p]

DocFits(d) ==
    /\ d \in Docs
    /\ d.pend # None => Sound(d.pend)
    /\ d.lease # None => d.pend # None

\* What a run holds is what it was asked for, and its answer is on record.
RunFits(p, r, done) ==
    /\ r \in Runs
    /\ r.prep # None => Sound(r.prep)
    /\ r.at \in Held => r.prep # None
    /\ r.reply # "none" => r.at = "done"
    /\ p \in Callers /\ r.at \in {"prepare", "apply"} => Cmd[p].op \notin {"create", "recover"}
    /\ p \in Callers /\ Cmd[p].op # "recover" /\ r.prep # None => Same(Cmd[p], r.prep)
    /\ p \in Callers /\ r.reply = "applied" => On(done, Asked(p, r))

SagaInv ==
    /\ DocFits(doc)
    /\ event \in Events
    /\ claim \in {None} \cup [by : Procs, prep : Proposal]
    /\ proc \in [Procs -> Runs]
    /\ \A p \in Procs : RunFits(p, proc[p], doc.done)
    /\ \A r \in wire : r \in Request /\ Sound(r.prep)
    /\ shown \subseteq Proposal
    /\ faults \in 0 .. MaxFaults

-----------------------------------------------------------------------------
(* Definitions by cases, as disjunctions.                                  *)

LEMMA Mutations ==
    ASSUME NEW c
    PROVE  /\ Mutation(c) \in {"replay", "conflict", "failed", "new"}
           /\ Mutation(c) = "replay" => Line(c) \in doc.done
           /\ Mutation(c) = "new" /\ c.op = "create" => c.base = 0 /\ doc.kind = "absent"
           /\ Mutation(c) = "new" /\ c.op # "create" =>
                c.base = doc.rev /\ doc.open /\ c.arg # doc.slot /\ c.arg \notin doc.services
<1> DEFINE mine == {e \in doc.done : e.key = c.key}
<1>1. CASE mine = {Line(c)}
  <2>1. Mutation(c) = "replay" BY <1>1, Zenon DEF Mutation
  <2>2. Line(c) \in doc.done BY <1>1
  <2> QED BY <2>1, <2>2
<1>2. CASE mine \notin {{}, {Line(c)}}
  <2>1. Mutation(c) = "conflict" BY <1>2, Zenon DEF Mutation
  <2>2. Mutation(c) # "new" /\ Mutation(c) # "replay" BY <2>1
  <2> QED BY <2>1, <2>2, Zenon
<1>3. CASE mine = {} /\ mine # {Line(c)} /\ c.op = "create"
  <2>1. Mutation(c) = IF doc.kind # "absent" THEN "failed" ELSE IF c.base # 0 THEN "conflict" ELSE "new"
    BY <1>3, Zenon DEF Mutation
  <2> QED BY <1>3, <2>1
<1>4. CASE mine = {} /\ mine # {Line(c)} /\ c.op # "create"
  <2>1. Mutation(c) = IF c.base # doc.rev THEN "conflict"
                      ELSE IF ~doc.open \/ c.arg = doc.slot \/ c.arg \in doc.services THEN "failed" ELSE "new"
    BY <1>4, Zenon DEF Mutation
  <2> QED BY <1>4, <2>1
<1> QED BY <1>1, <1>2, <1>3, <1>4

LEMMA Executes ==
    ASSUME NEW p, execute_existing(p), DocFits(doc)
    PROVE  \/ \E x \in {"failed", "not_found"} : Reply(p, x)
           \/ Go(p, "prepare") \/ Go(p, "apply")
<1>1. CASE doc.kind = "absent"
  <2>1. Reply(p, IF doc.state = "needs_review" THEN "failed" ELSE "not_found") BY <1>1, Zenon DEF execute_existing
  <2> QED BY <2>1
<1>2. CASE doc.kind = "provider"
  <2>1. doc.kind # "absent" BY <1>2
  <2> QED BY <1>2, <2>1, Zenon DEF execute_existing
<1>3. CASE doc.kind = "local"
  <2>1. doc.kind # "absent" /\ doc.kind # "provider" BY <1>3
  <2> QED BY <1>3, <2>1, Zenon DEF execute_existing
<1> QED BY <1>1, <1>2, <1>3 DEF DocFits, Docs

LEMMA CreatesPrepared ==
    ASSUME NEW p, prepare_provider_create(p), DocFits(doc)
    PROVE  LET o == NewProposal(Cmd[p])
           IN  \/ Reply(p, "conflict") /\ doc' = doc
               \/ Reply(p, "applied") /\ Applied(o) /\ doc' = doc
               \/ /\ doc.pend = None /\ doc' = Pending(o) /\ o.base = 0
                  /\ proc' = [proc EXCEPT ![p].at = "adapter", ![p].prep = o]
               \/ /\ doc.pend # None /\ doc.pend.op = "create" /\ doc.pend.arg = o.arg /\ o.base = 0 /\ doc' = doc
                  /\ proc' = [proc EXCEPT ![p].at = "adapter", ![p].prep = doc.pend]
BY Zenon DEF prepare_provider_create

LEMMA OperationsPrepared ==
    ASSUME NEW p, prepare_provider_operation(p)
    PROVE  LET c == Cmd[p]
           IN  \/ \E x \in {"conflict", "failed"} : Reply(p, x) /\ doc' = doc
               \/ Reply(p, "applied") /\ Line(c) \in doc.done /\ doc' = doc
               \/ /\ doc.pend = None /\ doc' = Pending(NewProposal(c))
                  /\ proc' = [proc EXCEPT ![p].at = "adapter", ![p].prep = NewProposal(c)]
               \/ /\ doc.pend # None /\ Same(c, doc.pend) /\ doc' = doc
                  /\ proc' = [proc EXCEPT ![p].at = "adapter", ![p].prep = doc.pend]
<1> DEFINE m == Mutation(Cmd[p])
<1>1. m \in {"replay", "conflict", "failed", "new"} /\ (m = "replay" => Line(Cmd[p]) \in doc.done) BY Mutations
<1>2. CASE m \in {"conflict", "failed"}
  <2>1. Reply(p, m) /\ UNCHANGED doc BY <1>2, Zenon DEF prepare_provider_operation
  <2> QED BY <1>2, <2>1
<1>3. CASE m \in {"new", "replay"} /\ doc.pend # None
  <2>1. m \notin {"conflict", "failed"} BY <1>3
  <2>2. \/ Reply(p, "conflict") /\ UNCHANGED doc
        \/ /\ Same(Cmd[p], doc.pend) /\ UNCHANGED doc
           /\ proc' = [proc EXCEPT ![p].at = "adapter", ![p].prep = doc.pend]
    BY <1>3, <2>1, Zenon DEF prepare_provider_operation, Same
  <2> QED BY <1>3, <2>2
<1>4. CASE m = "replay" /\ doc.pend = None
  <2>1. m \notin {"conflict", "failed"} BY <1>4
  <2>2. Reply(p, "applied") /\ UNCHANGED doc BY <1>4, <2>1, Zenon DEF prepare_provider_operation
  <2> QED BY <1>1, <1>4, <2>2
<1>5. CASE m = "new" /\ doc.pend = None
  <2>1. m \notin {"conflict", "failed"} /\ m # "replay" BY <1>5
  <2>2. /\ proc' = [proc EXCEPT ![p].at = "adapter", ![p].prep = NewProposal(Cmd[p])]
        /\ doc' = Pending(NewProposal(Cmd[p]))
    BY <1>5, <2>1, Zenon DEF prepare_provider_operation
  <2> QED BY <1>5, <2>2
<1> QED BY <1>1, <1>2, <1>3, <1>4, <1>5

LEMMA Answers ==
    ASSUME NEW p, Answered(p)
    PROVE  \/ Unconfirmed(p) \/ Confirmed(p) \/ Go(p, "verify")
           \/ proc' = [proc EXCEPT ![p].at = "adapter", ![p].again = TRUE]
BY Zenon DEF Answered
-----------------------------------------------------------------------------
(* What a step does to the request.                                        *)

Proposed == doc.pend = None /\ \E o \in Proposal : Sound(o) /\ doc' = Pending(o)

LocallyApplied ==
    /\ doc.pend = None
    /\ \E o \in Proposal : Sound(o) /\ doc' = Canonical(o, "local")

FinishedByCaller == doc.pend # None /\ ~ActiveLease /\ doc' = Canonical(doc.pend, "provider")

Owner(w) == Owns(w) /\ proc[w].at \in {"finalize", "reconciled", "release"} /\ proc'[w].at = "idle"

FinishedBy(w) == Owner(w) /\ doc' = Canonical(doc.pend, "provider")

Released(w) ==
    /\ Owner(w)
    /\ \/ doc' = [doc EXCEPT !.lease = None, !.state = "needs_review", !.due = TRUE]
       \/ doc' = [doc EXCEPT !.lease = None, !.due = FALSE]

Leased(w) ==
    /\ doc.pend # None /\ doc.due
    /\ \E n \in 1 .. MaxAttempts :
          doc' = [doc EXCEPT !.attempts = n, !.due = FALSE, !.lease = [by |-> w, attempt |-> n]]

Reviewed == doc.pend # None /\ doc.due /\ doc' = [doc EXCEPT !.state = "needs_review", !.lease = None]

Ticked == doc.pend # None /\ doc' = [doc EXCEPT !.due = TRUE]

DocStep ==
    \/ doc' = doc
    \/ Proposed \/ LocallyApplied \/ FinishedByCaller \/ Reviewed \/ Ticked
    \/ \E w \in Workers : FinishedBy(w) \/ Released(w) \/ Leased(w)

\* A command's proposal is sound.
LEMMA NewIsSound ==
    ASSUME SagaInv, NEW c \in Callers, Cmd[c].op # "recover", Cmd[c].op = "create" => Cmd[c].base = 0
    PROVE  /\ NewProposal(Cmd[c]) \in Proposal /\ Sound(NewProposal(Cmd[c]))
           /\ Same(Cmd[c], NewProposal(Cmd[c]))
BY ServiceRequestAssumption DEF SagaInv, DocFits, Docs, NewProposal, Proposal, Sound, Same

\* The document changes in nine ways, whoever takes the step.
LEMMA DocSteps ==
    ASSUME SagaInv, Next
    PROVE  DocStep
<1>1. ASSUME NEW p \in Callers, apply(p) PROVE DocStep
  <2>1. Cmd[p].op # "recover" BY <1>1 DEF SagaInv, RunFits, apply, Procs
  <2>2. CASE Mutation(Cmd[p]) = "new" /\ doc.pend = None
    <3>1. NewProposal(Cmd[p]) \in Proposal /\ Sound(NewProposal(Cmd[p])) BY <2>1, <2>2, NewIsSound, Mutations
    <3> QED BY <1>1, <2>2, <3>1 DEF apply, DocStep, LocallyApplied
  <2>3. CASE ~(Mutation(Cmd[p]) = "new" /\ doc.pend = None) BY <1>1, <2>3 DEF apply, DocStep
  <2> QED BY <2>2, <2>3
<1>2. ASSUME NEW p \in Callers, prepare_provider_create(p) PROVE DocStep
  <2>1. Cmd[p].op = "create" BY <1>2 DEF prepare_provider_create
  <2>2. DocFits(doc) BY DEF SagaInv
  <2>3. CASE doc.pend = None /\ doc' = Pending(NewProposal(Cmd[p])) /\ NewProposal(Cmd[p]).base = 0
    <3>1. Cmd[p].base = 0 BY <2>3 DEF NewProposal
    <3> QED BY <2>1, <2>3, <3>1, NewIsSound DEF DocStep, Proposed
  <2> QED BY <1>2, <2>2, <2>3, CreatesPrepared DEF DocStep
<1>3. ASSUME NEW p \in Callers, prepare_provider_operation(p) PROVE DocStep
  <2>1. Cmd[p].op \notin {"create", "recover"} BY <1>3 DEF SagaInv, RunFits, prepare_provider_operation, Procs
  <2>2. CASE doc.pend = None /\ doc' = Pending(NewProposal(Cmd[p]))
    BY <2>1, <2>2, NewIsSound DEF DocStep, Proposed
  <2> QED BY <1>3, <2>2, OperationsPrepared DEF DocStep
<1>4. ASSUME NEW p \in Callers, finalize_provider_operation(p) \/ finalize_provider_create(p) PROVE DocStep
  BY <1>4 DEF finalize_provider_operation, finalize_provider_create, DocStep, FinishedByCaller, Recoverable
<1>5. ASSUME NEW w \in Workers, claim_due_provider_recoveries(w) PROVE DocStep
  <2>1. CASE doc.attempts >= MaxAttempts
    BY <1>5, <2>1 DEF claim_due_provider_recoveries, DocStep, Reviewed, Recoverable
  <2>2. CASE ~(doc.attempts >= MaxAttempts)
    <3>1. doc.attempts + 1 \in 1 .. MaxAttempts
      BY <2>2, ServiceRequestAssumption DEF SagaInv, DocFits, Docs
    <3> QED BY <1>5, <2>2, <3>1 DEF claim_due_provider_recoveries, TakeUp, DocStep, Leased, Recoverable
  <2> QED BY <2>1, <2>2
<1>6. ASSUME NEW w \in Workers, finalize_reconciled_provider_recovery(w) PROVE DocStep
  <2>1. proc[w] \in Runs /\ proc \in [Procs -> Runs] BY DEF SagaInv, Procs
  <2> QED BY <1>6, <2>1 DEF finalize_reconciled_provider_recovery, DocStep, FinishedBy, Owner, Owns, Go, Procs, Runs
<1>7. ASSUME NEW w \in Workers, finalize_provider_recovery(w) PROVE DocStep
  <2>1. proc[w] \in Runs /\ proc \in [Procs -> Runs] BY DEF SagaInv, Procs
  <2> QED BY <1>7, <2>1 DEF finalize_provider_recovery, DocStep, FinishedBy, Owner, Owns, Go, Procs, Runs
<1>8. ASSUME NEW w \in Workers, release_provider_recovery(w) PROVE DocStep
  <2>1. proc[w] \in Runs /\ proc \in [Procs -> Runs] BY DEF SagaInv, Procs
  <2> QED BY <1>8, <2>1 DEF release_provider_recovery, DocStep, Released, Owner, Owns, Go, Procs, Runs
<1>9. CASE TimePasses BY <1>9 DEF TimePasses, DocStep, Ticked, Recoverable
<1>10. ASSUME NEW p \in Procs,
              execute_existing(p) \/ recover_provider_operation(p) \/ create_managed_appointment(p) \/ cancel_appointment(p)
              \/ GetEvent(p) \/ PatchEvent(p) \/ Answered(p) \/ GiveUp(p) \/ Unavailable(p)
              \/ verify_managed_appointment(p) \/ reconcile_reschedule(p) \/ Crash(p)
       PROVE  doc' = doc
  BY <1>10, Zenon DEF execute_existing, recover_provider_operation, create_managed_appointment, cancel_appointment, GetEvent,
     PatchEvent, Answered, GiveUp, Unavailable, verify_managed_appointment, reconcile_reschedule, Crash
<1>11. ASSUME NEW r \in wire, Arrive(r) \/ Lose(r) PROVE doc' = doc
  BY <1>11 DEF Arrive, Lose
<1>12. ASSUME NEW p \in Procs, Run(p) PROVE DocStep
  BY <1>1, <1>2, <1>3, <1>4, <1>5, <1>6, <1>7, <1>8, <1>10, <1>12
     DEF Run, DocStep, apply, prepare_provider_create, prepare_provider_operation, finalize_provider_operation,
         finalize_provider_create, claim_due_provider_recoveries, finalize_reconciled_provider_recovery,
         finalize_provider_recovery, release_provider_recovery
<1> QED BY <1>9, <1>10, <1>11, <1>12 DEF Next, DocStep
-----------------------------------------------------------------------------
(* The request.                                                            *)

\* The canonical request, field by field.
LEMMA Canonicals ==
    ASSUME NEW o, NEW k
    PROVE  Canonical(o, k) =
             [kind |-> k, rev |-> o.base + 1, open |-> o.op # "cancel",
              slot |-> IF o.op \in {"create", "reschedule"} THEN o.arg ELSE doc.slot,
              services |-> IF o.op = "add_service" THEN doc.services \cup {o.arg} ELSE doc.services,
              done |-> doc.done \cup {Line(o)}, pend |-> None, state |-> "none", attempts |-> 0, due |-> FALSE, lease |-> None]
<1> DEFINE slot == IF o.op \in {"create", "reschedule"} THEN o.arg ELSE doc.slot
           services == IF o.op = "add_service" THEN doc.services \cup {o.arg} ELSE doc.services
           done == doc.done \cup {Line(o)}
<1>1. Canonical(o, k) = [Blank EXCEPT !.kind = k, !.rev = o.base + 1, !.open = o.op # "cancel", !.slot = slot,
                                      !.services = services, !.done = done]
  BY Zenon DEF Canonical, slot, services, done
<1>2. Canonical(o, k) = [kind |-> k, rev |-> o.base + 1, open |-> o.op # "cancel", slot |-> slot, services |-> services,
                         done |-> done, pend |-> None, state |-> "none", attempts |-> 0, due |-> FALSE, lease |-> None]
  <2> HIDE DEF slot, services, done
  <2> QED BY <1>1 DEF Blank
<1> QED BY <1>2, Zenon DEF slot, services, done

\* Finishing a proposal leaves a canonical request with its line.
LEMMA Finishing ==
    ASSUME DocFits(doc), NEW o \in Proposal, Sound(o), NEW k \in {"local", "provider"}
    PROVE  /\ DocFits(Canonical(o, k)) /\ doc.done \subseteq Canonical(o, k).done
           /\ Line(o) \in Canonical(o, k).done
           /\ Canonical(o, k).pend = None /\ Canonical(o, k).lease = None
<1>1. Line(o) \in Entry BY DEF Line, Entry, Proposal
<1> DEFINE slot == IF o.op \in {"create", "reschedule"} THEN o.arg ELSE doc.slot
           services == IF o.op = "add_service" THEN doc.services \cup {o.arg} ELSE doc.services
           done == doc.done \cup {Line(o)}
<1>3. slot \in Slots \cup {None} /\ services \in SUBSET Labels /\ done \in SUBSET Entry /\ o.base + 1 \in Nat
  BY <1>1 DEF DocFits, Docs, Proposal, Sound
<1>4. Canonical(o, k) = [kind |-> k, rev |-> o.base + 1, open |-> o.op # "cancel", slot |-> slot, services |-> services,
                         done |-> done, pend |-> None, state |-> "none", attempts |-> 0, due |-> FALSE, lease |-> None]
  BY Canonicals, Zenon DEF slot, services, done
<1> HIDE DEF slot, services, done
<1>2. Canonical(o, k) \in Docs BY <1>3, <1>4, ServiceRequestAssumption DEF Docs
<1>5. Canonical(o, k).pend = None /\ Canonical(o, k).lease = None /\ Canonical(o, k).done = done BY <1>4
<1> QED BY <1>2, <1>5 DEF DocFits, done

\* Whatever the step, the request fits and what is on record stays there.
LEMMA DocKept ==
    ASSUME SagaInv, DocStep
    PROVE  DocFits(doc') /\ doc.done \subseteq doc'.done
<1>1. DocFits(doc) BY DEF SagaInv
<1>2. CASE Proposed
  <2>1. PICK o \in Proposal : Sound(o) /\ doc' = Pending(o) BY <1>2 DEF Proposed
  <2>2. doc' = [doc EXCEPT !.pend = o, !.state = "pending", !.attempts = 0, !.due = TRUE, !.lease = None]
    BY <2>1 DEF Pending
  <2>5. 0 \in 0 .. MaxAttempts /\ doc \in Docs BY <1>1, ServiceRequestAssumption DEF DocFits
  <2>3. doc' \in Docs BY <2>2, <2>5 DEF Docs
  <2>4. doc'.pend = o /\ doc'.lease = None /\ doc'.done = doc.done BY <1>1, <2>2 DEF DocFits, Docs
  <2> QED BY <2>1, <2>3, <2>4 DEF DocFits
<1>3. CASE LocallyApplied BY <1>1, <1>3, Finishing DEF LocallyApplied
<1>4. CASE FinishedByCaller \/ \E w \in Workers : FinishedBy(w)
  <2>1. doc.pend # None /\ doc' = Canonical(doc.pend, "provider")
    BY <1>4 DEF FinishedByCaller, FinishedBy, Owner, Owns, Recoverable
  <2>2. doc.pend \in Proposal /\ Sound(doc.pend) BY <1>1, <2>1 DEF DocFits, Docs
  <2> QED BY <1>1, <2>1, <2>2, Finishing
<1>5. CASE \E w \in Workers : Leased(w)
  <2>1. PICK w \in Workers, n \in 1 .. MaxAttempts :
              /\ doc.pend # None
              /\ doc' = [doc EXCEPT !.attempts = n, !.due = FALSE, !.lease = [by |-> w, attempt |-> n]]
    BY <1>5 DEF Leased
  <2>2. [by |-> w, attempt |-> n] \in Leases /\ n \in 0 .. MaxAttempts BY ServiceRequestAssumption DEF Leases
  <2> QED BY <1>1, <2>1, <2>2 DEF DocFits, Docs
<1>6. CASE Reviewed \/ Ticked \/ \E w \in Workers : Released(w)
  BY <1>1, <1>6 DEF DocFits, Docs, Reviewed, Ticked, Released
<1> QED BY <1>1, <1>2, <1>3, <1>4, <1>5, <1>6 DEF DocStep

-----------------------------------------------------------------------------
(* The runs.                                                               *)

\* Run p moves, and what it then holds fits; nobody else's run changes.
Moves(p) ==
    /\ proc' \in [Procs -> Runs]
    /\ \A q \in Procs \ {p} : proc'[q] = proc[q]
    /\ RunFits(p, proc'[p], doc'.done)

LEMMA RunsAreFit ==
    ASSUME SagaInv, NEW p \in Procs
    PROVE  /\ proc[p] \in Runs /\ proc \in [Procs -> Runs] /\ RunFits(p, proc[p], doc.done)
           /\ doc.pend # None => doc.pend \in Proposal /\ Sound(doc.pend)
BY DEF SagaInv, DocFits, Docs

\* What is on record stays there.
LEMMA OnGrows ==
    ASSUME NEW d, NEW e, d \subseteq e, NEW o, On(d, o)
    PROVE  On(e, o)
BY DEF On

LEMMA FitsGrows ==
    ASSUME NEW d, NEW e, d \subseteq e, NEW p, NEW r, RunFits(p, r, d)
    PROVE  RunFits(p, r, e)
BY OnGrows DEF RunFits

\* A run that answers fits.
LEMMA Answering ==
    ASSUME SagaInv, NEW p \in Procs, doc.done \subseteq doc'.done, NEW x \in Replies, Reply(p, x),
           p \in Callers /\ x = "applied" => On(doc'.done, Asked(p, proc[p]))
    PROVE  Moves(p)
<1>1. proc' \in [Procs -> Runs] /\ \A q \in Procs \ {p} : proc'[q] = proc[q] BY RunsAreFit DEF Reply, Runs
<1>2. /\ proc'[p].prep = proc[p].prep /\ proc'[p].at = "done" /\ proc'[p].reply = x
      /\ Asked(p, proc'[p]) = Asked(p, proc[p])
  BY RunsAreFit DEF Reply, Runs, Asked
<1> QED BY <1>1, <1>2, RunsAreFit DEF Moves, RunFits, Held

\* A run that goes on fits.
LEMMA Goes ==
    ASSUME SagaInv, NEW p \in Procs, doc.done \subseteq doc'.done,
           NEW a \in Held \cup {"idle", "prepare", "apply"}, Go(p, a),
           a \in Held => proc[p].prep # None, proc[p].at # "done",
           p \in Callers /\ a \in {"prepare", "apply"} => Cmd[p].op \notin {"create", "recover"}
    PROVE  Moves(p)
<1>1. proc' \in [Procs -> Runs] /\ \A q \in Procs \ {p} : proc'[q] = proc[q] BY RunsAreFit DEF Go, Runs, Held
<1>2. /\ proc'[p].prep = proc[p].prep /\ proc'[p].at = a /\ proc'[p].reply = proc[p].reply
      /\ Asked(p, proc'[p]) = Asked(p, proc[p])
  BY RunsAreFit DEF Go, Runs, Asked
<1> QED BY <1>1, <1>2, RunsAreFit, OnGrows DEF Moves, RunFits

\* A run takes up a proposal that is what it was asked for.
LEMMA Takes ==
    ASSUME SagaInv, NEW p \in Callers, doc.done \subseteq doc'.done, NEW o \in Proposal, Sound(o),
           Cmd[p].op # "recover" => Same(Cmd[p], o), proc[p].at # "done",
           proc' = [proc EXCEPT ![p].at = "adapter", ![p].prep = o]
    PROVE  Moves(p)
<1> p \in Procs BY DEF Procs
<1>1. proc' \in [Procs -> Runs] /\ \A q \in Procs \ {p} : proc'[q] = proc[q] BY RunsAreFit DEF Runs
<1>2. proc'[p].prep = o /\ proc'[p].at = "adapter" /\ proc'[p].reply = proc[p].reply BY RunsAreFit DEF Runs
<1>3. o # None /\ proc[p].reply = "none" BY ServiceRequestAssumption, RunsAreFit DEF RunFits
<1> QED BY <1>1, <1>2, <1>3 DEF Moves, RunFits

\* The False and True of the adapter.
LEMMA Concludes ==
    ASSUME SagaInv, NEW p \in Procs, doc' = doc, proc[p].prep # None, proc[p].at # "done",
           Unconfirmed(p) \/ Confirmed(p)
    PROVE  Moves(p)
BY Goes, Answering DEF Unconfirmed, Confirmed, Held, Replies, Procs
\* The steps of the application's commands.
LEMMA CallerMoves ==
    ASSUME SagaInv, NEW p \in Callers, doc.done \subseteq doc'.done,
           \/ execute_existing(p) \/ apply(p) \/ prepare_provider_create(p) \/ prepare_provider_operation(p)
           \/ recover_provider_operation(p) \/ finalize_provider_operation(p) \/ finalize_provider_create(p)
    PROVE  Moves(p)
<1> p \in Procs /\ DocFits(doc) BY DEF Procs, SagaInv
<1> DEFINE o == NewProposal(Cmd[p])
<1>0. Line(Cmd[p]) \in doc.done /\ Cmd[p].op # "recover" => On(doc'.done, Asked(p, proc[p]))
  BY DEF On, Asked, Same, Line
<1>1. CASE execute_existing(p)
  <2>1. Cmd[p].op \notin {"create", "recover"} /\ proc[p].at = "idle" BY <1>1 DEF execute_existing
  <2> QED BY <1>1, <2>1, Executes, Goes, Answering DEF Replies, Held
<1>2. CASE apply(p)
  <2>1. Cmd[p].op # "recover" BY <1>2, RunsAreFit DEF RunFits, apply
  <2>2. CASE doc.pend # None \/ doc.kind = "provider" BY <1>2, <2>2, Answering DEF apply, Replies
  <2>3. CASE ~(doc.pend # None \/ doc.kind = "provider")
    <3> DEFINE m == Mutation(Cmd[p])
    <3>1. /\ Reply(p, IF m \in {"replay", "new"} THEN "applied" ELSE m)
          /\ doc' = IF m = "new" THEN Canonical(o, "local") ELSE doc
      BY <1>2, <2>3 DEF apply
    <3>2. CASE m = "new"
      <4>1. o \in Proposal /\ Sound(o) BY <2>1, <3>2, NewIsSound, Mutations
      <4>2. Line(o) \in doc'.done BY <3>1, <3>2, <4>1, Finishing
      <4>3. On(doc'.done, Asked(p, proc[p])) BY <2>1, <4>2 DEF On, Asked, Same, Line, NewProposal
      <4> QED BY <3>1, <3>2, <4>3, Answering DEF Replies
    <3>3. CASE m = "replay"
      <4>1. On(doc'.done, Asked(p, proc[p])) BY <1>0, <2>1, <3>1, <3>3, Mutations
      <4> QED BY <3>1, <3>3, <4>1, Answering DEF Replies
    <3>4. CASE m \in {"conflict", "failed"} BY <3>1, <3>4, Answering DEF Replies
    <3> QED BY <3>2, <3>3, <3>4, Mutations
  <2> QED BY <2>2, <2>3
<1>3. CASE prepare_provider_create(p)
  <2>1. Cmd[p].op = "create" /\ proc[p].at = "idle" BY <1>3 DEF prepare_provider_create
  <2>2. o.op = Cmd[p].op /\ o.arg = Cmd[p].arg /\ o.base = Cmd[p].base BY DEF NewProposal
  <2>3. CASE Reply(p, "conflict") BY <2>3, Answering DEF Replies
  <2>4. CASE Reply(p, "applied") /\ Applied(o) /\ doc' = doc
    <3>1. On(doc'.done, Asked(p, proc[p])) BY <2>1, <2>2, <2>4 DEF Applied, On, Same, Asked
    <3> QED BY <2>4, <3>1, Answering DEF Replies
  <2>5. CASE o.base = 0 /\ proc' = [proc EXCEPT ![p].at = "adapter", ![p].prep = o]
    BY <2>1, <2>2, <2>5, NewIsSound, Takes
  <2>6. CASE /\ doc.pend # None /\ doc.pend.op = "create" /\ doc.pend.arg = o.arg /\ o.base = 0
             /\ proc' = [proc EXCEPT ![p].at = "adapter", ![p].prep = doc.pend]
    <3>1. doc.pend \in Proposal /\ Sound(doc.pend) BY <2>6, RunsAreFit
    <3>2. Same(Cmd[p], doc.pend) BY <2>1, <2>2, <2>6, <3>1 DEF Same, Sound
    <3> QED BY <2>1, <2>6, <3>1, <3>2, Takes
  <2> QED BY <1>3, <2>3, <2>4, <2>5, <2>6, CreatesPrepared
<1>4. CASE prepare_provider_operation(p)
  <2>1. Cmd[p].op \notin {"create", "recover"} /\ proc[p].at = "prepare"
    BY <1>4, RunsAreFit DEF RunFits, prepare_provider_operation
  <2>2. CASE \E x \in {"conflict", "failed"} : Reply(p, x) BY <2>2, Answering DEF Replies
  <2>3. CASE Reply(p, "applied") /\ Line(Cmd[p]) \in doc.done BY <1>0, <2>1, <2>3, Answering DEF Replies
  <2>4. CASE proc' = [proc EXCEPT ![p].at = "adapter", ![p].prep = o]
    BY <2>1, <2>4, NewIsSound, Takes
  <2>5. CASE doc.pend # None /\ Same(Cmd[p], doc.pend) /\ proc' = [proc EXCEPT ![p].at = "adapter", ![p].prep = doc.pend]
    BY <2>1, <2>5, RunsAreFit, Takes
  <2> QED BY <1>4, <2>2, <2>3, <2>4, <2>5, OperationsPrepared
<1>5. CASE recover_provider_operation(p)
  <2>1. Cmd[p].op = "recover" /\ proc[p].at = "idle" BY <1>5 DEF recover_provider_operation
  <2>2. CASE doc.pend = None \/ doc.state = "needs_review"
    BY <1>5, <2>2, Answering DEF recover_provider_operation, Replies
  <2>3. CASE ~(doc.pend = None \/ doc.state = "needs_review")
    <3>1. proc' = [proc EXCEPT ![p].at = "adapter", ![p].prep = doc.pend] BY <1>5, <2>3 DEF recover_provider_operation
    <3> QED BY <2>1, <2>3, <3>1, RunsAreFit, Takes
  <2> QED BY <2>2, <2>3
<1>6. CASE finalize_provider_operation(p) \/ finalize_provider_create(p)
  <2>1. proc[p].prep \in Proposal /\ Sound(proc[p].prep) /\ proc[p].at = "finalize"
    BY <1>6, RunsAreFit DEF RunFits, Held, Runs, finalize_provider_operation, finalize_provider_create
  <2>2. Cmd[p].op # "recover" => Same(Cmd[p], proc[p].prep) BY <2>1, RunsAreFit, ServiceRequestAssumption DEF RunFits
  <2>3. CASE doc' = Canonical(proc[p].prep, "provider") /\ Reply(p, "applied")
    <3>1. Line(proc[p].prep) \in doc'.done BY <2>1, <2>3, Finishing
    <3>2. On(doc'.done, Asked(p, proc[p])) BY <2>2, <3>1 DEF On, Asked, Same, Line
    <3> QED BY <2>3, <3>2, Answering DEF Replies
  <2>4. CASE doc' = doc /\ Reply(p, "applied") /\ Applied(proc[p].prep)
    <3>1. On(doc'.done, Asked(p, proc[p])) BY <2>2, <2>4 DEF On, Asked, Same, Applied
    <3> QED BY <2>4, <3>1, Answering DEF Replies
  <2>5. CASE Reply(p, "failed") BY <2>5, Answering DEF Replies
  <2> QED BY <1>6, <2>3, <2>4, <2>5 DEF finalize_provider_operation, finalize_provider_create
<1> QED BY <1>1, <1>2, <1>3, <1>4, <1>5, <1>6

\* A request to Google is of the run that waits for it.
LEMMA Sends ==
    ASSUME SagaInv, NEW p \in Procs, doc' = doc, proc[p].at \in Held, Send(p)
    PROVE  Moves(p) /\ \A r \in wire' : r \in Request /\ Sound(r.prep)
<1>1. proc[p].prep \in Proposal /\ Sound(proc[p].prep) /\ proc[p].prep # None /\ proc[p].reply = "none"
  BY RunsAreFit DEF RunFits, Runs, Held
<1>2. proc' \in [Procs -> Runs] /\ \A q \in Procs \ {p} : proc'[q] = proc[q] BY RunsAreFit DEF Send, Runs
<1>3. proc'[p].prep = proc[p].prep /\ proc'[p].at = "await" /\ proc'[p].reply = proc[p].reply BY RunsAreFit DEF Send, Runs
<1>4. Message(p) \in Request /\ Message(p).prep = proc[p].prep BY <1>1, RunsAreFit DEF Message, Request, Runs
<1>5. \A r \in wire' : r \in Request /\ Sound(r.prep) BY <1>1, <1>4 DEF Send, SagaInv
<1> QED BY <1>1, <1>2, <1>3, <1>5, RunsAreFit DEF Moves, RunFits

\* The steps of the adapter.
LEMMA ProviderMoves ==
    ASSUME SagaInv, NEW p \in Procs,
           \/ create_managed_appointment(p) \/ cancel_appointment(p) \/ GetEvent(p) \/ PatchEvent(p)
           \/ Answered(p) \/ GiveUp(p) \/ Unavailable(p) \/ verify_managed_appointment(p)
    PROVE  Moves(p) /\ \A r \in wire' : r \in Request /\ Sound(r.prep)
<1>1. doc' = doc /\ proc[p].at \in {"adapter", "patch", "await", "verify", "reconcile"}
  BY Zenon DEF create_managed_appointment, cancel_appointment, GetEvent, PatchEvent, Answered, GiveUp, Unavailable,
     verify_managed_appointment, Others
<1>2. proc[p].prep # None /\ proc[p].at \in Held /\ proc[p].at # "done" /\ proc[p].reply = "none"
  BY <1>1, RunsAreFit DEF RunFits, Held, Runs
<1>3. CASE create_managed_appointment(p) \/ cancel_appointment(p) \/ PatchEvent(p)
  BY <1>1, <1>2, <1>3, Sends DEF create_managed_appointment, cancel_appointment, PatchEvent
<1>4. CASE GetEvent(p) \/ Answered(p) \/ GiveUp(p) \/ Unavailable(p) \/ verify_managed_appointment(p)
  <2>1. wire' = wire
    BY <1>4, Zenon DEF GetEvent, Answered, GiveUp, Unavailable, verify_managed_appointment, Others
  <2>2. \A r \in wire' : r \in Request /\ Sound(r.prep) BY <2>1 DEF SagaInv
  <2>3. CASE Unconfirmed(p) \/ Confirmed(p) BY <1>1, <1>2, <2>2, <2>3, Concludes
  <2>4. CASE Go(p, "verify") BY <1>1, <1>2, <2>2, <2>4, Goes DEF Held
  <2>5. CASE proc' = [proc EXCEPT ![p].at = "adapter", ![p].again = TRUE]
    <3>3. [proc[p] EXCEPT !.at = "adapter", !.again = TRUE] \in Runs BY RunsAreFit DEF Runs
    <3>4. proc' = [proc EXCEPT ![p] = [proc[p] EXCEPT !.at = "adapter", !.again = TRUE]] BY <2>5, Zenon
    <3>1. proc' \in [Procs -> Runs] /\ \A q \in Procs \ {p} : proc'[q] = proc[q] BY <3>3, <3>4, RunsAreFit
    <3>2. proc'[p].prep = proc[p].prep /\ proc'[p].at = "adapter" /\ proc'[p].reply = proc[p].reply
      BY <2>5, RunsAreFit DEF Runs
    <3> QED BY <1>2, <2>2, <3>1, <3>2, RunsAreFit DEF Moves, RunFits
  <2>6. CASE proc' = [proc EXCEPT ![p].at = "patch", ![p].etag = event.etag]
    <3>1. event.etag \in Nat BY DEF SagaInv, Events
    <3>2. proc' \in [Procs -> Runs] /\ \A q \in Procs \ {p} : proc'[q] = proc[q] BY <2>6, <3>1, RunsAreFit DEF Runs
    <3>3. proc'[p].prep = proc[p].prep /\ proc'[p].at = "patch" /\ proc'[p].reply = proc[p].reply
      BY <2>6, RunsAreFit DEF Runs
    <3> QED BY <1>2, <2>2, <3>2, <3>3, RunsAreFit DEF Moves, RunFits
  <2> QED BY <1>4, <2>2, <2>3, <2>4, <2>5, <2>6, Answers DEF GetEvent, GiveUp, Unavailable, verify_managed_appointment
<1> QED BY <1>3, <1>4
\* A run that starts afresh, or takes up the pending proposal as a worker.
LEMMA Restarts ==
    ASSUME SagaInv, NEW p \in Procs, NEW r \in Runs, proc' = [proc EXCEPT ![p] = r],
           r.prep # None => Sound(r.prep), r.at \in Held => r.prep # None, r.reply = "none",
           r.at \notin {"prepare", "apply"}, p \in Callers => r.prep = None
    PROVE  Moves(p)
BY RunsAreFit DEF Moves, RunFits

\* The steps of the recovery worker.
LEMMA WorkerMoves ==
    ASSUME SagaInv, NEW w \in Workers, doc.done \subseteq doc'.done,
           \/ claim_due_provider_recoveries(w) \/ reconcile_reschedule(w) \/ finalize_reconciled_provider_recovery(w)
           \/ finalize_provider_recovery(w) \/ release_provider_recovery(w)
    PROVE  proc' = proc \/ Moves(w)
<1> w \in Procs /\ w \notin Callers BY ServiceRequestAssumption DEF Procs
<1>1. CASE claim_due_provider_recoveries(w)
  <2>1. CASE doc.attempts >= MaxAttempts BY <1>1, <2>1 DEF claim_due_provider_recoveries
  <2>2. CASE ~(doc.attempts >= MaxAttempts)
    <3> DEFINE n == doc.attempts + 1
               r == [Rest EXCEPT !.at = IF doc.pend.op = "reschedule" THEN "reconcile" ELSE "adapter", !.prep = doc.pend, !.try = n]
    <3>1. n \in 0 .. MaxAttempts BY <2>2, ServiceRequestAssumption DEF SagaInv, DocFits, Docs
    <3>2. doc.pend # None /\ doc.pend \in Proposal /\ Sound(doc.pend)
      BY <1>1, RunsAreFit DEF claim_due_provider_recoveries, Recoverable
    <3>3. proc' = [proc EXCEPT ![w] = r] BY <1>1, <2>2 DEF claim_due_provider_recoveries, TakeUp
    <3> HIDE DEF n
    <3>4. r \in Runs /\ r.prep = doc.pend /\ r.reply = "none" /\ r.at \in {"reconcile", "adapter"}
      BY <3>1, <3>2 DEF Rest, Runs, Replies
    <3> HIDE DEF r
    <3> QED BY <3>2, <3>3, <3>4, Restarts DEF Held
  <2> QED BY <2>1, <2>2
<1>2. CASE reconcile_reschedule(w)
  <2>1. proc[w].prep # None /\ proc[w].at = "reconcile" BY <1>2, RunsAreFit DEF reconcile_reschedule, RunFits, Held
  <2> QED BY <1>2, <2>1, Goes DEF reconcile_reschedule, Held
<1>3. CASE \/ finalize_reconciled_provider_recovery(w) \/ finalize_provider_recovery(w) \/ release_provider_recovery(w)
  <2>1. proc[w].prep # None /\ proc[w].at # "done"
    BY <1>3, RunsAreFit DEF finalize_reconciled_provider_recovery, finalize_provider_recovery, release_provider_recovery,
       RunFits, Held
  <2>2. Go(w, "idle") \/ Go(w, "release")
    BY <1>3 DEF finalize_reconciled_provider_recovery, finalize_provider_recovery, release_provider_recovery
  <2> QED BY <2>1, <2>2, Goes DEF Held
<1> QED BY <1>1, <1>2, <1>3

LEMMA CrashMoves ==
    ASSUME SagaInv, NEW p \in Procs, Crash(p)
    PROVE  Moves(p)
<1> DEFINE r == [Rest EXCEPT !.at = IF p \in Workers THEN "idle" ELSE "gone"]
<1>1. 0 \in 0 .. MaxAttempts BY ServiceRequestAssumption
<1>2. r \in Runs /\ r.prep = None /\ r.reply = "none" /\ r.at \in {"idle", "gone"} BY <1>1 DEF Rest, Runs, Replies
<1>3. proc' = [proc EXCEPT ![p] = r] BY DEF Crash
<1> HIDE DEF r
<1> QED BY <1>2, <1>3, Restarts DEF Held

-----------------------------------------------------------------------------
(* Google.                                                                 *)

LEMMA Replied ==
    ASSUME NEW r
    PROVE  AnswerTo(r) \in {"ok", "duplicate", "refused", "precondition"}
<1>1. CASE r.prep.op = "create" BY <1>1, Zenon DEF AnswerTo
<1>2. CASE r.prep.op = "cancel"
  <2>1. r.prep.op # "create" BY <1>2
  <2> QED BY <1>2, <2>1, Zenon DEF AnswerTo
<1>3. CASE r.prep.op \notin {"create", "cancel"}
  <2>1. r.prep.op # "create" /\ r.prep.op # "cancel" BY <1>3
  <2>2. AnswerTo(r) = IF event.at # "there" THEN "refused" ELSE IF r.etag # event.etag THEN "precondition" ELSE "ok"
    BY <2>1, Zenon DEF AnswerTo
  <2> QED BY <2>2
<1> QED BY <1>1, <1>2, <1>3

LEMMA Effects ==
    ASSUME event \in Events, NEW o \in Proposal, Sound(o)
    PROVE  Effect(o) \in Events
<1>0. event.etag + 1 \in Nat BY DEF Events
<1>1. CASE o.op = "create"
  <2>1. Effect(o) = [NoEvent EXCEPT !.at = "there", !.mark = o, !.slot = o.arg, !.etag = 1] BY <1>1, Zenon DEF Effect
  <2>2. Effect(o) = [at |-> "there", mark |-> o, slot |-> o.arg, services |-> {}, etag |-> 1, repeated |-> FALSE]
    BY <2>1 DEF NoEvent
  <2> QED BY <1>1, <2>2 DEF Events, Sound
<1>2. CASE o.op = "cancel"
  <2>0. o.op # "create" BY <1>2
  <2>1. Effect(o) = [event EXCEPT !.at = "deleted", !.etag = event.etag + 1] BY <1>2, <2>0, Zenon DEF Effect
  <2> QED BY <1>0, <2>1 DEF Events
<1>3. CASE o.op = "reschedule"
  <2>0. o.op # "create" /\ o.op # "cancel" BY <1>3
  <2>1. Effect(o) = [event EXCEPT !.slot = o.arg, !.etag = event.etag + 1] BY <1>3, <2>0, Zenon DEF Effect
  <2> QED BY <1>0, <1>3, <2>1 DEF Events, Sound
<1>4. CASE o.op = "add_service"
  <2>0. o.op # "create" /\ o.op # "cancel" /\ o.op # "reschedule" BY <1>4
  <2>1. Effect(o) = [event EXCEPT !.services = o.services \cup {o.arg}, !.etag = event.etag + 1]
    BY <1>4, <2>0, Zenon DEF Effect
  <2>2. o.services \cup {o.arg} \in SUBSET Labels BY <1>4 DEF Sound, Proposal
  <2> QED BY <1>0, <2>1, <2>2 DEF Events
<1> QED BY <1>1, <1>2, <1>3, <1>4 DEF Proposal, Operations

LEMMA Arrivals ==
    ASSUME SagaInv, NEW r \in wire, Arrive(r)
    PROVE  /\ proc' = proc \/ \E p \in Procs : Moves(p)
           /\ event' \in Events /\ shown' \subseteq Proposal
           /\ \A x \in wire' : x \in Request /\ Sound(x.prep)
           /\ UNCHANGED <<claim, faults>>
<1>1. r \in Request /\ Sound(r.prep) BY DEF SagaInv
<1>2. r.by \in Procs /\ r.prep \in Proposal BY <1>1 DEF Request
<1>3. event' \in Events
  <2>1. event \in Events /\ Effect(r.prep) \in Events BY <1>1, <1>2, Effects DEF SagaInv
  <2>2. [Effect(r.prep) EXCEPT !.repeated = event.repeated \/ r.prep \in shown] \in Events BY <2>1 DEF Events
  <2> QED BY <2>1, <2>2 DEF Arrive
<1>4. shown' \subseteq Proposal BY <1>2 DEF SagaInv, Arrive
<1>5. proc' = proc \/ Moves(r.by)
  <2>1. SUFFICES ASSUME proc' = [proc EXCEPT ![r.by].answer = AnswerTo(r)] PROVE Moves(r.by) BY DEF Arrive
  <2>2. [proc[r.by] EXCEPT !.answer = AnswerTo(r)] \in Runs BY <1>2, RunsAreFit, Replied DEF Runs
  <2>3. proc' \in [Procs -> Runs] /\ \A q \in Procs \ {r.by} : proc'[q] = proc[q] BY <1>2, <2>1, <2>2, RunsAreFit
  <2>4. /\ proc'[r.by].prep = proc[r.by].prep /\ proc'[r.by].at = proc[r.by].at /\ proc'[r.by].reply = proc[r.by].reply
        /\ Asked(r.by, proc'[r.by]) = Asked(r.by, proc[r.by]) /\ doc' = doc
    BY <1>2, <2>1, RunsAreFit DEF Runs, Asked, Arrive
  <2> QED BY <1>2, <2>3, <2>4, RunsAreFit DEF Moves, RunFits
<1> QED BY <1>2, <1>3, <1>4, <1>5 DEF Arrive, SagaInv

-----------------------------------------------------------------------------
(* The invariant.                                                          *)

\* What is neither the request nor a run.
Around ==
    /\ event \in Events
    /\ claim \in {None} \cup [by : Procs, prep : Proposal]
    /\ \A r \in wire : r \in Request /\ Sound(r.prep)
    /\ shown \subseteq Proposal
    /\ faults \in 0 .. MaxFaults

\* A step of a run keeps what is around it.
LEMMA RunKept ==
    ASSUME SagaInv, Next, NEW p \in Procs, Run(p)
    PROVE  Around' /\ (proc' = proc \/ Moves(p))
<1>1. doc.done \subseteq doc'.done BY DocSteps, DocKept
<1>2. CASE \/ execute_existing(p) \/ apply(p) \/ prepare_provider_create(p) \/ prepare_provider_operation(p)
           \/ recover_provider_operation(p) \/ finalize_provider_operation(p) \/ finalize_provider_create(p)
  <2>1. p \in Callers /\ UNCHANGED <<event, claim, wire, shown, faults>>
    BY <1>2, Zenon DEF execute_existing, apply, prepare_provider_create, prepare_provider_operation,
       recover_provider_operation, finalize_provider_operation, finalize_provider_create, Others
  <2> QED BY <1>1, <1>2, <2>1, CallerMoves DEF Around, SagaInv
<1>3. CASE \/ create_managed_appointment(p) \/ cancel_appointment(p) \/ GetEvent(p) \/ PatchEvent(p)
           \/ Answered(p) \/ GiveUp(p) \/ Unavailable(p) \/ verify_managed_appointment(p)
  <2>1. UNCHANGED <<event, shown, faults>>
    BY <1>3, Zenon DEF create_managed_appointment, cancel_appointment, GetEvent, PatchEvent, Answered, GiveUp, Unavailable,
       verify_managed_appointment, Others
  <2>5. ASSUME PatchEvent(p)
        PROVE  claim' = None \/ (claim' = [by |-> p, prep |-> proc[p].prep] /\ proc[p].at = "patch")
    <3>1. /\ claim' = IF proc[p].prep.op = "reschedule" THEN [by |-> p, prep |-> proc[p].prep] ELSE None
          /\ proc[p].at = "patch"
      BY <2>5, Zenon DEF PatchEvent
    <3> QED BY <3>1
  <2>6. ASSUME Answered(p) PROVE claim' \in {claim, None}
    <3>1. claim' = Settled(p) BY <2>6, Zenon DEF Answered
    <3> QED BY <3>1 DEF Settled
  <2>7. ASSUME \/ create_managed_appointment(p) \/ cancel_appointment(p) \/ GetEvent(p) \/ GiveUp(p) \/ Unavailable(p)
               \/ verify_managed_appointment(p)
        PROVE  claim' = claim
    BY <2>7, Zenon DEF create_managed_appointment, cancel_appointment, GetEvent, GiveUp, Unavailable,
       verify_managed_appointment, Others
  <2>2. claim' \in {claim, None} \/ (claim' = [by |-> p, prep |-> proc[p].prep] /\ proc[p].at = "patch")
    BY <1>3, <2>5, <2>6, <2>7, Zenon
  <2>3. proc[p].at = "patch" => proc[p].prep \in Proposal BY RunsAreFit DEF RunFits, Runs, Held
  <2>4. claim' \in {None} \cup [by : Procs, prep : Proposal] BY <2>2, <2>3 DEF SagaInv
  <2> QED BY <1>3, <2>1, <2>4, ProviderMoves DEF Around, SagaInv
<1>4. CASE \/ claim_due_provider_recoveries(p) \/ reconcile_reschedule(p) \/ finalize_reconciled_provider_recovery(p)
           \/ finalize_provider_recovery(p) \/ release_provider_recovery(p)
  <2>1. p \in Workers /\ UNCHANGED <<event, wire, shown, faults>> /\ claim' \in {claim, None}
    BY <1>4, Zenon DEF claim_due_provider_recoveries, reconcile_reschedule, finalize_reconciled_provider_recovery,
       finalize_provider_recovery, release_provider_recovery, Others
  <2> QED BY <1>1, <1>4, <2>1, WorkerMoves DEF Around, SagaInv
<1> QED BY <1>2, <1>3, <1>4 DEF Run

\* Every step keeps the invariant.
LEMMA Inductive ==
    ASSUME SagaInv, [Next]_vars
    PROVE  SagaInv'
<1>1. CASE UNCHANGED vars BY <1>1 DEF vars, SagaInv, DocFits
<1>2. CASE Next
  <2>1. DocFits(doc') /\ doc.done \subseteq doc'.done BY <1>2, DocSteps, DocKept
  <2>2. Around' /\ (proc' = proc \/ \E p \in Procs : Moves(p))
    <3>1. ASSUME NEW p \in Procs, Run(p) PROVE Around' /\ (proc' = proc \/ Moves(p)) BY <1>2, <3>1, RunKept
    <3>2. ASSUME NEW p \in Procs, Crash(p) PROVE Around' /\ Moves(p)
      <4>1. faults < MaxFaults /\ faults' = faults + 1 /\ UNCHANGED <<event, claim, wire, shown>> BY <3>2 DEF Crash
      <4>2. faults' \in 0 .. MaxFaults BY <4>1, ServiceRequestAssumption DEF SagaInv
      <4> QED BY <3>2, <4>1, <4>2, CrashMoves DEF Around, SagaInv
    <3>3. ASSUME NEW r \in wire, Arrive(r) PROVE Around' /\ (proc' = proc \/ \E p \in Procs : Moves(p))
      BY <3>3, Arrivals DEF Around, SagaInv
    <3>4. ASSUME NEW r \in wire, Lose(r) PROVE Around' /\ proc' = proc BY <3>4 DEF Lose, Around, SagaInv
    <3>5. CASE TimePasses BY <3>5 DEF TimePasses, Others, Around, SagaInv
    <3> QED BY <1>2, <3>1, <3>2, <3>3, <3>4, <3>5 DEF Next
  <2>3. proc' \in [Procs -> Runs] /\ \A p \in Procs : RunFits(p, proc'[p], doc'.done)
    BY <2>1, <2>2, RunsAreFit, FitsGrows DEF Moves, SagaInv
  <2> QED BY <2>1, <2>2, <2>3 DEF SagaInv, Around
<1> QED BY <1>1, <1>2
\* The request is found in a state that fits.
LEMMA Starts == Init => SagaInv
<1> SUFFICES ASSUME Init PROVE SagaInv OBVIOUS
<1>1. PICK cast \in Casts :
        /\ doc = IF cast.kind = "absent" THEN Blank
                 ELSE [Blank EXCEPT !.kind = cast.kind, !.rev = 1, !.open = TRUE, !.slot = FirstSlot, !.done = {Line(Creation)}]
        /\ event = IF cast.kind = "provider"
                     THEN [NoEvent EXCEPT !.at = "there", !.mark = Creation, !.slot = FirstSlot, !.etag = 1]
                     ELSE NoEvent
        /\ proc = [p \in Procs |-> IF p \in cast.callers \cup Workers THEN Rest ELSE [Rest EXCEPT !.at = "done"]]
        /\ shown = IF cast.kind = "provider" THEN {Creation} ELSE {}
  BY DEF Init
<1>2. claim = None /\ wire = {} /\ faults = 0 /\ 0 \in 0 .. MaxAttempts /\ 0 \in 0 .. MaxFaults
  BY ServiceRequestAssumption DEF Init
<1>3. Creation \in Proposal /\ Line(Creation) \in Entry
  BY ServiceRequestAssumption DEF Creation, Proposal, Line, Entry, Operations
<1>4. DocFits(doc)
  <2>1. Blank \in Docs /\ Blank.pend = None /\ Blank.lease = None BY <1>2 DEF Blank, Docs
  <2>2. cast.kind \in {"absent", "provider", "local"} BY ServiceRequestAssumption
  <2>3. CASE cast.kind = "absent" BY <1>1, <2>1, <2>3 DEF DocFits
  <2>4. CASE cast.kind # "absent"
    <3>1. doc = [Blank EXCEPT !.kind = cast.kind, !.rev = 1, !.open = TRUE, !.slot = FirstSlot, !.done = {Line(Creation)}]
      BY <1>1, <2>4
    <3>2. {Line(Creation)} \in SUBSET Entry /\ FirstSlot \in Slots BY <1>3, ServiceRequestAssumption
    <3>3. doc \in Docs BY <2>1, <2>2, <3>1, <3>2 DEF Docs
    <3>4. doc.pend = None /\ doc.lease = None BY <2>1, <3>1 DEF Docs
    <3> QED BY <3>3, <3>4 DEF DocFits
  <2> QED BY <2>3, <2>4
<1>5. event \in Events /\ shown \subseteq Proposal BY <1>1, <1>3, ServiceRequestAssumption DEF Events, NoEvent
<1>6. \A p \in Procs : proc[p] \in Runs /\ RunFits(p, proc[p], doc.done)
  <2> DEFINE done == [Rest EXCEPT !.at = "done"]
  <2>1. Rest \in Runs /\ Rest.prep = None /\ Rest.reply = "none" /\ Rest.at = "idle" BY <1>2 DEF Rest, Runs, Replies
  <2>2. done \in Runs /\ done.prep = None /\ done.reply = "none" /\ done.at = "done" BY <2>1 DEF Runs
  <2>3. \A p \in Procs : proc[p] \in {Rest, done} BY <1>1
  <2> HIDE DEF done
  <2> QED BY <2>1, <2>2, <2>3 DEF RunFits, Held
<1> QED BY <1>1, <1>2, <1>4, <1>5, <1>6 DEF SagaInv

\* The invariant of the request, its runs and the requests on their way to Google.
THEOREM SagaHolds == Spec => []SagaInv
<1>1. Init => SagaInv BY Starts
<1>2. SagaInv /\ [Next]_vars => SagaInv' BY Inductive
<1> QED BY <1>1, <1>2, PTL DEF Spec

-----------------------------------------------------------------------------
(* The calendar.                                                           *)

\* A run, a request on its way or the claim holds the pending proposal, or one whose effect was shown.
Live(o) == o = doc.pend \/ o \in shown

\* A proposal is of the request as it stands, and would change it.
Fits(o) ==
    /\ o.base = doc.rev /\ o.slot = doc.slot /\ o.services = doc.services
    /\ o.op = "create" <=> doc.kind = "absent"
    /\ o.op # "create" => doc.kind = "provider" /\ doc.open
    /\ o.op = "reschedule" => o.arg # doc.slot
    /\ o.op = "add_service" => o.arg \notin doc.services

PendIsShown == doc.pend # None /\ doc.pend \in shown

Made(o) == event.at = "there" /\ event.slot = o.arg /\ event.services = {}

\* The event as a canonical request d says.
Matches(d) ==
    /\ event.at = IF d.open THEN "there" ELSE "deleted"
    /\ d.open => event.slot = d.slot /\ event.services = d.services

\* The calendar is at most the pending proposal ahead of the request.
CalendarTracks ==
    /\ \A o \in shown : o.base < doc.rev \/ (doc.pend # None /\ o = doc.pend)
    /\ event.mark # None => event.mark \in shown
    /\ doc.pend # None => Fits(doc.pend)
    /\ doc.kind = "absent" => /\ doc.done = {} /\ doc.rev = 0 /\ doc.services = {}
                              /\ IF PendIsShown THEN Made(doc.pend) ELSE event.at = "absent"
    /\ doc.kind = "local" => doc.pend = None /\ event.at = "absent"
    /\ doc.kind = "provider" => Matches(IF PendIsShown THEN Canonical(doc.pend, "provider") ELSE doc)
    /\ doc.kind = "provider" => \A e \in doc.done : \E o \in shown : Line(o) = e

\* What a run takes for confirmed was shown.
RunTracks(r) ==
    /\ r.at \in Held => Live(r.prep)
    /\ r.at = "await" /\ r.answer = "ok" => r.prep \in shown
    /\ r.at \in {"finalize", "reconciled"} => r.prep \in shown
    /\ r.at = "prepare" => doc.kind = "provider"
    /\ r.at = "reconcile" => r.prep.op = "reschedule"

Tracks ==
    /\ CalendarTracks
    /\ \A p \in Procs : RunTracks(proc[p])
    /\ \A r \in wire : Live(r.prep)
    /\ claim # None => Live(claim.prep)

\* Until an operation is applied a second time.
TracksInv == ~event.repeated => Tracks

\* How a step changes what is canonical and what is pending.
Carried ==
    /\ doc'.kind = doc.kind /\ doc'.rev = doc.rev /\ doc'.open = doc.open /\ doc'.slot = doc.slot
    /\ doc'.services = doc.services /\ doc'.done = doc.done /\ doc'.pend = doc.pend

Begun == doc.pend = None /\ \E o \in Proposal : Fits(o) /\ doc' = Pending(o)

LocallyMade ==
    /\ doc.pend = None /\ doc.kind # "provider"
    /\ \E o \in Proposal : o.base = doc.rev /\ doc' = Canonical(o, "local")

Finished == PendIsShown /\ doc' = Canonical(doc.pend, "provider")

Change == Carried \/ Begun \/ LocallyMade \/ Finished

\* The request after its proposal begins.
LEMMA Pendings ==
    ASSUME DocFits(doc), NEW o \in Proposal, doc' = Pending(o)
    PROVE  /\ doc'.kind = doc.kind /\ doc'.rev = doc.rev /\ doc'.open = doc.open /\ doc'.slot = doc.slot
           /\ doc'.services = doc.services /\ doc'.done = doc.done /\ doc'.pend = o
<1>1. doc \in Docs BY DEF DocFits
<1> QED BY <1>1 DEF Docs, Pending

\* A new command's proposal is of the request as it stands.
LEMMA NewFits ==
    ASSUME SagaInv, NEW c \in Callers, Cmd[c].op # "recover", Mutation(Cmd[c]) = "new", doc.pend = None,
           Cmd[c].op # "create" => doc.kind = "provider", Tracks
    PROVE  Fits(NewProposal(Cmd[c])) /\ NewProposal(Cmd[c]) \in Proposal
<1> DEFINE o == NewProposal(Cmd[c])
<1>1. o.op = Cmd[c].op /\ o.arg = Cmd[c].arg /\ o.base = Cmd[c].base /\ o.slot = doc.slot /\ o.services = doc.services
  BY DEF NewProposal
<1>2. o \in Proposal BY NewIsSound, Mutations
<1>3. doc.kind = "absent" => doc.rev = 0 BY DEF Tracks, CalendarTracks
<1> HIDE DEF o
<1>4. Fits(o) BY <1>1, <1>3, Mutations DEF Fits
<1> QED BY <1>2, <1>4 DEF o

\* A canonical request stays with its provider.
LEMMA StaysProvided ==
    ASSUME SagaInv, Change, doc.kind = "provider"
    PROVE  doc'.kind = "provider"
<1>1. CASE Begun BY <1>1, Pendings DEF Begun, SagaInv
<1>2. CASE Finished BY <1>2, Canonicals DEF Finished
<1> QED BY <1>1, <1>2 DEF Change, Carried, LocallyMade

\* What is held stays pending or shown.
LEMMA StaysLive ==
    ASSUME SagaInv, Change, shown \subseteq shown', NEW o, o # None, Live(o)
    PROVE  Live(o)'
<1>1. CASE Begun \/ LocallyMade BY <1>1 DEF Begun, LocallyMade, Live
<1>2. CASE Finished BY <1>2 DEF Finished, PendIsShown, Live
<1>3. CASE Carried BY <1>3 DEF Carried, Live
<1> QED BY <1>1, <1>2, <1>3 DEF Change

\* The request changes in four ways that matter to the calendar.
LEMMA Changes ==
    ASSUME SagaInv, Tracks, Next
    PROVE  Change
<1>0. DocFits(doc) /\ doc \in Docs BY DEF SagaInv, DocFits
<1>1. ASSUME NEW p \in Callers, apply(p) PROVE Change
  <2> DEFINE m == Mutation(Cmd[p])
             o == NewProposal(Cmd[p])
  <2>1. CASE doc.pend = None /\ doc.kind # "provider" /\ m = "new"
    <3>1. Cmd[p].op # "recover" BY <1>1 DEF SagaInv, RunFits, apply, Procs
    <3>2. o \in Proposal /\ o.base = Cmd[p].base BY <2>1, <3>1, NewIsSound, Mutations DEF NewProposal
    <3>3. o.base = doc.rev BY <2>1, <3>2, Mutations DEF Tracks, CalendarTracks
    <3>4. doc' = Canonical(o, "local") BY <1>1, <2>1 DEF apply
    <3> QED BY <2>1, <3>2, <3>3, <3>4 DEF Change, LocallyMade
  <2>2. CASE ~(doc.pend = None /\ doc.kind # "provider" /\ m = "new") BY <1>1, <2>2 DEF apply, Change, Carried
  <2> QED BY <2>1, <2>2
<1>2. ASSUME NEW p \in Callers, prepare_provider_create(p) PROVE Change
  <2> DEFINE o == NewProposal(Cmd[p])
  <2>1. Cmd[p].op = "create" BY <1>2 DEF prepare_provider_create
  <2>2. CASE doc' = doc BY <2>2 DEF Change, Carried
  <2>3. CASE doc.pend = None /\ doc' = Pending(o) /\ o.base = 0
    <3>1. o.op = "create" /\ o.slot = doc.slot /\ o.services = doc.services /\ Cmd[p].base = 0
      BY <2>1, <2>3 DEF NewProposal
    <3>2. doc.kind = "absent"
      <4>1. CASE doc.kind # "absent"
        <5>1. doc' = doc BY <1>2, <2>3, <3>1, <4>1, Zenon DEF prepare_provider_create
        <5>2. doc'.pend = o /\ o \in Proposal BY <1>0, <2>1, <2>3, <3>1, NewIsSound, Pendings
        <5> QED BY <2>3, <5>1, <5>2, ServiceRequestAssumption
      <4> QED BY <4>1
    <3>3. o \in Proposal BY <2>1, <3>1, NewIsSound
    <3>4. doc.rev = 0 BY <3>2 DEF Tracks, CalendarTracks
    <3> HIDE DEF o
    <3>5. Fits(o) BY <2>3, <3>1, <3>2, <3>4 DEF Fits
    <3> QED BY <2>3, <3>3, <3>5 DEF Change, Begun
  <2> QED BY <1>0, <1>2, <2>2, <2>3, CreatesPrepared
<1>3. ASSUME NEW p \in Callers, prepare_provider_operation(p) PROVE Change
  <2>1. Cmd[p].op \notin {"create", "recover"} /\ proc[p].at = "prepare"
    BY <1>3 DEF SagaInv, RunFits, prepare_provider_operation, Procs
  <2>2. doc.kind = "provider" BY <2>1 DEF Tracks, RunTracks, Procs
  <2>3. CASE doc' = doc BY <2>3 DEF Change, Carried
  <2>4. CASE doc.pend = None /\ Mutation(Cmd[p]) = "new" /\ doc' = Pending(NewProposal(Cmd[p]))
    BY <2>1, <2>2, <2>4, NewFits DEF Change, Begun
  <2>5. doc' = doc \/ (doc.pend = None /\ Mutation(Cmd[p]) = "new" /\ doc' = Pending(NewProposal(Cmd[p])))
    <3> DEFINE m == Mutation(Cmd[p])
    <3>1. m \in {"replay", "conflict", "failed", "new"} BY Mutations
    <3>2. CASE m \in {"conflict", "failed"}
      <4>1. UNCHANGED doc BY <1>3, <3>2, Zenon DEF prepare_provider_operation
      <4> QED BY <4>1
    <3>3. CASE m \in {"new", "replay"} /\ doc.pend # None
      <4>1. m \notin {"conflict", "failed"} BY <3>3
      <4>2. UNCHANGED doc BY <1>3, <3>3, <4>1, Zenon DEF prepare_provider_operation
      <4> QED BY <4>2
    <3>4. CASE m = "replay" /\ doc.pend = None
      <4>1. m \notin {"conflict", "failed"} BY <3>4
      <4>2. UNCHANGED doc BY <1>3, <3>4, <4>1, Zenon DEF prepare_provider_operation
      <4> QED BY <4>2
    <3>5. CASE m = "new" /\ doc.pend = None
      <4>1. m \notin {"conflict", "failed"} /\ m # "replay" BY <3>5
      <4>2. doc' = Pending(NewProposal(Cmd[p])) BY <1>3, <3>5, <4>1, Zenon DEF prepare_provider_operation
      <4> QED BY <3>5, <4>2
    <3> QED BY <3>1, <3>2, <3>3, <3>4, <3>5
  <2> QED BY <2>3, <2>4, <2>5
<1>4. ASSUME NEW p \in Callers, finalize_provider_operation(p) \/ finalize_provider_create(p) PROVE Change
  <2>1. proc[p].prep \in shown
    BY <1>4 DEF Tracks, RunTracks, Procs, finalize_provider_operation, finalize_provider_create
  <2> QED BY <1>4, <2>1
       DEF finalize_provider_operation, finalize_provider_create, Change, Carried, Finished, PendIsShown, Recoverable
<1>5. ASSUME NEW w \in Workers, finalize_provider_recovery(w) \/ finalize_reconciled_provider_recovery(w) PROVE Change
  <2>1. proc[w].prep \in shown
    BY <1>5 DEF Tracks, RunTracks, Procs, finalize_provider_recovery, finalize_reconciled_provider_recovery
  <2>2. doc' = doc \/ (Owns(w) /\ doc' = Canonical(proc[w].prep, "provider"))
    BY <1>5 DEF finalize_provider_recovery, finalize_reconciled_provider_recovery
  <2> QED BY <2>1, <2>2 DEF Change, Carried, Finished, PendIsShown, Owns, Recoverable
<1>6. ASSUME NEW w \in Workers, claim_due_provider_recoveries(w) \/ release_provider_recovery(w) PROVE Change
  <2>1. \/ doc' = doc
        \/ doc' = [doc EXCEPT !.lease = None, !.state = "needs_review", !.due = TRUE]
        \/ doc' = [doc EXCEPT !.lease = None, !.due = FALSE]
        \/ doc' = [doc EXCEPT !.state = "needs_review", !.lease = None]
        \/ \E n, l : doc' = [doc EXCEPT !.attempts = n, !.due = FALSE, !.lease = l]
    BY <1>6 DEF claim_due_provider_recoveries, release_provider_recovery, TakeUp
  <2> QED BY <1>0, <2>1 DEF Change, Carried, Docs
<1>7. CASE TimePasses BY <1>0, <1>7 DEF TimePasses, Change, Carried, Docs
<1>8. ASSUME NEW p \in Procs,
             execute_existing(p) \/ recover_provider_operation(p) \/ create_managed_appointment(p) \/ cancel_appointment(p)
             \/ GetEvent(p) \/ PatchEvent(p) \/ Answered(p) \/ GiveUp(p) \/ Unavailable(p)
             \/ verify_managed_appointment(p) \/ reconcile_reschedule(p) \/ Crash(p)
      PROVE  Change
  <2>1. doc' = doc
    BY <1>8, Zenon DEF execute_existing, recover_provider_operation, create_managed_appointment, cancel_appointment, GetEvent,
       PatchEvent, Answered, GiveUp, Unavailable, verify_managed_appointment, reconcile_reschedule, Crash, Others
  <2> QED BY <2>1 DEF Change, Carried
<1>9. ASSUME NEW r \in wire, Arrive(r) \/ Lose(r) PROVE Change
  BY <1>9 DEF Arrive, Lose, Change, Carried
<1>10. ASSUME NEW p \in Procs, Run(p) PROVE Change
  BY <1>1, <1>2, <1>3, <1>4, <1>5, <1>6, <1>8, <1>10
     DEF Run, apply, prepare_provider_create, prepare_provider_operation, finalize_provider_operation,
         finalize_provider_create, claim_due_provider_recoveries, finalize_reconciled_provider_recovery,
         finalize_provider_recovery, release_provider_recovery
<1> QED BY <1>7, <1>8, <1>9, <1>10 DEF Next

\* A change of the request keeps up with the calendar.
LEMMA ChangeKeeps ==
    ASSUME SagaInv, CalendarTracks, Change, event' = event, shown' = shown
    PROVE  CalendarTracks'
<1>0. DocFits(doc) /\ doc \in Docs BY DEF SagaInv, DocFits
<1>1. CASE Carried
  <2>1. \A o, k : Canonical(o, k)' = Canonical(o, k) BY <1>1, Canonicals DEF Carried, Canonical
  <2> QED BY <1>1, <2>1 DEF Carried, CalendarTracks, PendIsShown, Fits, Made, Matches
<1>2. CASE Begun
  <2>1. PICK o \in Proposal : Fits(o) /\ doc' = Pending(o) BY <1>2 DEF Begun
  <2>2. /\ doc'.kind = doc.kind /\ doc'.rev = doc.rev /\ doc'.open = doc.open /\ doc'.slot = doc.slot
        /\ doc'.services = doc.services /\ doc'.done = doc.done /\ doc'.pend = o /\ o # None
    BY <1>0, <2>1, Pendings, ServiceRequestAssumption
  <2>3. doc.pend = None /\ ~PendIsShown BY <1>2 DEF Begun, PendIsShown
  <2>4. o \notin shown BY <1>0, <2>1, <2>3 DEF CalendarTracks, Fits, Docs
  <2>5. ~PendIsShown' BY <2>2, <2>4 DEF PendIsShown
  <2>6. Fits(doc.pend)' BY <2>1, <2>2 DEF Fits
  <2>7. doc'.kind # "local" BY <2>1, <2>2 DEF Fits
  <2> QED BY <2>2, <2>3, <2>5, <2>6, <2>7 DEF CalendarTracks, Matches
<1>3. CASE LocallyMade
  <2>1. PICK o \in Proposal : o.base = doc.rev /\ doc' = Canonical(o, "local") BY <1>3 DEF LocallyMade
  <2>2. doc'.kind = "local" /\ doc'.rev = doc.rev + 1 /\ doc'.pend = None BY <2>1, Canonicals
  <2>3. doc.pend = None /\ ~PendIsShown /\ doc.kind \in {"absent", "local"}
    BY <1>0, <1>3 DEF LocallyMade, PendIsShown, Docs
  <2>4. event.at = "absent" BY <2>3 DEF CalendarTracks
  <2>5. \A x \in shown : x.base < doc'.rev BY <1>0, <2>2, <2>3 DEF CalendarTracks, SagaInv, Docs, Proposal
  <2> QED BY <2>2, <2>4, <2>5 DEF CalendarTracks
<1>4. CASE Finished
  <2> DEFINE o == doc.pend
             d == Canonical(o, "provider")
  <2>1. o # None /\ o \in shown /\ PendIsShown /\ Fits(o) /\ o \in Proposal /\ Sound(o)
    BY <1>0, <1>4 DEF Finished, PendIsShown, CalendarTracks, Docs, DocFits
  <2>2. doc' = d BY <1>4 DEF Finished
  <2>3. /\ d.kind = "provider" /\ d.rev = doc.rev + 1 /\ d.pend = None /\ d.done = doc.done \cup {Line(o)}
        /\ d.open = (o.op # "cancel")
        /\ d.slot = IF o.op \in {"create", "reschedule"} THEN o.arg ELSE doc.slot
        /\ d.services = IF o.op = "add_service" THEN doc.services \cup {o.arg} ELSE doc.services
    BY <2>1, Canonicals DEF Fits
  <2> HIDE DEF d
  <2>4. \A x \in shown : x.base < doc'.rev BY <1>0, <2>1, <2>2, <2>3 DEF CalendarTracks, Fits, SagaInv, Docs, Proposal
  <2>5. Matches(d)
    <3>1. CASE doc.kind = "provider" BY <2>1, <3>1 DEF CalendarTracks, d
    <3>2. CASE doc.kind = "absent" BY <2>1, <2>3, <3>2 DEF CalendarTracks, Fits, Made, Matches
    <3>3. doc.kind # "local" BY <2>1 DEF CalendarTracks
    <3> QED BY <1>0, <3>1, <3>2, <3>3 DEF Docs
  <2>6. \A e \in d.done : \E x \in shown : Line(x) = e
    <3>1. \A e \in doc.done : \E x \in shown : Line(x) = e BY <1>0, <2>1 DEF CalendarTracks, Docs
    <3> QED BY <2>1, <2>3, <3>1
  <2>7. ~PendIsShown' /\ Matches(doc)' BY <2>2, <2>3, <2>5 DEF PendIsShown, Matches
  <2>8. \A e \in doc'.done : \E x \in shown : Line(x) = e BY <2>2, <2>6
  <2> QED BY <2>2, <2>3, <2>4, <2>7, <2>8 DEF CalendarTracks
<1> QED BY <1>1, <1>2, <1>3, <1>4 DEF Change

\* A run that did not move still tracks.
LEMMA RunStays ==
    ASSUME SagaInv, Change, shown \subseteq shown', NEW p \in Procs, RunTracks(proc[p]), proc'[p] = proc[p]
    PROVE  RunTracks(proc[p])'
<1>1. proc[p].at \in Held => proc[p].prep # None BY RunsAreFit DEF RunFits
<1>2. proc[p].at = "prepare" => doc'.kind = "provider" BY StaysProvided DEF RunTracks
<1>3. proc[p].at \in Held => Live(proc[p].prep)' BY <1>1, StaysLive DEF RunTracks, Live
<1> QED BY <1>2, <1>3 DEF RunTracks, Live

\* A run that answers, or leaves the saga, holds nothing.
LEMMA RunEnds ==
    ASSUME NEW p \in Procs, proc'[p].at \in {"idle", "apply", "done", "gone"}
    PROVE  RunTracks(proc[p])'
BY DEF RunTracks, Held

\* The next step of a run that holds what it held.
LEMMA RunGoes ==
    ASSUME SagaInv, doc' = doc, shown \subseteq shown', NEW p \in Procs, RunTracks(proc[p]), proc[p].at \in Held,
           NEW a \in Held, proc'[p].at = a, proc'[p].prep = proc[p].prep,
           a = "await" => proc'[p].answer # "ok",
           a \in {"finalize", "reconciled"} => proc[p].prep \in shown', a # "reconcile"
    PROVE  RunTracks(proc[p])'
BY DEF RunTracks, Live, Held

LEMMA Fields ==
    ASSUME SagaInv, NEW p \in Procs
    PROVE  /\ \A a : Go(p, a) => proc'[p].at = a /\ proc'[p].prep = proc[p].prep
           /\ \A x : Reply(p, x) => proc'[p].at = "done"
           /\ Send(p) => proc'[p].at = "await" /\ proc'[p].prep = proc[p].prep /\ proc'[p].answer = "none"
           /\ \A o : proc' = [proc EXCEPT ![p].at = "adapter", ![p].prep = o] => proc'[p].at = "adapter" /\ proc'[p].prep = o
BY RunsAreFit DEF Go, Reply, Send, Runs

\* The steps of the application's commands: what they take up is pending.
LEMMA CallerTracks ==
    ASSUME SagaInv, NEW p \in Callers, shown' = shown,
           \/ execute_existing(p) \/ apply(p) \/ prepare_provider_create(p) \/ prepare_provider_operation(p)
           \/ recover_provider_operation(p) \/ finalize_provider_operation(p) \/ finalize_provider_create(p)
    PROVE  RunTracks(proc[p])'
<1> p \in Procs /\ DocFits(doc) BY DEF Procs, SagaInv
<1> DEFINE o == NewProposal(Cmd[p])
           Taken(x) == proc' = [proc EXCEPT ![p].at = "adapter", ![p].prep = x] /\ doc'.pend = x
<1>1. ASSUME NEW x, Taken(x) PROVE RunTracks(proc[p])'
  <2>1. proc'[p].at = "adapter" /\ proc'[p].prep = x BY <1>1, Fields
  <2> QED BY <1>1, <2>1 DEF RunTracks, Live
<1>2. ASSUME NEW x, Reply(p, x) PROVE RunTracks(proc[p])' BY <1>2, Fields, RunEnds
<1>3. CASE execute_existing(p)
  <2>1. CASE doc.kind = "provider" /\ Go(p, "prepare")
    <3>1. proc'[p].at = "prepare" /\ doc'.kind = "provider" BY <1>3, <2>1, Fields DEF execute_existing
    <3> QED BY <3>1 DEF RunTracks, Held
  <2>2. CASE Go(p, "apply") BY <2>2, Fields, RunEnds
  <2>3. \/ \E x : Reply(p, x)
        \/ doc.kind = "provider" /\ Go(p, "prepare")
        \/ Go(p, "apply")
    <3>1. CASE doc.kind = "absent"
      <4>1. Reply(p, IF doc.state = "needs_review" THEN "failed" ELSE "not_found") BY <1>3, <3>1, Zenon DEF execute_existing
      <4> QED BY <4>1
    <3>2. CASE doc.kind = "provider"
      <4>1. doc.kind # "absent" BY <3>2
      <4> QED BY <1>3, <3>2, <4>1, Zenon DEF execute_existing
    <3>3. CASE doc.kind = "local"
      <4>1. doc.kind # "absent" /\ doc.kind # "provider" BY <3>3
      <4> QED BY <1>3, <3>3, <4>1, Zenon DEF execute_existing
    <3> QED BY <3>1, <3>2, <3>3 DEF DocFits, Docs
  <2> QED BY <1>2, <2>1, <2>2, <2>3
<1>4. CASE apply(p) BY <1>2, <1>4 DEF apply
<1>5. CASE prepare_provider_create(p)
  <2>1. CASE doc' = Pending(o) /\ o.base = 0 /\ proc' = [proc EXCEPT ![p].at = "adapter", ![p].prep = o]
    <3>1. Cmd[p].op = "create" BY <1>5 DEF prepare_provider_create
    <3>2. Cmd[p].base = 0 BY <2>1 DEF NewProposal
    <3>3. doc'.pend = o BY <2>1, <3>1, <3>2, NewIsSound, Pendings
    <3> QED BY <1>1, <2>1, <3>3
  <2>2. CASE doc' = doc /\ proc' = [proc EXCEPT ![p].at = "adapter", ![p].prep = doc.pend] BY <1>1, <2>2
  <2> QED BY <1>2, <1>5, <2>1, <2>2, CreatesPrepared
<1>6. CASE prepare_provider_operation(p)
  <2>1. CASE doc' = Pending(o) /\ proc' = [proc EXCEPT ![p].at = "adapter", ![p].prep = o]
    <3>1. Cmd[p].op \notin {"create", "recover"} BY <1>6, RunsAreFit DEF RunFits, prepare_provider_operation
    <3>2. doc'.pend = o BY <2>1, <3>1, NewIsSound, Pendings
    <3> QED BY <1>1, <2>1, <3>2
  <2>2. CASE doc' = doc /\ proc' = [proc EXCEPT ![p].at = "adapter", ![p].prep = doc.pend] BY <1>1, <2>2
  <2> QED BY <1>2, <1>6, <2>1, <2>2, OperationsPrepared
<1>7. CASE recover_provider_operation(p) BY <1>1, <1>2, <1>7 DEF recover_provider_operation
<1>8. CASE finalize_provider_operation(p) \/ finalize_provider_create(p)
  BY <1>2, <1>8 DEF finalize_provider_operation, finalize_provider_create
<1> QED BY <1>3, <1>4, <1>5, <1>6, <1>7, <1>8

\* An operation whose effect the event has already was shown: an event that the pending change
\* would not change cannot be, before that change.
LEMMA DesiredWasShown ==
    ASSUME SagaInv, CalendarTracks, NEW o \in Proposal, Sound(o), o.op \in {"reschedule", "add_service"}, Live(o),
           event.at = "there", IF o.op = "reschedule" THEN event.slot = o.arg ELSE event.services = o.services \cup {o.arg}
    PROVE  o \in shown
<1>1. SUFFICES ASSUME o \notin shown PROVE FALSE OBVIOUS
<1>2. o = doc.pend /\ doc.pend # None /\ ~PendIsShown BY <1>1, ServiceRequestAssumption DEF Live, PendIsShown
<1>3. Fits(o) /\ doc.kind = "provider" /\ doc.open BY <1>2 DEF CalendarTracks, Fits
<1>4. event.slot = doc.slot /\ event.services = doc.services BY <1>2, <1>3 DEF CalendarTracks, Matches
<1> QED BY <1>3, <1>4 DEF Fits

\* The steps of the adapter: it confirms only what was shown.
LEMMA ProviderTracks ==
    ASSUME SagaInv, Tracks, NEW p \in Procs, shown' = shown,
           \/ create_managed_appointment(p) \/ cancel_appointment(p) \/ GetEvent(p) \/ PatchEvent(p)
           \/ Answered(p) \/ GiveUp(p) \/ Unavailable(p) \/ verify_managed_appointment(p)
    PROVE  RunTracks(proc[p])'
<1>1. doc' = doc /\ proc[p].at \in {"adapter", "patch", "await", "verify", "reconcile"}
  BY Zenon DEF create_managed_appointment, cancel_appointment, GetEvent, PatchEvent, Answered, GiveUp, Unavailable,
     verify_managed_appointment, Others
<1>2. proc[p].at \in Held /\ RunTracks(proc[p]) /\ CalendarTracks BY <1>1 DEF Held, Tracks
<1>0. proc[p].prep \in Proposal /\ Sound(proc[p].prep) /\ proc[p].prep # None
  BY <1>2, RunsAreFit DEF RunFits, Runs
<1>3. CASE create_managed_appointment(p) \/ cancel_appointment(p) \/ PatchEvent(p)
  <2>1. Send(p) BY <1>3 DEF create_managed_appointment, cancel_appointment, PatchEvent
  <2> QED BY <1>1, <1>2, <2>1, Fields, RunGoes DEF Held
<1>4. ASSUME Unconfirmed(p) PROVE RunTracks(proc[p])'
  <2>1. CASE Go(p, "release") BY <1>1, <1>2, <2>1, Fields, RunGoes DEF Held
  <2> QED BY <1>4, <2>1, Fields, RunEnds DEF Unconfirmed
<1>5. ASSUME Confirmed(p), proc[p].prep \in shown PROVE RunTracks(proc[p])'
  BY <1>1, <1>2, <1>5, Fields, RunGoes DEF Held, Confirmed
<1>6. CASE GetEvent(p)
  <2> DEFINE o == proc[p].prep
  <2>1. CASE Unconfirmed(p) BY <1>4, <2>1
  <2>2. CASE Confirmed(p) /\ event.at = "there" /\ Desired(o)
    <3>1. o.op \in {"reschedule", "add_service"} /\ Live(o) BY <1>2, <1>6 DEF GetEvent, RunTracks
    <3>2. IF o.op = "reschedule" THEN event.slot = o.arg ELSE event.services = o.services \cup {o.arg} BY <2>2, Zenon DEF Desired
    <3>3. o \in shown BY <1>0, <1>2, <2>2, <3>1, <3>2, DesiredWasShown
    <3> QED BY <1>5, <2>2, <3>3
  <2>3. CASE proc' = [proc EXCEPT ![p].at = "patch", ![p].etag = event.etag]
    <3>1. proc'[p].at = "patch" /\ proc'[p].prep = proc[p].prep BY <2>3, RunsAreFit DEF Runs
    <3> QED BY <1>1, <1>2, <3>1, RunGoes DEF Held
  <2> QED BY <1>6, <2>1, <2>2, <2>3 DEF GetEvent
<1>7. CASE Answered(p)
  <2>1. CASE proc[p].answer = "ok"
    <3>1. proc[p].at = "await" BY <1>7 DEF Answered
    <3>2. proc[p].prep \in shown BY <1>2, <2>1, <3>1 DEF RunTracks
    <3>3. Unconfirmed(p) \/ Confirmed(p) BY <1>7, <2>1, Zenon DEF Answered
    <3> QED BY <1>4, <1>5, <3>2, <3>3
  <2>2. CASE proc[p].answer # "ok"
    <3>1. \/ Unconfirmed(p) \/ Go(p, "verify")
          \/ proc' = [proc EXCEPT ![p].at = "adapter", ![p].again = TRUE]
      BY <1>7, <2>2, Zenon DEF Answered
    <3>2. CASE Go(p, "verify") BY <1>1, <1>2, <3>2, Fields, RunGoes DEF Held
    <3>3. CASE proc' = [proc EXCEPT ![p].at = "adapter", ![p].again = TRUE]
      <4>1. proc'[p].at = "adapter" /\ proc'[p].prep = proc[p].prep BY <3>3, RunsAreFit DEF Runs
      <4> QED BY <1>1, <1>2, <4>1, RunGoes DEF Held
    <3> QED BY <1>4, <3>1, <3>2, <3>3
  <2> QED BY <2>1, <2>2
<1>8. CASE GiveUp(p) \/ Unavailable(p) BY <1>4, <1>8 DEF GiveUp, Unavailable
<1>9. CASE verify_managed_appointment(p)
  <2>1. CASE event.mark = proc[p].prep
    <3>1. proc[p].prep \in shown BY <1>0, <1>2, <2>1 DEF CalendarTracks
    <3> QED BY <1>4, <1>5, <1>9, <3>1 DEF verify_managed_appointment
  <2>2. CASE event.mark # proc[p].prep BY <1>4, <1>9, <2>2 DEF verify_managed_appointment
  <2> QED BY <2>1, <2>2
<1> QED BY <1>3, <1>6, <1>7, <1>8, <1>9

\* The steps of the recovery worker: a reconciled rescheduling was made.
LEMMA WorkerTracks ==
    ASSUME SagaInv, Tracks, Change, NEW w \in Workers, shown' = shown,
           \/ claim_due_provider_recoveries(w) \/ reconcile_reschedule(w) \/ finalize_reconciled_provider_recovery(w)
           \/ finalize_provider_recovery(w) \/ release_provider_recovery(w)
    PROVE  RunTracks(proc[w])'
<1> w \in Procs /\ RunTracks(proc[w]) /\ CalendarTracks /\ doc \in Docs BY DEF Procs, Tracks, SagaInv, DocFits
<1>1. CASE claim_due_provider_recoveries(w)
  <2>1. CASE proc' = proc BY <2>1, RunStays
  <2>2. CASE TakeUp(w, doc.attempts + 1)
    <3> DEFINE r == [Rest EXCEPT !.at = IF doc.pend.op = "reschedule" THEN "reconcile" ELSE "adapter",
                                 !.prep = doc.pend, !.try = doc.attempts + 1]
    <3>1. proc'[w] = r BY <2>2, RunsAreFit DEF TakeUp
    <3>2. r.at = (IF doc.pend.op = "reschedule" THEN "reconcile" ELSE "adapter") /\ r.prep = doc.pend BY DEF Rest
    <3>3. doc'.pend = doc.pend BY <2>2 DEF TakeUp, Docs
    <3> HIDE DEF r
    <3> QED BY <3>1, <3>2, <3>3 DEF RunTracks, Live
  <2> QED BY <1>1, <2>1, <2>2 DEF claim_due_provider_recoveries
<1>2. CASE reconcile_reschedule(w)
  <2> DEFINE o == proc[w].prep
  <2>1. doc' = doc /\ proc[w].at = "reconcile" /\ proc[w].at \in Held BY <1>2 DEF reconcile_reschedule, Others, Held
  <2>2. o.op = "reschedule" /\ o \in Proposal /\ Sound(o) /\ Live(o)
    BY <2>1, RunsAreFit DEF RunFits, Runs, RunTracks
  <2>3. CASE Go(w, "adapter") \/ Go(w, "release") BY <2>1, <2>3, Fields, RunGoes DEF Held
  <2>4. CASE event.at = "there" /\ event.slot = o.arg /\ Go(w, "reconciled")
    <3>1. o \in shown BY <2>2, <2>4, DesiredWasShown
    <3> QED BY <2>1, <2>4, <3>1, Fields, RunGoes DEF Held
  <2> QED BY <1>2, <2>3, <2>4 DEF reconcile_reschedule
<1>3. CASE finalize_reconciled_provider_recovery(w)
  <2>1. CASE Go(w, "idle") BY <2>1, Fields, RunEnds
  <2>2. CASE Go(w, "release") /\ doc' = doc
    <3>1. proc[w].at \in Held BY <1>3 DEF finalize_reconciled_provider_recovery, Held
    <3> QED BY <2>2, <3>1, Fields, RunGoes DEF Held
  <2> QED BY <1>3, <2>1, <2>2 DEF finalize_reconciled_provider_recovery
<1>4. CASE finalize_provider_recovery(w) \/ release_provider_recovery(w)
  BY <1>4, Fields, RunEnds DEF finalize_provider_recovery, release_provider_recovery
<1> QED BY <1>1, <1>2, <1>3, <1>4

\* The effect, case by case.
LEMMA EffectCases ==
    ASSUME NEW o
    PROVE  /\ o.op = "create" => Effect(o) = [NoEvent EXCEPT !.at = "there", !.mark = o, !.slot = o.arg, !.etag = 1]
           /\ o.op = "cancel" => Effect(o) = [event EXCEPT !.at = "deleted", !.etag = @ + 1]
           /\ o.op = "reschedule" => Effect(o) = [event EXCEPT !.slot = o.arg, !.etag = @ + 1]
           /\ o.op = "add_service" => Effect(o) = [event EXCEPT !.services = o.services \cup {o.arg}, !.etag = @ + 1]
<1>1. o.op = "create" => Effect(o) = [NoEvent EXCEPT !.at = "there", !.mark = o, !.slot = o.arg, !.etag = 1] BY Zenon DEF Effect
<1>2. ASSUME o.op = "cancel" PROVE Effect(o) = [event EXCEPT !.at = "deleted", !.etag = @ + 1]
  <2>1. o.op # "create" BY <1>2
  <2> QED BY <1>2, <2>1, Zenon DEF Effect
<1>3. ASSUME o.op = "reschedule" PROVE Effect(o) = [event EXCEPT !.slot = o.arg, !.etag = @ + 1]
  <2>1. o.op # "create" /\ o.op # "cancel" BY <1>3
  <2> QED BY <1>3, <2>1, Zenon DEF Effect
<1>4. ASSUME o.op = "add_service" PROVE Effect(o) = [event EXCEPT !.services = o.services \cup {o.arg}, !.etag = @ + 1]
  <2>1. o.op # "create" /\ o.op # "cancel" /\ o.op # "reschedule" BY <1>4
  <2> QED BY <1>4, <2>1, Zenon DEF Effect
<1> QED BY <1>1, <1>2, <1>3, <1>4

\* The pending proposal's effect brings the event to what the canonical request will be.
LEMMA FirstEffect ==
    ASSUME SagaInv, CalendarTracks, UNCHANGED doc, NEW o \in Proposal, Sound(o), o = doc.pend, o \notin shown,
           event.at # "deleted", shown' = shown \cup {o}, event' = [Effect(o) EXCEPT !.repeated = FALSE],
           o.op = "create" => event.at = "absent"
    PROVE  CalendarTracks'
<1>0. doc \in Docs /\ event \in Events /\ o # None BY ServiceRequestAssumption DEF SagaInv, DocFits
<1>1. Fits(o) /\ ~PendIsShown /\ PendIsShown' BY <1>0 DEF CalendarTracks, PendIsShown
<1>2. \A x \in shown' : x.base < doc'.rev \/ (doc'.pend # None /\ x = doc'.pend) BY <1>0 DEF CalendarTracks
<1>3. \A d, k : Canonical(d, k)' = Canonical(d, k) BY DEF Canonical
<1>4. doc.kind # "local" BY <1>0 DEF CalendarTracks
<1>5. CASE doc.kind = "absent"
  <2>1. o.op = "create" BY <1>1, <1>5 DEF Fits
  <2>2. event' = [at |-> "there", mark |-> o, slot |-> o.arg, services |-> {}, etag |-> 1, repeated |-> FALSE]
    <3>1. Effect(o) = [NoEvent EXCEPT !.at = "there", !.mark = o, !.slot = o.arg, !.etag = 1] BY <2>1, EffectCases
    <3> QED BY <3>1 DEF NoEvent
  <2>3. event'.at = "there" /\ event'.mark = o /\ event'.slot = o.arg /\ event'.services = {} BY <2>2
  <2> QED BY <1>1, <1>2, <1>5, <2>3 DEF CalendarTracks, Made, Fits
<1>6. CASE doc.kind = "provider"
  <2>1. o.op # "create" /\ doc.open /\ Matches(doc) BY <1>1, <1>6 DEF Fits, CalendarTracks
  <2>2. event.at = "there" /\ event.slot = doc.slot /\ event.services = doc.services BY <2>1 DEF Matches
  <2> DEFINE d == Canonical(o, "provider")
  <2>3. /\ d.open = (o.op # "cancel")
        /\ d.slot = IF o.op \in {"create", "reschedule"} THEN o.arg ELSE doc.slot
        /\ d.services = IF o.op = "add_service" THEN doc.services \cup {o.arg} ELSE doc.services
    BY Canonicals
  <2> HIDE DEF d
  <2>4. event'.mark = event.mark /\ Matches(d)'
    <3>0. d' = d BY DEF d, Canonical
    <3>1. CASE o.op = "cancel"
      <4>1. event'.at = "deleted" /\ event'.mark = event.mark BY <1>0, <3>1, EffectCases DEF Events
      <4> QED BY <2>3, <3>0, <3>1, <4>1 DEF Matches
    <3>2. CASE o.op = "reschedule"
      <4>1. event'.at = event.at /\ event'.mark = event.mark /\ event'.slot = o.arg /\ event'.services = event.services
        <5>1. event' = [[event EXCEPT !.slot = o.arg, !.etag = event.etag + 1] EXCEPT !.repeated = FALSE] BY <3>2, EffectCases
        <5> QED BY <1>0, <5>1 DEF Events
      <4>2. d.open /\ d.slot = o.arg /\ d.services = doc.services BY <2>3, <3>2
      <4> QED BY <2>2, <3>0, <4>1, <4>2 DEF Matches
    <3>3. CASE o.op = "add_service"
      <4>1. /\ event'.at = event.at /\ event'.mark = event.mark /\ event'.slot = event.slot
            /\ event'.services = o.services \cup {o.arg}
        <5>1. event' = [[event EXCEPT !.services = o.services \cup {o.arg}, !.etag = event.etag + 1] EXCEPT !.repeated = FALSE]
          BY <3>3, EffectCases
        <5> QED BY <1>0, <5>1 DEF Events
      <4>2. d.open /\ d.slot = doc.slot /\ d.services = o.services \cup {o.arg} BY <1>1, <2>3, <3>3 DEF Fits
      <4> QED BY <2>2, <3>0, <4>1, <4>2 DEF Matches
    <3> QED BY <2>1, <3>1, <3>2, <3>3 DEF Proposal, Operations
  <2>5. doc'.kind = "provider" => Matches(IF PendIsShown THEN Canonical(doc.pend, "provider") ELSE doc)'
    BY <1>1, <2>4 DEF d
  <2>6. \A e \in doc'.done : \E x \in shown' : Line(x) = e BY <1>6 DEF CalendarTracks
  <2>7. event'.mark # None => event'.mark \in shown' BY <2>4 DEF CalendarTracks
  <2>8. doc'.pend # None => Fits(doc.pend)' BY <1>1 DEF Fits
  <2> QED BY <1>2, <1>6, <2>5, <2>6, <2>7, <2>8 DEF CalendarTracks
<1> QED BY <1>0, <1>4, <1>5, <1>6 DEF Docs

\* A request that arrives at Google: it is refused, or it is the pending change and made for the
\* first time.
LEMMA ArrivalTracks ==
    ASSUME SagaInv, Tracks, NEW r \in wire, Arrive(r), ~event'.repeated, ~event.repeated
    PROVE  CalendarTracks' /\ \A p \in Procs : RunTracks(proc[p])'
<1> DEFINE o == r.prep
           a == AnswerTo(r)
<1>0. doc' = doc /\ shown \subseteq shown' /\ (a = "ok" => o \in shown') BY DEF Arrive
<1>1. o \in Proposal /\ Sound(o) /\ Live(o) /\ o # None /\ CalendarTracks
  BY ServiceRequestAssumption DEF SagaInv, Request, Tracks
<1>2. event \in Events /\ Effect(o) \in Events /\ doc \in Docs BY <1>1, Effects DEF SagaInv, DocFits
<1>3. CalendarTracks'
  <2>1. CASE event' = event /\ shown' = shown
    <3>1. \A x, k : Canonical(x, k)' = Canonical(x, k) BY <1>0 DEF Canonical
    <3> QED BY <1>0, <1>1, <2>1, <3>1 DEF CalendarTracks, PendIsShown, Fits, Made, Matches
  <2>2. CASE a = "ok" /\ event.at # "deleted"
    <3>1. event' = [Effect(o) EXCEPT !.repeated = event.repeated \/ o \in shown] BY <2>2 DEF Arrive
    <3>2. event'.repeated = (event.repeated \/ o \in shown) BY <1>2, <3>1 DEF Events
    <3>3. o \notin shown /\ o = doc.pend BY <1>1, <3>2 DEF Live
    <3>4. event' = [Effect(o) EXCEPT !.repeated = FALSE]
      <4>1. (event.repeated \/ o \in shown) = FALSE BY <3>3
      <4> QED BY <3>1, <4>1, Zenon
    <3>5. shown' = shown \cup {o} BY <2>2 DEF Arrive
    <3>6. o.op = "create" => event.at = "absent"
      <4>1. ASSUME o.op = "create" PROVE event.at = "absent"
        <5>1. a = IF event.at = "absent" THEN "ok" ELSE "duplicate" BY <4>1, Zenon DEF AnswerTo
        <5> QED BY <2>2, <5>1
      <4> QED BY <4>1
    <3> QED BY <1>0, <1>1, <2>2, <3>3, <3>4, <3>5, <3>6, FirstEffect
  <2>3. CASE a = "ok" /\ event.at = "deleted"
    <3>1. event' = event BY <2>3 DEF Arrive
    <3>2. o \in shown
      <4>1. SUFFICES ASSUME o \notin shown PROVE FALSE OBVIOUS
      <4>2. o = doc.pend /\ ~PendIsShown /\ Fits(o) BY <1>1, <4>1 DEF Live, PendIsShown, CalendarTracks
      <4>3. doc.kind # "local" /\ (doc.kind = "absent" => event.at = "absent") BY <1>1, <4>2 DEF CalendarTracks
      <4>4. doc.kind = "provider" => doc.open /\ Matches(doc) BY <1>1, <4>2 DEF CalendarTracks, Fits
      <4> QED BY <1>2, <2>3, <4>3, <4>4 DEF Docs, Matches
    <3>3. shown' = shown BY <2>3, <3>2 DEF Arrive
    <3> QED BY <2>1, <3>1, <3>3
  <2>4. CASE a # "ok"
    <3>1. event' = event /\ shown' = shown BY <2>4 DEF Arrive
    <3> QED BY <2>1, <3>1
  <2> QED BY <2>2, <2>3, <2>4
<1>4. ASSUME NEW p \in Procs PROVE RunTracks(proc[p])'
  <2>0. RunTracks(proc[p]) /\ Change BY <1>0 DEF Tracks, Change, Carried
  <2>1. CASE proc'[p] = proc[p] BY <1>0, <2>0, <2>1, RunStays
  <2>2. CASE proc' = [proc EXCEPT ![p].answer = a] /\ Waits(r) /\ p = r.by
    <3>1. proc'[p].answer = a /\ proc'[p].at = "await" /\ proc'[p].prep = proc[p].prep BY <2>2, RunsAreFit DEF Runs, Waits
    <3>2. proc[p].prep = o BY <2>2 DEF Waits, Message
    <3>3. Live(proc[p].prep)' BY <1>0, <1>1, <3>1, <3>2 DEF Live
    <3> QED BY <1>0, <3>1, <3>2, <3>3 DEF RunTracks, Live
  <2>3. proc' = proc \/ (proc' = [proc EXCEPT ![r.by].answer = a] /\ Waits(r)) BY DEF Arrive
  <2>4. CASE proc' = [proc EXCEPT ![r.by].answer = a] /\ p # r.by
    BY <2>1, <2>4, RunsAreFit
  <2> QED BY <2>1, <2>2, <2>3, <2>4
<1> QED BY <1>3, <1>4

\* Nothing but a further effect ends what is said of the calendar.
LEMMA TracksKept ==
    ASSUME SagaInv, TracksInv, [Next]_vars
    PROVE  TracksInv'
<1>1. CASE UNCHANGED vars
  <2>1. \A o, k : Canonical(o, k)' = Canonical(o, k) BY <1>1 DEF vars, Canonical
  <2>2. Tracks' <=> Tracks
    BY <1>1, <2>1 DEF vars, Tracks, CalendarTracks, RunTracks, Live, PendIsShown, Fits, Made, Matches
  <2> QED BY <1>1, <2>2 DEF vars, TracksInv
<1>2. CASE Next
  <2>1. SUFFICES ASSUME ~event'.repeated PROVE Tracks' BY DEF TracksInv
  <2>2. ASSUME NEW r \in wire, Arrive(r), event.repeated PROVE FALSE
    <3>1. r.prep \in Proposal /\ Sound(r.prep) /\ event \in Events BY DEF SagaInv, Request
    <3>2. Effect(r.prep) \in Events BY <3>1, Effects
    <3>3. event' = event \/ event' = [Effect(r.prep) EXCEPT !.repeated = event.repeated \/ r.prep \in shown]
      BY <2>2, Zenon DEF Arrive
    <3> QED BY <2>1, <2>2, <3>2, <3>3 DEF Events
  <2>3. ASSUME NEW r \in wire, Arrive(r), Tracks PROVE Tracks'
    <3>1. ~event.repeated BY <2>2, <2>3
    <3>2. CalendarTracks' /\ \A p \in Procs : RunTracks(proc[p])' BY <2>1, <2>3, <3>1, ArrivalTracks
    <3>3. doc' = doc /\ claim' = claim /\ shown \subseteq shown' /\ wire' \subseteq wire BY <2>3 DEF Arrive
    <3> QED BY <2>3, <3>2, <3>3 DEF Tracks, Live
  <2>4. ASSUME Tracks, event' = event, shown' = shown,
               \A p \in Procs : RunTracks(proc[p])',
               \A r \in wire' : r \in wire \/ \E p \in Procs : proc[p].at \in Held /\ r.prep = proc[p].prep,
               claim' \in {claim, None} \/ \E p \in Procs : proc[p].at \in Held /\ claim'.prep = proc[p].prep
        PROVE  Tracks'
    <3>1. Change BY <1>2, <2>4, Changes
    <3>2. CalendarTracks' BY <2>4, <3>1, ChangeKeeps DEF Tracks
    <3>3. ASSUME NEW p \in Procs, proc[p].at \in Held PROVE Live(proc[p].prep) /\ proc[p].prep # None
      BY <2>4, <3>3, RunsAreFit DEF RunFits, Tracks, RunTracks
    <3>4. ASSUME NEW r \in wire PROVE Live(r.prep) /\ r.prep # None
      BY <2>4, <3>4, ServiceRequestAssumption DEF SagaInv, Request, Tracks
    <3>5. claim # None => Live(claim.prep) /\ claim.prep # None
      BY <2>4, ServiceRequestAssumption DEF SagaInv, Tracks
    <3>6. ASSUME NEW o, Live(o), o # None PROVE o = doc'.pend \/ o \in shown'
      BY <2>4, <3>1, <3>6, StaysLive DEF Live
    <3>7. \A r \in wire' : Live(r.prep)'
      <4>1. ASSUME NEW r \in wire' PROVE r.prep = doc'.pend \/ r.prep \in shown' BY <2>4, <3>3, <3>4, <3>6, <4>1
      <4> QED BY <4>1 DEF Live
    <3>8. (claim # None => Live(claim.prep))'
      <4>1. ASSUME claim' # None PROVE claim'.prep = doc'.pend \/ claim'.prep \in shown' BY <2>4, <3>3, <3>5, <3>6, <4>1
      <4> QED BY <4>1 DEF Live
    <3> QED BY <2>4, <3>2, <3>7, <3>8 DEF Tracks
  <2>5. ASSUME NEW p \in Procs, Run(p) \/ Crash(p), Tracks PROVE Tracks'
    <3>1. event' = event /\ shown' = shown
      BY <2>5, Zenon DEF Run, Crash, execute_existing, apply, prepare_provider_create, prepare_provider_operation,
         recover_provider_operation, create_managed_appointment, cancel_appointment, GetEvent, PatchEvent, Answered, GiveUp,
         Unavailable, verify_managed_appointment, finalize_provider_operation, finalize_provider_create,
         claim_due_provider_recoveries, reconcile_reschedule, finalize_reconciled_provider_recovery,
         finalize_provider_recovery, release_provider_recovery, Others
    <3>2. Change BY <1>2, <2>5, Changes
    <3>3. RunTracks(proc[p])'
      <4>1. CASE Crash(p)
        <5>1. proc'[p].at \in {"idle", "gone"}
          <6> DEFINE r == [Rest EXCEPT !.at = IF p \in Workers THEN "idle" ELSE "gone"]
          <6>1. proc'[p] = r BY <4>1, RunsAreFit DEF Crash
          <6>2. r.at \in {"idle", "gone"} BY DEF Rest
          <6> QED BY <6>1, <6>2
        <5> QED BY <5>1, RunEnds
      <4>2. CASE \/ execute_existing(p) \/ apply(p) \/ prepare_provider_create(p) \/ prepare_provider_operation(p)
                 \/ recover_provider_operation(p) \/ finalize_provider_operation(p) \/ finalize_provider_create(p)
        <5>1. p \in Callers
          BY <4>2, Zenon DEF execute_existing, apply, prepare_provider_create, prepare_provider_operation,
             recover_provider_operation, finalize_provider_operation, finalize_provider_create
        <5> QED BY <3>1, <4>2, <5>1, CallerTracks
      <4>3. CASE \/ create_managed_appointment(p) \/ cancel_appointment(p) \/ GetEvent(p) \/ PatchEvent(p)
                 \/ Answered(p) \/ GiveUp(p) \/ Unavailable(p) \/ verify_managed_appointment(p)
        BY <2>5, <3>1, <4>3, ProviderTracks
      <4>4. CASE \/ claim_due_provider_recoveries(p) \/ reconcile_reschedule(p) \/ finalize_reconciled_provider_recovery(p)
                 \/ finalize_provider_recovery(p) \/ release_provider_recovery(p)
        <5>1. p \in Workers
          BY <4>4, Zenon DEF claim_due_provider_recoveries, reconcile_reschedule, finalize_reconciled_provider_recovery,
             finalize_provider_recovery, release_provider_recovery
        <5> QED BY <2>5, <3>1, <3>2, <4>4, <5>1, WorkerTracks
      <4> QED BY <2>5, <4>1, <4>2, <4>3, <4>4 DEF Run
    <3>4. \A q \in Procs \ {p} : proc'[q] = proc[q]
      <4>1. CASE Run(p) BY <1>2, <4>1, RunKept DEF Moves
      <4>2. CASE Crash(p) BY <4>2, CrashMoves DEF Moves
      <4> QED BY <2>5, <4>1, <4>2
    <3>5. \A q \in Procs : RunTracks(proc[q])'
      <4>1. ASSUME NEW q \in Procs, q # p PROVE RunTracks(proc[q])'
        BY <2>5, <3>1, <3>2, <3>4, <4>1, RunStays DEF Tracks
      <4> QED BY <3>3, <4>1
    <3>6. \A r \in wire' : r \in wire \/ (proc[p].at \in Held /\ r.prep = proc[p].prep)
      <4>1. CASE create_managed_appointment(p) \/ cancel_appointment(p) \/ PatchEvent(p)
        <5>1. wire' = wire \cup {Message(p)} /\ proc[p].at \in {"adapter", "patch"}
          BY <4>1, Zenon DEF create_managed_appointment, cancel_appointment, PatchEvent, Send
        <5> QED BY <5>1 DEF Message, Held
      <4>2. CASE ~(create_managed_appointment(p) \/ cancel_appointment(p) \/ PatchEvent(p))
        <5>1. wire' = wire
          BY <2>5, <4>2, Zenon DEF Run, Crash, execute_existing, apply, prepare_provider_create, prepare_provider_operation,
             recover_provider_operation, GetEvent, Answered, GiveUp, Unavailable, verify_managed_appointment,
             finalize_provider_operation, finalize_provider_create, claim_due_provider_recoveries, reconcile_reschedule,
             finalize_reconciled_provider_recovery, finalize_provider_recovery, release_provider_recovery, Others
        <5> QED BY <5>1
      <4> QED BY <4>1, <4>2
    <3>7. claim' \in {claim, None} \/ (proc[p].at \in Held /\ claim'.prep = proc[p].prep)
      <4>1. CASE PatchEvent(p)
        <5>1. /\ claim' = IF proc[p].prep.op = "reschedule" THEN [by |-> p, prep |-> proc[p].prep] ELSE None
              /\ proc[p].at = "patch"
          BY <4>1, Zenon DEF PatchEvent
        <5> QED BY <5>1 DEF Held
      <4>2. CASE Answered(p)
        <5>1. claim' = Settled(p) BY <4>2, Zenon DEF Answered
        <5> QED BY <5>1 DEF Settled
      <4>3. CASE finalize_reconciled_provider_recovery(p) BY <4>3 DEF finalize_reconciled_provider_recovery
      <4>4. CASE ~(PatchEvent(p) \/ Answered(p) \/ finalize_reconciled_provider_recovery(p))
        <5>1. claim' = claim
          BY <2>5, <4>4, Zenon DEF Run, Crash, execute_existing, apply, prepare_provider_create, prepare_provider_operation,
             recover_provider_operation, create_managed_appointment, cancel_appointment, GetEvent, GiveUp,
             Unavailable, verify_managed_appointment, finalize_provider_operation, finalize_provider_create,
             claim_due_provider_recoveries, reconcile_reschedule, finalize_provider_recovery, release_provider_recovery, Others
        <5> QED BY <5>1
      <4> QED BY <4>1, <4>2, <4>3, <4>4
    <3> QED BY <2>4, <2>5, <3>1, <3>5, <3>6, <3>7
  <2>6. ASSUME Tracks, TimePasses \/ \E r \in wire : Lose(r) PROVE Tracks'
    <3>1. event' = event /\ shown' = shown /\ proc' = proc /\ claim' = claim /\ wire' \subseteq wire
      BY <2>6 DEF TimePasses, Lose, Others
    <3>2. Change BY <1>2, <2>6, Changes
    <3>3. \A p \in Procs : RunTracks(proc[p])' BY <2>6, <3>1, <3>2, RunStays DEF Tracks
    <3> QED BY <2>4, <2>6, <3>1, <3>3
  <2>7. ~event.repeated
    <3>1. CASE event' = event BY <2>1, <3>1
    <3>2. ASSUME NEW p \in Procs, Run(p) \/ Crash(p) PROVE event' = event
      BY <3>2, Zenon DEF Run, Crash, execute_existing, apply, prepare_provider_create, prepare_provider_operation,
         recover_provider_operation, create_managed_appointment, cancel_appointment, GetEvent, PatchEvent, Answered, GiveUp,
         Unavailable, verify_managed_appointment, finalize_provider_operation, finalize_provider_create,
         claim_due_provider_recoveries, reconcile_reschedule, finalize_reconciled_provider_recovery,
         finalize_provider_recovery, release_provider_recovery, Others
    <3>3. TimePasses \/ (\E r \in wire : Lose(r)) => event' = event BY DEF TimePasses, Lose, Others
    <3> QED BY <1>2, <2>2, <3>1, <3>2, <3>3 DEF Next
  <2>8. Tracks BY <2>7 DEF TracksInv
  <2> QED BY <1>2, <2>3, <2>5, <2>6, <2>8 DEF Next
<1> QED BY <1>1, <1>2

\* Nothing yet, a request of the application, or one that the calendar shows.
LEMMA TracksStarts == Init => TracksInv
<1> SUFFICES ASSUME Init PROVE Tracks BY DEF TracksInv
<1>1. PICK cast \in Casts :
        /\ doc = IF cast.kind = "absent" THEN Blank
                 ELSE [Blank EXCEPT !.kind = cast.kind, !.rev = 1, !.open = TRUE, !.slot = FirstSlot, !.done = {Line(Creation)}]
        /\ event = IF cast.kind = "provider"
                     THEN [NoEvent EXCEPT !.at = "there", !.mark = Creation, !.slot = FirstSlot, !.etag = 1]
                     ELSE NoEvent
        /\ proc = [p \in Procs |-> IF p \in cast.callers \cup Workers THEN Rest ELSE [Rest EXCEPT !.at = "done"]]
        /\ shown = IF cast.kind = "provider" THEN {Creation} ELSE {}
  BY DEF Init
<1>2. claim = None /\ wire = {} BY DEF Init
<1>3. cast.kind \in {"absent", "provider", "local"} BY ServiceRequestAssumption
<1>4. Creation.base = 0 BY DEF Creation
<1>5. CalendarTracks
  <2>1. CASE cast.kind = "absent"
    <3>1. doc = Blank /\ event = NoEvent /\ shown = {} BY <1>1, <2>1
    <3> QED BY <3>1 DEF Blank, NoEvent, CalendarTracks, PendIsShown
  <2>2. CASE cast.kind = "local"
    <3>1. /\ doc = [Blank EXCEPT !.kind = "local", !.rev = 1, !.open = TRUE, !.slot = FirstSlot, !.done = {Line(Creation)}]
          /\ event = NoEvent /\ shown = {}
      BY <1>1, <2>2
    <3>2. doc.kind = "local" /\ doc.pend = None BY <3>1 DEF Blank
    <3> QED BY <3>1, <3>2 DEF NoEvent, CalendarTracks
  <2>3. CASE cast.kind = "provider"
    <3>1. /\ doc = [Blank EXCEPT !.kind = "provider", !.rev = 1, !.open = TRUE, !.slot = FirstSlot, !.done = {Line(Creation)}]
          /\ event = [NoEvent EXCEPT !.at = "there", !.mark = Creation, !.slot = FirstSlot, !.etag = 1]
          /\ shown = {Creation}
      BY <1>1, <2>3
    <3>2. /\ doc.kind = "provider" /\ doc.pend = None /\ doc.rev = 1 /\ doc.open /\ doc.slot = FirstSlot
          /\ doc.services = {} /\ doc.done = {Line(Creation)}
      BY <3>1 DEF Blank
    <3>3. event.at = "there" /\ event.mark = Creation /\ event.slot = FirstSlot /\ event.services = {}
      BY <3>1 DEF NoEvent
    <3>4. Matches(doc) /\ ~PendIsShown BY <3>2, <3>3 DEF Matches, PendIsShown
    <3>5. \A e \in doc.done : \E o \in shown : Line(o) = e BY <3>1, <3>2
    <3>6. \A o \in shown : o.base < doc.rev BY <1>4, <3>1, <3>2
    <3> QED BY <3>1, <3>2, <3>3, <3>4, <3>5, <3>6 DEF CalendarTracks
  <2> QED BY <1>3, <2>1, <2>2, <2>3
<1>6. ASSUME NEW p \in Procs PROVE RunTracks(proc[p])
  <2> DEFINE done == [Rest EXCEPT !.at = "done"]
  <2>1. Rest.at = "idle" /\ done.at = "done" BY DEF Rest
  <2>2. proc[p] \in {Rest, done} BY <1>1
  <2> HIDE DEF done
  <2> QED BY <2>1, <2>2 DEF RunTracks, Held
<1> QED BY <1>2, <1>5, <1>6 DEF Tracks

\* Until an operation is applied a second time, the calendar is at most the pending proposal ahead
\* of the request, and what a run takes for confirmed was shown.
THEOREM TracksHold == Spec => []TracksInv
<1>1. Init => TracksInv BY TracksStarts
<1>2. SagaInv /\ TracksInv /\ [Next]_vars => TracksInv' BY TracksKept
<1> QED BY <1>1, <1>2, SagaHolds, PTL DEF Spec

-----------------------------------------------------------------------------
(* The results.                                                            *)

\* Every variable keeps its type.
THEOREM TypesHold == Spec => []TypeOK
<1>1. SagaInv => TypeOK BY DEF SagaInv, TypeOK, DocFits
<1> QED BY <1>1, SagaHolds, PTL

\* Who is told that a change was applied finds it on the canonical request: the response "applied"
\* of ServiceRequestCommandService is never ahead of the transaction that finalizes.
THEOREM AppliedHolds == Spec => []AppliedIsCanonical
<1>1. SagaInv => AppliedIsCanonical
  <2> SUFFICES ASSUME SagaInv, NEW p \in Callers, proc[p].reply = "applied"
               PROVE  Applied(IF Cmd[p].op = "recover" THEN proc[p].prep ELSE Cmd[p])
    BY DEF AppliedIsCanonical
  <2>1. On(doc.done, Asked(p, proc[p])) BY DEF SagaInv, RunFits, Procs
  <2> QED BY <2>1 DEF On, Same, Asked, Applied
<1> QED BY <1>1, SagaHolds, PTL

\* What is told of a request and what can be read of it is true: of the command, of the calendar's
\* history and, with nothing pending, of the calendar (finalize_provider_*, the recovery's
\* finalizations, the calendar adapter's managed appointments).
THEOREM RequestHolds == Spec => []RequestIsTrue
<1>1. SagaInv => TypeOK BY DEF SagaInv, TypeOK, DocFits
<1>2. TracksInv => CanonicalWasShown BY DEF TracksInv, Tracks, CalendarTracks, CanonicalWasShown
<1>3. TracksInv => CalendarAgrees
  <2> SUFFICES ASSUME Tracks, doc.kind = "provider", doc.pend = None PROVE Matches(doc)
    BY DEF TracksInv, CalendarAgrees, Matches
  <2>1. ~PendIsShown BY DEF PendIsShown
  <2> QED BY <2>1 DEF Tracks, CalendarTracks
<1>4. Spec => []AppliedIsCanonical BY AppliedHolds
<1> QED BY <1>1, <1>2, <1>3, <1>4, SagaHolds, TracksHold, PTL DEF RequestIsTrue

\* A step keeps the proposal, or makes its own change canonical and drops it.
LEMMA StepKeeps ==
    ASSUME SagaInv, DocStep, doc.pend # None
    PROVE  doc'.pend = doc.pend \/ (doc'.pend = None /\ Line(doc.pend) \in doc'.done)
<1>1. doc \in Docs /\ DocFits(doc) BY DEF SagaInv, DocFits
<1>2. CASE FinishedByCaller \/ \E w \in Workers : FinishedBy(w)
  <2>1. doc' = Canonical(doc.pend, "provider") BY <1>2 DEF FinishedByCaller, FinishedBy
  <2>2. doc.pend \in Proposal /\ Sound(doc.pend) BY <1>1 DEF DocFits, Docs
  <2> QED BY <1>1, <2>1, <2>2, Finishing
<1>3. CASE \/ doc' = doc \/ Reviewed \/ Ticked \/ \E w \in Workers : Released(w) \/ Leased(w)
  BY <1>1, <1>3 DEF Docs, Reviewed, Ticked, Released, Leased
<1> QED BY <1>2, <1>3 DEF DocStep, Proposed, LocallyApplied

\* A lease that is not over changes only in a step of its own worker, which is then done with it.
LEMMA StepRespects ==
    ASSUME SagaInv, DocStep, ActiveLease, doc'.lease # doc.lease
    PROVE  proc[doc.lease.by].at \in {"finalize", "reconciled", "release"} /\ proc'[doc.lease.by].at = "idle"
<1>1. doc \in Docs /\ doc.pend # None /\ ~doc.due BY DEF SagaInv, DocFits, ActiveLease
<1>2. ~Ticked BY <1>1 DEF Ticked, Docs
<1>3. PICK w \in Workers : FinishedBy(w) \/ Released(w)
  BY <1>1, <1>2 DEF DocStep, Proposed, LocallyApplied, FinishedByCaller, Reviewed, Leased
<1>4. Owner(w) BY <1>3 DEF FinishedBy, Released
<1>5. doc.lease.by = w BY <1>4 DEF Owner, Owns, Lease
<1> QED BY <1>4, <1>5 DEF Owner

\* A proposal is neither replaced nor dropped before its own change is canonical, and no step ends
\* a live recovery lease but one of the worker that holds it (prepare_provider_operation,
\* finalize_provider_*, release_provider_recovery, _active_recovery_lease, _lease_matches).
THEOREM ProposalOwned == Spec => ProposalIsOwned
<1>1. SagaInv /\ [Next]_vars =>
        [doc.pend # None => doc'.pend = doc.pend \/ (doc'.pend = None /\ Line(doc.pend) \in doc'.done)]_vars
  BY DocSteps, StepKeeps
<1>2. SagaInv /\ [Next]_vars =>
        [ActiveLease /\ doc'.lease # doc.lease => proc[doc.lease.by].at \in {"finalize", "reconciled", "release"}
                                                   /\ proc'[doc.lease.by].at = "idle"]_vars
  BY DocSteps, StepRespects
<1>3. Spec => ProposalIsKept BY <1>1, SagaHolds, PTL DEF Spec, ProposalIsKept
<1>4. Spec => LiveLeaseIsRespected BY <1>2, SagaHolds, PTL DEF Spec, LiveLeaseIsRespected
<1> QED BY <1>3, <1>4 DEF ProposalIsOwned
=============================================================================
