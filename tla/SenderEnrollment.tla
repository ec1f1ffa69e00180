---------------------------- MODULE SenderEnrollment ----------------------------
(***************************************************************************)
(* Enrolling one number as an SMS sender of the pinned Messaging Service    *)
(* (src/app/services/sms_sender_enrollment.py for US numbers and            *)
(* canada_sms_enrollment.py for Canadian ones): every precondition is read, *)
(* read again, the membership is created once, and all of it is read back.  *)
(* Between any two reads the account, the routing of the number, the        *)
(* service or the membership may change under the run, and another run may  *)
(* enroll the same number. The reads happen in an executor thread that the  *)
(* caller may give up on.                                                   *)
(* A value is "bad" when the code's validator refuses it; "v1" and "v2" are *)
(* two that it accepts. The service and its campaign are one value.         *)
(***************************************************************************)
EXTENDS Naturals, Sequences

CONSTANTS
    Enrolls,   \* runs of ensure_sms_sender_membership
    NoCreate,  \* those of a delivery: allow_create=False
    MaxDrifts  \* bound on changes by others

EnrollAssumption == NoCreate \subseteq Enrolls /\ MaxDrifts \in Nat

VARIABLES
    country,   \* "US" or "CA": which of the two services runs
    world,     \* what Firestore and Twilio hold about the number
    enroll,    \* each run's thread: its stage, its next read, what it froze
    told,      \* what the caller of each run was answered
    stopped,   \* runs that were cancelled or are out of their budget
    landing,   \* creations whose answer was lost and that Twilio may yet carry out
    created,   \* history: runs whose creation changed the membership
    drifts

enrollment == <<country, world, enroll, told, stopped, landing, created, drifts>>

Values == {"v1", "v2", "bad"}
Nothing == [status |-> "none", mutated |-> "no"]

\* The reads of each stage, in the order of the code. The Canadian service
\* also lists the other services of the account ("other").
Reads(stage) ==
    CASE stage = "before" /\ country = "US" -> <<"service", "assignment", "routing", "member">>
      [] stage = "before" /\ country = "CA" -> <<"assignment", "routing", "service", "member", "other">>
      [] stage = "again" /\ country = "US"  -> <<"assignment", "routing", "service">>
      [] stage = "again" /\ country = "CA"  -> <<"assignment", "routing", "service", "other", "member">>
      [] stage = "raced"                    -> <<"assignment", "routing", "service", "other">>
      [] stage = "after" /\ country = "US"  -> <<"member", "assignment", "routing">>
      [] stage = "after" /\ country = "CA"  -> <<"assignment", "routing", "service", "other", "member">>

Reading == {"before", "again", "raced", "after"}

EnrollInit ==
    /\ country \in {"US", "CA"}
    /\ world \in [assignment : {"v1"}, routing : {"v1"}, service : {"v1"},
                  member : {"absent", "ours"}, other : BOOLEAN]
    /\ enroll = [e \in Enrolls |-> [stage |-> "before", next |-> 1, present |-> FALSE,
                                    mutated |-> "no", frozen |-> world]]
    /\ told = [e \in Enrolls |-> Nothing]
    /\ stopped = {} /\ landing = {} /\ created = {} /\ drifts = 0

------------------------------------------------------------------------------
\* The caller hears the first answer only: one that gave up hears nothing more.
Tell(e, status, mutated) ==
    told' = IF told[e] = Nothing THEN [told EXCEPT ![e] = [status |-> status, mutated |-> mutated]] ELSE told

Ended(e) == enroll' = [enroll EXCEPT ![e].stage = "done"]

Finish(e, status, mutated) == Ended(e) /\ Tell(e, status, mutated)

\* What a run that cannot go on says of the membership.
Known(e) == IF country = "CA" /\ enroll[e].mutated # "no" THEN "unknown" ELSE enroll[e].mutated

Refuse(e) == Finish(e, IF enroll[e].mutated = "no" THEN "rejected" ELSE "uncertain", Known(e))

Goes(e, stage) == enroll' = [enroll EXCEPT ![e].stage = stage, ![e].next = 1] /\ UNCHANGED told

\* The US service validates the assignment and the campaign afresh and compares
\* the routing only; the Canadian one compares all three.
Holds(e, item) ==
    LET v == world[item] IN
    CASE item = "other"   -> ~v
      [] item = "routing" -> v # "bad" /\ (enroll[e].stage # "before" => v = enroll[e].frozen.routing)
      [] OTHER            -> /\ v # "bad"
                             /\ country = "CA" /\ enroll[e].stage # "before" => v = enroll[e].frozen[item]

\* A precondition is read, found good, and the run goes on to its next read.
ReadOn(e, item) ==
    LET p == enroll[e] IN
    /\ IF p.stage = "before" /\ item # "other"
       THEN enroll' = [enroll EXCEPT ![e].next = @ + 1, ![e].frozen[item] = world[item]]
       ELSE enroll' = [enroll EXCEPT ![e].next = @ + 1]
    /\ UNCHANGED told

LastRead(e) == enroll[e].next = Len(Reads(enroll[e].stage))

\* What follows the last read of a stage.
Completes(e) ==
    LET p == enroll[e] IN
    CASE p.stage = "before" -> Goes(e, "again")
      [] p.stage = "again"  -> Goes(e, "ready")
      [] p.stage = "raced"  -> Finish(e, "already", "no")
      [] p.stage = "after"  -> Finish(e, "enrolled", p.mutated)

ReadPrecondition(e) ==
    LET p == enroll[e]
        item == Reads(p.stage)[p.next]
    IN /\ p.stage \in Reading /\ e \notin stopped /\ item # "member"
       /\ IF ~Holds(e, item) THEN Refuse(e)
          ELSE IF LastRead(e) THEN Completes(e) ELSE ReadOn(e, item)
       /\ UNCHANGED <<country, world, stopped, landing, created, drifts>>

\* The membership: absent, valid, or not what it must be.
ReadMember(e) ==
    LET p == enroll[e] IN
    /\ p.stage \in Reading /\ e \notin stopped /\ Reads(p.stage)[p.next] = "member"
    /\ CASE world.member = "bad" -> Refuse(e)
         [] world.member # "bad" /\ p.stage = "before" /\ country = "US" ->
              IF world.member = "ours" THEN Finish(e, "already", "no") ELSE Completes(e)
         [] world.member # "bad" /\ p.stage = "before" /\ country = "CA" ->
              /\ enroll' = [enroll EXCEPT ![e].next = @ + 1, ![e].present = (world.member = "ours")]
              /\ UNCHANGED told
         [] world.member # "bad" /\ p.stage = "again" ->
              IF p.present THEN IF world.member = "ours" THEN Finish(e, "already", "no") ELSE Refuse(e)
              ELSE IF e \in NoCreate THEN Finish(e, "skipped", "no")
              ELSE IF world.member = "ours" THEN Goes(e, "raced") ELSE Goes(e, "ready")
         [] world.member # "bad" /\ p.stage = "after" ->
              IF world.member = "absent" THEN Finish(e, "uncertain", p.mutated)
              ELSE IF LastRead(e) THEN Completes(e) ELSE ReadOn(e, "assignment")
    /\ UNCHANGED <<country, world, stopped, landing, created, drifts>>

\* The guard before a read, or before the creation, finds the run stopped: the
\* US one out of its budget, the Canadian one by the answer its caller gave.
GuardRefuses(e) ==
    /\ enroll[e].stage \in Reading \cup {"ready"} /\ e \in stopped
    /\ Finish(e, IF country = "CA" /\ enroll[e].mutated = "no" THEN "rejected" ELSE "uncertain", Known(e))
    /\ UNCHANGED <<country, world, stopped, landing, created, drifts>>

ReadFails(e) ==
    /\ enroll[e].stage \in Reading /\ e \notin stopped
    /\ Finish(e, "uncertain", Known(e))
    /\ UNCHANGED <<country, world, stopped, landing, created, drifts>>

\* The last guard. The Canadian thread notes the attempt on a line of its own.
Create(e) ==
    /\ \/ enroll[e].stage = "ready" /\ e \notin stopped
       \/ enroll[e].stage = "attempt"
    /\ enroll' = [enroll EXCEPT
                    ![e].stage = IF country = "CA" /\ @ = "ready" THEN "attempt" ELSE "creating",
                    ![e].mutated = IF country = "CA" /\ enroll[e].stage = "attempt" THEN "yes" ELSE @]
    /\ UNCHANGED <<country, world, told, stopped, landing, created, drifts>>

\* Twilio's verdict on a creation: done, already a member, or in another service.
Carried(e) ==
    IF world.member = "absent" /\ ~world.other
    THEN world' = [world EXCEPT !.member = "ours"] /\ created' = created \cup {e}
    ELSE UNCHANGED <<world, created>>

CreateAnswered(e) ==
    /\ enroll[e].stage = "creating"
    /\ Carried(e)
    /\ IF world.other /\ world.member = "absent"
       THEN Finish(e, IF country = "US" THEN "rejected" ELSE "uncertain", IF country = "US" THEN "no" ELSE "unknown")
       ELSE IF world.member = "absent"
            THEN enroll' = [enroll EXCEPT ![e].stage = "after", ![e].next = 1, ![e].mutated = "yes"] /\ UNCHANGED told
       ELSE IF country = "US"
            THEN enroll' = [enroll EXCEPT ![e].stage = "after", ![e].next = 1, ![e].mutated = "unknown"] /\ UNCHANGED told
       ELSE Finish(e, "uncertain", "unknown")
    /\ UNCHANGED <<country, stopped, landing, drifts>>

\* Seeded fault: an answer that was lost is taken for a creation that was not done.
LostMeansNo(e) ==
    IF country = "US" THEN enroll' = [enroll EXCEPT ![e].stage = "after", ![e].next = 1] /\ UNCHANGED told
    ELSE Finish(e, "uncertain", "no")

\* The answer is lost: the run cannot say whether the number is enrolled now.
LostMeansUnknown(e) ==
    IF country = "US"
    THEN enroll' = [enroll EXCEPT ![e].stage = "after", ![e].next = 1, ![e].mutated = "unknown"] /\ UNCHANGED told
    ELSE Finish(e, "uncertain", "unknown")

CreateLost(e) ==
    /\ enroll[e].stage = "creating"
    /\ landing' = landing \cup {e}
    /\ LostMeansUnknown(e)
    /\ UNCHANGED <<country, world, stopped, created, drifts>>

Lands(e) ==
    /\ e \in landing
    /\ landing' = landing \ {e}
    /\ Carried(e)
    /\ UNCHANGED <<country, enroll, told, stopped, drifts>>

------------------------------------------------------------------------------
\* The budget runs out: the next guard refuses. The Canadian caller does not
\* wait for that guard (asyncio.wait_for) and answers from what was noted so far.
OutOfBudget(e) ==
    /\ enroll[e].stage # "done" /\ e \notin stopped
    /\ stopped' = stopped \cup {e}
    /\ IF country = "CA" THEN Tell(e, "uncertain", Known(e))
       ELSE UNCHANGED told
    /\ UNCHANGED <<country, world, enroll, landing, created, drifts>>

\* The caller is cancelled. The US coroutine dies with its last request under
\* way; the Canadian thread runs on to its next guard.
Cancelled(e) ==
    /\ enroll[e].stage # "done" /\ e \notin stopped
    /\ stopped' = stopped \cup {e}
    /\ told' = IF told[e] = Nothing THEN [told EXCEPT ![e] = [status |-> "cancelled", mutated |-> "unknown"]] ELSE told
    /\ IF country = "US" THEN Ended(e) ELSE UNCHANGED enroll
    /\ landing' = IF country = "US" /\ enroll[e].stage = "creating" THEN landing \cup {e} ELSE landing
    /\ UNCHANGED <<country, world, created, drifts>>

\* The owner, an operator or another component changes what was read.
Drift ==
    /\ drifts < MaxDrifts /\ drifts' = drifts + 1
    /\ \E item \in {"assignment", "routing", "service", "member", "other"} :
          \E v \in CASE item = "member" -> {"absent", "ours", "bad"} [] item = "other" -> BOOLEAN [] OTHER -> Values :
             world' = [world EXCEPT ![item] = v]
    /\ world' # world
    /\ UNCHANGED <<country, enroll, told, stopped, landing, created>>

EnrollNext ==
    \/ \E e \in Enrolls :
          \/ ReadPrecondition(e) \/ ReadMember(e) \/ GuardRefuses(e) \/ ReadFails(e)
          \/ Create(e) \/ CreateAnswered(e) \/ CreateLost(e) \/ Lands(e)
          \/ OutOfBudget(e) \/ Cancelled(e)
    \/ Drift

------------------------------------------------------------------------------
EnrollTypeOK ==
    /\ \A e \in Enrolls :
          /\ enroll[e].stage \in Reading \cup {"ready", "attempt", "creating", "done"}
          /\ enroll[e].stage \in Reading => enroll[e].next \in 1 .. Len(Reads(enroll[e].stage))
          /\ enroll[e].mutated \in {"no", "yes", "unknown"}
          /\ told[e].mutated \in {"no", "yes", "unknown"}
    /\ created \subseteq Enrolls

\* Whether a run has changed the membership, or still may.
MayHaveCreated(e) == e \in created \cup landing \/ enroll[e].stage = "creating"

(***************************************************************************)
(* A US run that answers "mutated: False" did not create the membership and *)
(* will not, whichever read, guard, conflict or lost answer ended it; one   *)
(* that answers True created it.                                            *)
(***************************************************************************)
MutatedIsHonest ==
    country = "US" => \A e \in Enrolls : told[e] # Nothing =>
        /\ told[e].mutated = "no" => ~MayHaveCreated(e)
        /\ told[e].mutated = "yes" => e \in created

================================================================================
