---------------------------- MODULE MessageRequest ----------------------------
(***************************************************************************)
(* Taking a message instead of a pickup: the decline POST, the owner       *)
(* timeout (run_owner_timeout, arbitrate_owner_timeout), the one           *)
(* publication of the intent to /call_commands for older consumers         *)
(* (src/app/services/legacy_call_commands.py), and the consumer that every *)
(* voice pipeline polls (consume_message_intent): it adopts a command of   *)
(* an older producer, tells the caller, and acknowledges.                  *)
(***************************************************************************)
EXTENDS ActiveCall

CONSTANT LegacyProducer    \* whether a server of an older revision still runs

ASSUME LegacyAssumption == LegacyProducer \in BOOLEAN

VARIABLES
    posted,     \* decline POSTs handled
    timer,      \* where the pipeline's owner timeout is
    publish,    \* publisher -> where its publication is
    expected,   \* publisher -> the claim it publishes for
    command,    \* /call_commands/{sid}
    consume,    \* stream -> where its consumer is
    intent,     \* stream -> the intent its consumer read
    adopted,    \* stream -> the legacy command its consumer read
    delivered,  \* stream -> the claim its pipeline has announced
    heard       \* history: claims the caller was told about

messageVars == <<posted, timer, publish, expected, command,
                 consume, intent, adopted, delivered, heard>>

Publishers == Declines \cup {TimerNonce}

Intent == [action : {"decline", "timeout"}, operation_id : AllOps, claim_nonce : Nonces]
Claims == [intent : Intent, conference_name : Confs, ws_token : {None} \cup Tokens]
Bare == [action |-> None, operation_id |-> None, claim_nonce |-> None]

MessageTypeOK ==
    /\ posted \subseteq Declines
    /\ timer \in {"off", "deadline", "recheck", "wait", "publish", "settle", "done"}
    /\ publish \in [Publishers -> {"idle", "reserve", "recheck", "command",
                                   "published", "blocked", "uncertain"}]
    /\ expected \in [Publishers -> {None} \cup Claims]
    /\ command \in {None, Bare} \cup Intent
    /\ consume \in [Tokens -> {"idle", "adopt", "claim", "intent", "owed", "confirm",
                              "guard", "deliver", "ack", "acknowledge", "cleanup"}]
    /\ intent \in [Tokens -> {None} \cup Intent]
    /\ adopted \in [Tokens -> {None, Bare} \cup Intent]
    /\ delivered \in [Tokens -> {None} \cup Intent]
    /\ heard \subseteq Intent

MessageInit ==
    /\ posted = {}
    /\ timer = "off"
    /\ publish = [p \in Publishers |-> "idle"]
    /\ expected = [p \in Publishers |-> None]
    /\ command = None
    /\ consume = [t \in Tokens |-> "idle"]
    /\ intent = [t \in Tokens |-> None]
    /\ adopted = [t \in Tokens |-> None]
    /\ delivered = [t \in Tokens |-> None]
    /\ heard = {}

-----------------------------------------------------------------------------
(* publish_message_intent.                                                 *)

ClaimOf(r) == [intent |-> message_intent_from_record(r, Requested),
               conference_name |-> r.conference_name, ws_token |-> r.ws_token]

expected_message(r, claim, statuses) ==
    /\ message_intent_from_record(r, statuses) = claim.intent
    /\ r.conference_name = claim.conference_name
    /\ r.ws_token = claim.ws_token

\* Publication begins for a claim that still requests a message.
BeginPublish(p, r) ==
    IF message_intent_from_record(r, Requested) # None
    THEN /\ publish' = [publish EXCEPT ![p] = "reserve"]
         /\ expected' = [expected EXCEPT ![p] = ClaimOf(r)]
    ELSE UNCHANGED <<publish, expected>>

EndPublish(p) ==
    /\ publish' = [publish EXCEPT ![p] = "idle"]
    /\ expected' = [expected EXCEPT ![p] = None]

\* Only the publication that finds no projection reserves it, and for good.
PublishReserve(p) ==
    /\ publish[p] = "reserve"
    /\ LET free == /\ expected_message(rec, expected[p], Requested)
                   /\ rec.projection_nonce = None
       IN  \E outcome \in Outcomes :
             /\ Commit(outcome, IF free THEN [rec EXCEPT !.projection_nonce = p,
                                                         !.projection_status = "attempting"]
                                ELSE rec)
             /\ IF outcome = "ok" /\ free
                THEN publish' = [publish EXCEPT ![p] = "recheck"] /\ UNCHANGED expected
                ELSE EndPublish(p)
    /\ UNCHANGED <<caller, streams, posted, timer, command, consume, intent, adopted, delivered, heard>>

PublishRecheck(p) ==
    /\ publish[p] = "recheck"
    /\ \E outcome \in Outcomes \ {"lost"} :
         /\ Charge(outcome)
         /\ IF /\ outcome = "ok"
               /\ rec.projection_nonce = p
               /\ expected_message(rec, expected[p], Requested)
            THEN publish' = [publish EXCEPT ![p] = "command"] /\ UNCHANGED expected
            ELSE EndPublish(p)
    /\ UNCHANGED <<rec, caller, streams, posted, timer, command, consume, intent, adopted, delivered, heard>>

\* The command is written only where there is none.
PublishCommand(p) ==
    /\ publish[p] = "command"
    /\ \E outcome \in Outcomes :
         /\ Charge(outcome)
         /\ command' = IF outcome # "failed" /\ command = None THEN expected[p].intent ELSE command
         /\ publish' = [publish EXCEPT ![p] =
                          IF outcome # "ok" THEN "uncertain"
                          ELSE IF command' = expected[p].intent THEN "published" ELSE "blocked"]
    /\ UNCHANGED <<rec, caller, streams, posted, timer, expected, consume, intent, adopted, delivered, heard>>

PublishRecord(p) ==
    /\ publish[p] \in {"published", "blocked", "uncertain"}
    /\ \E outcome \in Outcomes :
         Commit(outcome, IF expected_message(rec, expected[p], AnyMessage) /\ rec.projection_nonce = p
                         THEN [rec EXCEPT !.projection_status = publish[p]] ELSE rec)
    /\ EndPublish(p)
    /\ UNCHANGED <<caller, streams, posted, timer, command, consume, intent, adopted, delivered, heard>>

PublishStep(p) == PublishReserve(p) \/ PublishRecheck(p) \/ PublishCommand(p) \/ PublishRecord(p)

-----------------------------------------------------------------------------
(* The two claims of a message: handle_owner_call_action, decline, and the *)
(* timeout of the pipeline that holds the caller.                          *)

DeclineClaim(d) ==
    /\ d \notin posted
    /\ posted' = posted \cup {d}
    /\ \E outcome \in Outcomes :
         LET claimed == reduce_active_call_action(rec, "decline", OpOf[d], d) IN
         /\ Commit(outcome, claimed)
         /\ IF /\ outcome = "ok"
               /\ claimed.owner_action = "decline"
               /\ claimed.owner_operation_id = OpOf[d]
            THEN BeginPublish(d, claimed)
            ELSE UNCHANGED <<publish, expected>>
    /\ UNCHANGED <<caller, streams, timer, command, consume, intent, adopted, delivered, heard>>

PipelineAlive == \E t \in Tokens : streams[t] = "up"

\* Kevin asks the caller to hold, which starts the timer of his pipeline unless
\* one runs or the message was announced.
TimerStart ==
    /\ timer \in {"off", "done"}
    /\ PipelineAlive
    /\ \A t \in Tokens : delivered[t] = None
    /\ timer' = "deadline"
    /\ UNCHANGED <<sharedVars, posted, publish, expected, command, consume, intent, adopted, delivered, heard>>

OwnerSettling == live_record(rec) /\ rec.owner_action_status \in {"accepting", "uncertain"}

\* ensure_owner_deadline: the first wait is set, or the record is not open for
\* one. The deadline itself is not modelled.
TimerDeadline ==
    /\ timer = "deadline"
    /\ PipelineAlive
    /\ \E outcome \in Outcomes :
         /\ Charge(outcome)
         /\ timer' = IF outcome # "ok" THEN "deadline"
                     ELSE IF /\ live_record(rec)
                             /\ rec.owner_action = None
                             /\ ~rec.accepted
                             /\ rec.state = "decision" THEN "wait"
                     ELSE "recheck"
    /\ UNCHANGED <<rec, caller, streams, posted, publish, expected, command, consume, intent, adopted, delivered, heard>>

\* No deadline: keep asking while a pickup is still settling, else end.
TimerRecheck ==
    /\ timer = "recheck"
    /\ \E outcome \in Outcomes \ {"lost"} :
         /\ Charge(outcome)
         /\ timer' = IF outcome # "ok" \/ OwnerSettling THEN "deadline" ELSE "done"
    /\ UNCHANGED <<rec, caller, streams, posted, publish, expected, command, consume, intent, adopted, delivered, heard>>

\* Seeded fault: a timeout whose storage fails gives up.
TimerFailsOnce ==
    /\ timer = "wait"
    /\ PipelineAlive
    /\ \E outcome \in Outcomes :
         LET claimed == reduce_active_call_action(rec, "timeout", TimeoutOp, TimerNonce)
             won     == live_record(claimed) /\ claimed.owner_action = "timeout"
         IN  /\ Commit(outcome, claimed)
             /\ timer' = IF outcome # "ok" THEN "done" ELSE IF won THEN "publish" ELSE "settle"
             /\ IF outcome = "ok" /\ won THEN BeginPublish(TimerNonce, claimed)
                ELSE UNCHANGED <<publish, expected>>
    /\ UNCHANGED <<caller, streams, posted, command, consume, intent, adopted, delivered, heard>>

\* arbitrate_owner_timeout, once the deadline has passed.
TimerArbitrate ==
    /\ timer = "wait"
    /\ PipelineAlive
    /\ \E outcome \in Outcomes :
         LET claimed == reduce_active_call_action(rec, "timeout", TimeoutOp, TimerNonce)
             won     == live_record(claimed) /\ claimed.owner_action = "timeout"
         IN  /\ Commit(outcome, claimed)
             /\ timer' = IF outcome # "ok" THEN "wait" ELSE IF won THEN "publish" ELSE "settle"
             /\ IF outcome = "ok" /\ won THEN BeginPublish(TimerNonce, claimed)
                ELSE UNCHANGED <<publish, expected>>
    /\ UNCHANGED <<caller, streams, posted, command, consume, intent, adopted, delivered, heard>>

\* The intent is published; the timer ends once the pipeline has announced it.
TimerPublished ==
    /\ timer = "publish"
    /\ publish[TimerNonce] = "idle"
    /\ timer' = IF \E t \in Tokens : streams[t] = "up" /\ delivered[t] # None THEN "done" ELSE "wait"
    /\ UNCHANGED <<sharedVars, posted, publish, expected, command, consume, intent, adopted, delivered, heard>>

\* The timeout lost: it keeps waiting for a pickup that may still be released.
TimerSettle ==
    /\ timer = "settle"
    /\ \E outcome \in Outcomes \ {"lost"} :
         /\ Charge(outcome)
         /\ timer' = IF outcome # "ok" \/ OwnerSettling THEN "wait" ELSE "done"
    /\ UNCHANGED <<rec, caller, streams, posted, publish, expected, command, consume, intent, adopted, delivered, heard>>

TimerEnds ==
    /\ timer \in {"deadline", "wait"}
    /\ ~PipelineAlive
    /\ timer' = "done"
    /\ UNCHANGED <<sharedVars, posted, publish, expected, command, consume, intent, adopted, delivered, heard>>

TimerStep == TimerDeadline \/ TimerRecheck \/ TimerArbitrate \/ TimerPublished \/ TimerSettle \/ TimerEnds

-----------------------------------------------------------------------------
(* adopt_legacy_message_intent.                                            *)

\* A server of the previous revision queues its unversioned command.
LegacyDecline ==
    /\ LegacyProducer
    /\ command # Bare
    /\ command' = Bare
    /\ UNCHANGED <<sharedVars, posted, timer, publish, expected, consume, intent, adopted, delivered, heard>>

live_binding(r, bound) ==
    /\ live_record(r)
    /\ r.state = "decision"
    /\ ~r.accepted
    /\ r.owner_action # "accept"
    /\ r.kevin_redirect_status # "pending"
    /\ bound

\* A bare command asks to adopt only where nothing else claimed the call.
Unclaimed(r, bound) == live_binding(r, bound) /\ r.owner_action = None

\* The transaction that makes a bare command a decision of this record.
Adoption(r, bound) ==
    IF live_binding(r, bound)
    THEN reduce_active_call_action(r, "decline", LegacyOp, LegacyNonce) ELSE r

\* The intent that a queued command stands for: a bare one for any message that
\* the record requests.
Observed(r, bound, queued) ==
    LET found == message_intent_from_record(r, AnyMessage)
    IN  IF live_binding(r, bound) /\ queued \in {Bare, found} THEN found ELSE None

-----------------------------------------------------------------------------
(* consume_message_intent, run under the pipeline's delivery lock.         *)

ConsumeTo(t, step) == consume' = [consume EXCEPT ![t] = step]

\* The command and the intent are the attempt's own: one that ends forgets them.
Remembers(t) ==
    IF consume'[t] = "idle"
    THEN intent' = [intent EXCEPT ![t] = None] /\ adopted' = [adopted EXCEPT ![t] = None]
    ELSE UNCHANGED <<intent, adopted>>

\* The command is read before the record; a read that raises finds no command.
ConsumeCommand(t) ==
    /\ consume[t] = "idle"
    /\ streams[t] = "up"
    /\ \E outcome \in Outcomes \ {"lost"} :
         /\ Charge(outcome)
         /\ adopted' = [adopted EXCEPT ![t] = IF outcome = "ok" THEN command ELSE None]
    /\ ConsumeTo(t, IF adopted'[t] = None THEN "intent" ELSE "adopt")
    /\ UNCHANGED <<rec, caller, streams, posted, timer, publish, expected, command, intent, delivered, heard>>

\* The snapshot: the command that was read and the intent it stands for, or neither.
Snapshot(t, seen) ==
    /\ adopted' = [adopted EXCEPT ![t] = IF seen = None THEN None ELSE adopted[t]]
    /\ intent' = [intent EXCEPT ![t] = seen]
    /\ ConsumeTo(t, "intent")

ConsumeAdopt(t) ==
    /\ consume[t] = "adopt"
    /\ \E outcome \in Outcomes \ {"lost"} :
         /\ Charge(outcome)
         /\ IF outcome = "ok" /\ adopted[t] = Bare /\ Unclaimed(rec, rec.ws_token = t)
            THEN ConsumeTo(t, "claim") /\ UNCHANGED <<intent, adopted>>
            ELSE Snapshot(t, IF outcome = "ok" THEN Observed(rec, rec.ws_token = t, adopted[t])
                             ELSE None)
    /\ UNCHANGED <<rec, caller, streams, posted, timer, publish, expected, command, delivered, heard>>

\* The binding may have changed since; what counts is that the record is the
\* command's own decision in the end.
ConsumeClaim(t) ==
    /\ consume[t] = "claim"
    /\ \E outcome \in Outcomes :
         LET new == Adoption(rec, rec.ws_token = t)
             own == new.owner_action = "decline" /\ new.owner_operation_id = LegacyOp
         IN  /\ Commit(outcome, new)
             /\ Snapshot(t, IF outcome = "ok" /\ own THEN Observed(new, new.ws_token = t, Bare)
                            ELSE None)
    /\ UNCHANGED <<caller, streams, posted, timer, publish, expected, command, delivered, heard>>

\* A read of the record, on which the attempt goes on to step; one that raises ends it.
ConsumeReads(t, step) ==
    /\ \E outcome \in Outcomes \ {"lost"} :
         /\ Charge(outcome)
         /\ ConsumeTo(t, IF outcome = "ok" THEN step ELSE "idle")
    /\ UNCHANGED <<rec, caller, streams, posted, timer, publish, expected, command,
                   delivered, heard>>
    /\ Remembers(t)

\* pending_message_intent, for whatever stream holds the caller. Without one, an
\* instruction that was acknowledged before may still owe the cleanup of its command.
ConsumeIntent(t) ==
    /\ consume[t] = "intent"
    /\ LET found == message_intent_from_record(rec, Requested)
       IN  IF streams[t] = "up" /\ found # None /\ (adopted[t] = None \/ intent[t] = found)
           THEN /\ intent' = [intent EXCEPT ![t] = found]
                /\ ConsumeTo(t, "confirm") /\ UNCHANGED adopted
           ELSE /\ ConsumeTo(t, IF streams[t] = "up" /\ found = None /\ adopted[t] # None
                                THEN "owed" ELSE "idle")
                /\ Remembers(t)
    /\ UNCHANGED <<sharedVars, posted, timer, publish, expected, command, delivered, heard>>

\* The record names this stream and, in one of these statuses, this claim.
Names(t, statuses) ==
    /\ message_intent_from_record(rec, statuses) = intent[t]
    /\ rec.ws_token = t

ConsumeOwed(t) ==
    /\ consume[t] = "owed"
    /\ ConsumeReads(t, IF streams[t] = "up" /\ Names(t, {"taking_message"}) THEN "cleanup" ELSE "idle")

Guarded(t) == streams[t] = "up" /\ Names(t, Requested)

\* The same record again, for this stream. What was announced is only acknowledged.
ConsumeConfirm(t) ==
    /\ consume[t] = "confirm"
    /\ ConsumeReads(t, IF ~Guarded(t) THEN "idle"
                       ELSE IF delivered[t] = intent[t] THEN "ack" ELSE "guard")

\* The last read before Kevin speaks; preparing to speak may give up first.
ConsumeGuard(t) ==
    /\ consume[t] = "guard"
    /\ \E prepared \in BOOLEAN :
         ConsumeReads(t, IF prepared /\ Guarded(t) THEN "deliver" ELSE "idle")

\* Seeded fault: an announcement that was cut off is acknowledged like any other.
ConsumeDeliverUnheeded(t) ==
    /\ consume[t] = "deliver"
    /\ \E spoken \in BOOLEAN :
         heard' = IF spoken /\ caller = OnStream(t) THEN heard \cup {intent[t]} ELSE heard
    /\ ConsumeTo(t, "ack")
    /\ UNCHANGED <<sharedVars, posted, timer, publish, expected, command, intent, adopted, delivered>>

\* Kevin says it, all of it or a part; only all of it counts as delivered.
ConsumeDeliver(t) ==
    /\ consume[t] = "deliver"
    /\ \E spoken, success \in BOOLEAN :
         /\ success => spoken /\ streams[t] = "up"
         /\ heard' = IF spoken /\ caller = OnStream(t) THEN heard \cup {intent[t]} ELSE heard
         /\ delivered' = IF success THEN [delivered EXCEPT ![t] = intent[t]] ELSE delivered
         /\ ConsumeTo(t, IF success THEN "ack" ELSE "idle")
    /\ UNCHANGED <<sharedVars, posted, timer, publish, expected, command>>
    /\ Remembers(t)

\* The guard again, after the announcement.
ConsumeAck(t) ==
    /\ consume[t] = "ack"
    /\ ConsumeReads(t, IF Guarded(t) THEN "acknowledge" ELSE "idle")

\* acknowledge_owner_action: the same claim and token, whether or not the stream is up.
ConsumeAcknowledge(t) ==
    /\ consume[t] = "acknowledge"
    /\ \E outcome \in Outcomes :
         /\ Commit(outcome, IF Names(t, AnyMessage)
                            THEN [rec EXCEPT !.owner_action_status = "taking_message"] ELSE rec)
         /\ ConsumeTo(t, IF outcome = "ok" /\ Names(t, AnyMessage) /\ adopted[t] # None
                         THEN "cleanup" ELSE "idle")
    /\ UNCHANGED <<caller, streams, posted, timer, publish, expected, command, delivered, heard>>
    /\ Remembers(t)

\* delete_legacy_command_conditional: a command that was replaced survives.
ConsumeCleanup(t) ==
    /\ consume[t] = "cleanup"
    /\ \E outcome \in Outcomes :
         /\ Charge(outcome)
         /\ command' = IF outcome # "failed" /\ command = adopted[t] THEN None ELSE command
    /\ ConsumeTo(t, "idle")
    /\ UNCHANGED <<rec, caller, streams, posted, timer, publish, expected, delivered, heard>>
    /\ Remembers(t)

ConsumeStep(t) ==
    \/ ConsumeCommand(t) \/ ConsumeAdopt(t) \/ ConsumeClaim(t) \/ ConsumeIntent(t)
    \/ ConsumeOwed(t) \/ ConsumeConfirm(t) \/ ConsumeGuard(t) \/ ConsumeDeliver(t)
    \/ ConsumeAck(t) \/ ConsumeAcknowledge(t) \/ ConsumeCleanup(t)

MessageNext ==
    \/ \E d \in Declines : DeclineClaim(d)
    \/ \E p \in Publishers : PublishStep(p)
    \/ TimerStart \/ TimerStep
    \/ LegacyDecline
    \/ \E t \in Tokens : ConsumeStep(t)
=============================================================================
